---------------------------- MODULE TradeReports ----------------------------
(***************************************************************************)
(* Position reports on their way into the trades table: the TRADES stream, *)
(* the TradeEventConsumer that pulls from it, or listens on core NATS when *)
(* its start could not use the stream, and upsert_by_position_event with   *)
(* the rules of TradeStatusPolicy.                                         *)
(*                                                                         *)
(* The model follows one trade: reports about different trades share the   *)
(* batch and nothing else.  A report is told apart by its position status; *)
(* "UNKNOWN" is a status the policy has no entry for, "UNREADABLE" a body  *)
(* that does not parse, "POISON" a close whose row can never be written.   *)
(* Every await of the consumer is a step: fetch, commit, settling call.    *)
(***************************************************************************)
EXTENDS Integers, Sequences, FiniteSets, Functions

CONSTANTS
    MaxReports,     \* bound: reports the workers publish
    FetchBatch,     \* settings.jetstream.FETCH_BATCH
    MaxDeliveries,  \* TRADE_MAX_DELIVERIES
    MaxFaults,      \* bound: failed calls, expired ack waits, stops, crashes
    Positions       \* position statuses of the reports

ASSUME ReportsAssumption ==
    /\ MaxReports \in Nat \ {0}
    /\ FetchBatch \in Nat \ {0}
    /\ MaxDeliveries \in Nat \ {0}
    /\ MaxFaults \in Nat

-----------------------------------------------------------------------------
(* TradeStatusPolicy.                                                      *)

\* _POSITION_STATUS_TO_TRADE_STATUS; TP2, SL, R_SL, TERMINAL_CLOSED and
\* FORCED_CLOSED all map to CLOSED.
TradeStatusOf ==
    [OPENED |-> "OPENED", REJECTED |-> "REJECTED", TP1 |-> "PARTIALLY_CLOSED",
     SL |-> "CLOSED", POISON |-> "CLOSED", FLATTED |-> "FLAT"]

Known(p) == p \in DOMAIN TradeStatusOf

Statuses == Range(TradeStatusOf)

\* _STATUS_ORDER
Rank ==
    [OPENED |-> 0, PARTIALLY_CLOSED |-> 1, CLOSED |-> 2, FLAT |-> 2, REJECTED |-> -1]

\* is_open
IsOpen(p) == p \in {"OPENED", "TP1"}

\* Mutant of IsDowngrade: the order is read the wrong way round.
IsDowngradeSwapped(new, current) == Rank[new] > Rank[current]

IsDowngrade(new, current) == Rank[new] < Rank[current]

-----------------------------------------------------------------------------
\* The columns of a trades row the rest of the system decides on, and no row.
Rows == [status: Statuses, is_running: BOOLEAN]
NoRow == [status |-> "NONE", is_running |-> FALSE]

VARIABLES
    position,    \* the position status of every report published so far
    place,       \* where each report stands with JetStream
    deliveries,  \* num_delivered of each report
    batch,       \* fetched and not settled yet; the head is being handled
    outcome,     \* TradeOutcome of the head of the batch
    pc,          \* where the consumer stands
    stopping,    \* JetStreamPullWorker._stop
    stream,      \* whether the TRADES stream captures the reports
    durable,     \* whether the consumer pulls from it
    trade,       \* the trade's row
    faults       \* failed calls, expired ack waits, stops and crashes so far

reportVars ==
    <<position, place, deliveries, batch, outcome, pc, stopping, stream, durable, trade, faults>>

Reports == DOMAIN position

ReportsTypeOK ==
    /\ position \in Seq(Positions) /\ Len(position) <= MaxReports
    /\ place \in [Reports -> {"ready", "pending", "acked", "termed", "lost"}]
    /\ deliveries \in [Reports -> 0..(MaxDeliveries + MaxFaults)]
    /\ batch \in Seq(Reports) /\ Len(batch) <= IF durable THEN FetchBatch ELSE MaxReports
    /\ outcome \in {"none", "PERSISTED", "UNREADABLE", "RETRY"}
    /\ pc \in {"fetch", "settle", "down"}
    /\ stopping \in BOOLEAN
    /\ stream \in BOOLEAN /\ durable \in BOOLEAN /\ (durable => stream)
    /\ trade \in Rows \cup {NoRow}
    /\ faults \in 0..MaxFaults

ReportsInit ==
    /\ position = <<>>
    /\ place = <<>>
    /\ deliveries = <<>>
    /\ batch = <<>>
    /\ outcome = "none"
    /\ pc = "down"
    /\ stopping = FALSE
    /\ stream = FALSE /\ durable = FALSE
    /\ trade = NoRow
    /\ faults = 0

Fault == faults < MaxFaults /\ faults' = faults + 1

-----------------------------------------------------------------------------
(* The workers and JetStream.                                              *)

\* A worker publishes a report.  The stream captures it, and a core
\* subscription hears it; without either it is gone.
Publish(p) ==
    /\ Len(position) < MaxReports
    /\ position' = Append(position, p)
    /\ LET heard == ~durable /\ pc # "down"
       IN  /\ place' = Append(place, IF stream THEN "ready" ELSE IF heard THEN "pending" ELSE "lost")
           /\ batch' = IF heard THEN Append(batch, Len(position) + 1) ELSE batch
    /\ deliveries' = Append(deliveries, 0)
    /\ UNCHANGED <<outcome, pc, stopping, stream, durable, trade, faults>>

\* JetStream redelivers a report whose ack wait ran out: after a settling
\* call that was lost, after a crash, or under a handler that is too slow.
AckWaitExpires(r) ==
    /\ stream
    /\ place[r] = "pending"
    /\ IF \E i \in DOMAIN batch : batch[i] = r THEN Fault ELSE UNCHANGED faults
    /\ place' = [place EXCEPT ![r] = "ready"]
    /\ UNCHANGED <<position, deliveries, batch, outcome, pc, stopping, stream, durable, trade>>

-----------------------------------------------------------------------------
(* The fetch loop, JetStreamPullWorker._run.                               *)

\* Mutant of Ready: the consumer allows one delivery of a report.
ReadyOnce == {r \in Reports : place[r] = "ready" /\ deliveries[r] = 0}

Ready == {r \in Reports : place[r] = "ready"}

\* What one fetch can hand out: new reports come in stream order, redelivered
\* ones anywhere among them.
Batches ==
    {b \in UNION {[1..n -> Ready] : n \in 1..FetchBatch} :
        /\ IsInjective(b)
        /\ \A i \in DOMAIN b : \A r \in Ready :
              deliveries[b[i]] = 0 /\ deliveries[r] = 0 /\ r < b[i]
                  => \E j \in 1..(i - 1) : b[j] = r}

Fetch ==
    /\ durable /\ pc = "fetch" /\ ~stopping
    /\ batch = <<>>
    /\ \E b \in Batches :
          LET got == Range(b)
          IN  /\ batch' = b
              /\ place' = [r \in Reports |-> IF r \in got THEN "pending" ELSE place[r]]
              /\ deliveries' =
                    [r \in Reports |-> IF r \in got THEN deliveries[r] + 1 ELSE deliveries[r]]
    /\ UNCHANGED <<position, outcome, pc, stopping, stream, durable, trade, faults>>

-----------------------------------------------------------------------------
(* handle_subject_trade and upsert_by_position_event.                      *)

\* The row after a report: inserted, updated, or kept on a downgrade.
Upsert(row, p) ==
    LET s == TradeStatusOf[p]
    IN  IF row # NoRow /\ IsDowngrade(s, row.status)
        THEN row
        ELSE [status |-> s, is_running |-> IsOpen(p)]

\* Mutant of HandleOutcome: an error of the database is swallowed.
HandleOutcomeSwallowed(p, o) ==
    IF p = "UNREADABLE" THEN "UNREADABLE" ELSE "PERSISTED"

\* What handle_subject_trade returns for a readable or unreadable report, as
\* the write ends: "ok", "fails" (rolled back) or "unreported" (committed,
\* and an error raised all the same).  An unknown status writes nothing.
HandleOutcome(p, o) ==
    CASE p = "UNREADABLE"        -> "UNREADABLE"
      [] Known(p) /\ o # "ok"    -> "RETRY"
      [] OTHER                   -> "PERSISTED"

\* The report at the head of the batch is parsed and persisted.
Handle(o) ==
    /\ pc = "fetch" /\ batch # <<>>
    /\ LET p == position[Head(batch)]
       IN  /\ IF p = "POISON" THEN o = "fails" /\ UNCHANGED faults
              ELSE IF o = "ok" THEN UNCHANGED faults
              ELSE Known(p) /\ Fault
           /\ outcome' = HandleOutcome(p, o)
           /\ trade' = IF Known(p) /\ o # "fails" THEN Upsert(trade, p) ELSE trade
    /\ pc' = "settle"
    /\ UNCHANGED <<position, place, deliveries, batch, stopping, stream, durable>>

\* Mutant of GivenUp: a report is retried for as long as it fails.
GivenUpNever(r) == FALSE

GivenUp(r) == deliveries[r] >= MaxDeliveries

\* Where _handle_one leaves the report: acked, terminated or NAK-ed.  What was
\* heard on core NATS has no redelivery, and a copy in the stream stays there.
Verdict(r) ==
    CASE stream /\ ~durable                              -> place[r]
      [] ~stream /\ outcome = "RETRY"                    -> "lost"
      [] durable /\ outcome = "RETRY" /\ GivenUp(r)      -> "termed"
      [] durable /\ outcome = "RETRY" /\ ~GivenUp(r)     -> "ready"
      [] stream = durable /\ outcome = "PERSISTED"       -> "acked"
      [] stream = durable /\ outcome = "UNREADABLE"      -> "termed"

\* The settling call, which never raises: one that fails leaves the report
\* pending.  On core NATS there is nothing to settle.
SettleReport(heard) ==
    /\ pc = "settle"
    /\ IF heard THEN UNCHANGED faults ELSE durable /\ Fault
    /\ place' = IF heard THEN [place EXCEPT ![Head(batch)] = Verdict(Head(batch))] ELSE place
    /\ batch' = Tail(batch)
    /\ outcome' = "none"
    /\ pc' = "fetch"
    /\ UNCHANGED <<position, deliveries, stopping, stream, durable, trade>>

-----------------------------------------------------------------------------
(* Start, stop and crash of the consumer.                                  *)

\* Reports only the process knew of.
Dropped == [r \in Reports |-> IF ~stream /\ place[r] = "pending" THEN "lost" ELSE place[r]]

\* stop(): the loop ends after its batch; a core subscription is dropped.
StopConsumer ==
    /\ pc # "down" /\ ~stopping /\ durable
    /\ Fault
    /\ stopping' = TRUE
    /\ UNCHANGED <<position, place, deliveries, batch, outcome, pc, stream, durable, trade>>

Down ==
    /\ pc' = "down"
    /\ batch' = <<>>
    /\ outcome' = "none"
    /\ place' = Dropped
    /\ UNCHANGED <<position, deliveries, stopping, stream, durable, trade>>

ConsumerStopped == stopping /\ pc = "fetch" /\ batch = <<>> /\ Down /\ UNCHANGED faults

\* The process dies, or a core subscription is cancelled by stop().
CrashConsumer == pc # "down" /\ Fault /\ Down

\* A new process: connect() ensures the stream, unless another stream owns the
\* subject, and start() pulls from it; when that fails, for want of a stream or
\* for once, the consumer listens on core NATS until the process ends.
StartConsumer ==
    /\ pc = "down"
    /\ pc' = "fetch"
    /\ stopping' = FALSE
    /\ stream' \in BOOLEAN /\ durable' \in BOOLEAN
    /\ stream \/ durable' => stream'
    /\ IF stream' /\ ~durable' THEN Fault ELSE UNCHANGED faults
    /\ UNCHANGED <<position, place, deliveries, batch, outcome, trade>>

Outcomes == {"ok", "fails", "unreported"}

ReportsNext ==
    \/ \E p \in Positions : Publish(p)
    \/ \E r \in Reports : AckWaitExpires(r)
    \/ Fetch
    \/ \E o \in Outcomes : Handle(o)
    \/ \E heard \in BOOLEAN : SettleReport(heard)
    \/ StopConsumer \/ ConsumerStopped \/ CrashConsumer \/ StartConsumer

ReportsSpec == ReportsInit /\ [][ReportsNext]_reportVars

-----------------------------------------------------------------------------
(* Safety.                                                                 *)

Ranked(r) == Rank[TradeStatusOf[position[r]]]

\* An acked report is in the table: the trade's row stands at least as far in
\* its life as the report says (handle_subject_trade acks only what it
\* persisted; a report with an unknown status is acked and writes nothing).
AckedIsApplied ==
    \A r \in Reports :
        place[r] = "acked" /\ Known(position[r])
            => trade # NoRow /\ Rank[trade.status] >= Ranked(r)

\* A trade that is over stays over: no late, redelivered or reordered report
\* makes a CLOSED or FLAT row run again (is_downgrade).
ClosedIsFinal ==
    [][trade.status \in {"CLOSED", "FLAT"} =>
          trade'.status \in {"CLOSED", "FLAT"} /\ ~trade'.is_running]_reportVars

=============================================================================
