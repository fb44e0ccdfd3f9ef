--------------------------- MODULE DeferredEnqueue ---------------------------
(***************************************************************************)
(* The way of a TradingView alert into the SIGNALS stream: the webhook     *)
(* route, SignalProcessingService.enqueue, and the DeferredEnqueuer that   *)
(* keeps retrying, from memory, what JetStream did not ack in time.        *)
(*                                                                         *)
(* A publish under an alert's Nats-Msg-Id ends in one of three ways: acked *)
(* (the stream has it), unacked (the stream has it and the caller does not *)
(* know), or not stored.  The stream drops a message whose id it stored    *)
(* within its duplicate window.  Time passes one tick per failed attempt   *)
(* of the retry loop (PubAck timeout and retry interval together).         *)
(***************************************************************************)
EXTENDS Integers, Sequences, Functions

CONSTANTS
    Alerts,       \* the alerts TradingView posts, each with its own msg_id
    QueueSize,    \* DEFERRED_QUEUE_MAXSIZE
    MaxAttempts,  \* settings.webhook.DEFERRED_ENQUEUE_MAX_ATTEMPTS
    Window        \* JETSTREAM_DUPLICATE_WINDOW_SECONDS, in ticks

ASSUME EnqueueAssumption ==
    /\ QueueSize \in Nat \ {0}
    /\ MaxAttempts \in Nat \ {0}
    /\ Window \in Nat

Outcomes == {"acked", "unacked", "not_stored"}

\* _DeferredEnvelope
Deferred == [id: Alerts, attempts: 0..MaxAttempts]

VARIABLES
    reply,      \* what the webhook route answered each alert
    copies,     \* how often the stream stored each alert
    memory,     \* ticks for which the stream still drops the alert's msg_id
    queue,      \* DeferredEnqueuer._queue
    in_flight,  \* DeferredEnqueuer._in_flight, as a sequence of at most one
    leftovers,  \* what stop() still has to drain
    loop,       \* where the retry loop stands
    lost,       \* alerts reported lost in the error log
    killed      \* alerts that died with the process, unreported

vars == <<reply, copies, memory, queue, in_flight, leftovers, loop, lost, killed>>

TypeOK ==
    /\ reply \in [Alerts -> {"none", "queued", "deferred", "503", "401"}]
    /\ copies \in [Alerts -> Nat]
    /\ memory \in [Alerts -> 0..Window]
    /\ queue \in Seq(Deferred) /\ Len(queue) <= QueueSize
    /\ in_flight \in Seq(Deferred) /\ Len(in_flight) <= 1
    /\ leftovers \in Seq(Deferred)
    /\ loop \in {"get", "publish", "sleep", "drain", "stopped"}
    /\ lost \subseteq Alerts
    /\ killed \subseteq Alerts

Init ==
    /\ reply = [a \in Alerts |-> "none"]
    /\ copies = [a \in Alerts |-> 0]
    /\ memory = [a \in Alerts |-> 0]
    /\ queue = <<>>
    /\ in_flight = <<>>
    /\ leftovers = <<>>
    /\ loop = "get"
    /\ lost = {}
    /\ killed = {}

Running == loop \in {"get", "publish", "sleep"}

\* Envelopes still owed to JetStream, in the order stop() would drain them.
Owed == in_flight \o queue \o leftovers

OwedIds == {Owed[i].id : i \in DOMAIN Owed}

-----------------------------------------------------------------------------
(* JetStream.                                                              *)

\* publish_webhook_event reaches the stream unless it is not stored.
Stored(a, o) ==
    /\ copies' = IF o # "not_stored" /\ memory[a] = 0
                 THEN [copies EXCEPT ![a] = @ + 1] ELSE copies
    /\ memory' = IF o # "not_stored" /\ memory[a] = 0
                 THEN [memory EXCEPT ![a] = Window] ELSE memory

\* One tick of the duplicate window.
Tick == memory' = [a \in Alerts |-> IF memory[a] = 0 THEN 0 ELSE memory[a] - 1]

-----------------------------------------------------------------------------
(* The webhook route.                                                      *)

\* _verify_token refuses the alert; nothing else happens.
Unauthorized(a) ==
    /\ Running
    /\ reply[a] = "none"
    /\ reply' = [reply EXCEPT ![a] = "401"]
    /\ UNCHANGED <<copies, memory, queue, in_flight, leftovers, loop, lost, killed>>

\* Mutant of Submit: the bound of the queue is not looked at.
SubmitUnbounded(a) ==
    /\ queue' = Append(queue, [id |-> a, attempts |-> 0])
    /\ reply' = [reply EXCEPT ![a] = "deferred"]

\* _defer and DeferredEnqueuer.submit: 202 "deferred", or 503 on a full queue.
Submit(a) ==
    IF Len(queue) < QueueSize
    THEN /\ queue' = Append(queue, [id |-> a, attempts |-> 0])
         /\ reply' = [reply EXCEPT ![a] = "deferred"]
    ELSE /\ reply' = [reply EXCEPT ![a] = "503"]
         /\ UNCHANGED queue

\* enqueue: one publish inside the HTTP deadline, then defer.
Enqueue(a, o) ==
    /\ Running
    /\ reply[a] = "none"
    /\ Stored(a, o)
    /\ IF o = "acked"
       THEN reply' = [reply EXCEPT ![a] = "queued"] /\ UNCHANGED queue
       ELSE Submit(a)
    /\ UNCHANGED <<in_flight, leftovers, loop, lost, killed>>

-----------------------------------------------------------------------------
(* DeferredEnqueuer._run and _attempt.                                     *)

\* Mutant of Attempted: the attempt is not counted.
AttemptedUncounted(e) == e

Attempted(e) == [e EXCEPT !.attempts = @ + 1]

\* The loop takes the oldest envelope off the queue and starts an attempt.
Get ==
    /\ loop = "get"
    /\ queue # <<>>
    /\ queue' = Tail(queue)
    /\ in_flight' = <<Attempted(Head(queue))>>
    /\ loop' = "publish"
    /\ UNCHANGED <<reply, copies, memory, leftovers, lost, killed>>

Exhausted(e) == e.attempts >= MaxAttempts

\* The publish of the envelope in flight ends: done, given up, or to be
\* retried after the interval.
Attempt(o) ==
    /\ loop = "publish"
    /\ Stored(in_flight[1].id, o)
    /\ \/ /\ o = "acked"
          /\ in_flight' = <<>> /\ loop' = "get"
          /\ UNCHANGED lost
       \/ /\ o # "acked" /\ Exhausted(in_flight[1])
          /\ lost' = lost \cup {in_flight[1].id}
          /\ in_flight' = <<>> /\ loop' = "get"
       \/ /\ o # "acked" /\ ~Exhausted(in_flight[1])
          /\ loop' = "sleep"
          /\ UNCHANGED <<in_flight, lost>>
    /\ UNCHANGED <<reply, queue, leftovers, killed>>

\* Mutant of Requeued: the envelope stays in flight as well.
RequeuedTwice ==
    /\ queue' = Append(queue, in_flight[1])
    /\ UNCHANGED <<in_flight, lost>>

\* put_nowait after the interval; a queue that filled up meanwhile loses it.
Requeued ==
    /\ IF Len(queue) < QueueSize
       THEN queue' = Append(queue, in_flight[1]) /\ UNCHANGED lost
       ELSE lost' = lost \cup {in_flight[1].id} /\ UNCHANGED queue
    /\ in_flight' = <<>>

\* The retry interval is over.
Requeue ==
    /\ loop = "sleep"
    /\ Requeued
    /\ loop' = "get"
    /\ Tick
    /\ UNCHANGED <<reply, copies, leftovers, killed>>

-----------------------------------------------------------------------------
(* Shutdown, restart, crash.                                               *)

\* Mutant of Leftovers: the envelope the loop had taken is forgotten.
LeftoversQueued == queue

\* stop() drains the envelope in flight first, then the queue.
Leftovers == in_flight \o queue

\* A publish cut off while the loop awaited its ack may have reached the stream.
CutOff(landed) ==
    IF landed THEN loop = "publish" /\ Stored(in_flight[1].id, "unacked")
    ELSE UNCHANGED <<copies, memory>>

\* stop() cancels the loop at whichever await it stands.  The HTTP server has
\* stopped before.
Stop(landed) ==
    /\ Running
    /\ CutOff(landed)
    /\ leftovers' = Leftovers
    /\ in_flight' = <<>>
    /\ queue' = <<>>
    /\ loop' = "drain"
    /\ UNCHANGED <<reply, lost, killed>>

\* One item of _drain: one last publish, or no time left for one.  An item not
\* acked counts as lost.
Drain(o, expired) ==
    /\ loop = "drain"
    /\ leftovers # <<>>
    /\ leftovers' = Tail(leftovers)
    /\ \/ expired /\ UNCHANGED <<copies, memory>>
       \/ ~expired /\ Stored(Head(leftovers).id, o)
    /\ lost' = IF expired \/ o # "acked" THEN lost \cup {Head(leftovers).id} ELSE lost
    /\ UNCHANGED <<reply, queue, in_flight, loop, killed>>

Stopped ==
    /\ loop = "drain"
    /\ leftovers = <<>>
    /\ loop' = "stopped"
    /\ UNCHANGED <<reply, copies, memory, queue, in_flight, leftovers, lost, killed>>

\* The process dies; the backlog, which lives in memory, dies with it.
Crash(landed) ==
    /\ loop # "stopped"
    /\ CutOff(landed)
    /\ killed' = killed \cup OwedIds
    /\ queue' = <<>> /\ in_flight' = <<>> /\ leftovers' = <<>>
    /\ loop' = "stopped"
    /\ UNCHANGED <<reply, lost>>

\* A new process starts its loop.
Start ==
    /\ loop = "stopped"
    /\ loop' = "get"
    /\ UNCHANGED <<reply, copies, memory, queue, in_flight, leftovers, lost, killed>>

-----------------------------------------------------------------------------
LoopStep == Get \/ (\E o \in Outcomes : Attempt(o)) \/ Requeue

StopStep == (\E o \in Outcomes, b \in BOOLEAN : Drain(o, b)) \/ Stopped

Next ==
    \/ \E a \in Alerts : Unauthorized(a) \/ \E o \in Outcomes : Enqueue(a, o)
    \/ LoopStep
    \/ \E b \in BOOLEAN : Stop(b) \/ Crash(b)
    \/ StopStep
    \/ Start

Spec == Init /\ [][Next]_vars

\* The loop and a shutdown once begun run on: asyncio schedules them and every
\* publish ends by its timeout.
FairSpec == Spec /\ WF_vars(LoopStep) /\ WF_vars(StopStep)

-----------------------------------------------------------------------------
(* Properties.                                                             *)

\* A 202 is kept: an accepted alert is in the stream, still owed by the
\* enqueuer, reported lost, or died with a killed process.  A shutdown that
\* lands between two awaits of the loop loses none in silence.
AcceptedIsAccounted ==
    \A a \in Alerts :
        /\ reply[a] = "queued" => copies[a] > 0
        /\ reply[a] = "deferred" => copies[a] > 0 \/ a \in OwedIds \cup lost \cup killed

\* An envelope is owed in one place only, and one reported lost is not tried
\* again: a second owner would publish it after the operator was told.
OwedOnce ==
    /\ IsInjective([i \in DOMAIN Owed |-> Owed[i].id])
    /\ OwedIds \cap lost = {}

\* No deferred envelope is retried for ever.
DeferredResolves ==
    \A a \in Alerts : a \in OwedIds ~> a \notin OwedIds
=============================================================================
