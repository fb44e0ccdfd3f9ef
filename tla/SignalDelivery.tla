--------------------------- MODULE SignalDelivery ---------------------------
(***************************************************************************)
(* What the signal pipeline promises, without a word on how: every stored  *)
(* envelope becomes at most one signal, a signal is sent to the trading    *)
(* workers only while it is open, its verdict is given once and is true,   *)
(* and an envelope leaves the stream only when somebody answers for it.    *)
(*                                                                         *)
(* There is no worker here, no retry job, no redelivery, no block gate and *)
(* no crash.  SignalPipeline implements this module under the mapping at   *)
(* its end, so none of them can be noticed from outside.                   *)
(***************************************************************************)
EXTENDS Naturals, Sequences

VARIABLES
    stored,   \* how many envelopes the stream has taken
    refused,  \* envelopes the broker declined: unreadable, or blocked
    source,   \* the envelope each signal was made from
    verdict,  \* what the table says of each signal
    sent,     \* signals that reached the trading workers
    settled   \* envelopes that left the stream

delivery == <<stored, refused, source, verdict, sent, settled>>

\* "fresh": nothing recorded yet; "owed": a failure is recorded and another
\* attempt is due.
Open == {"fresh", "owed"}
Closed == {"PUBLISHED", "FAILED"}

Init ==
    /\ stored = 0
    /\ refused = {}
    /\ source = <<>>
    /\ verdict = <<>>
    /\ sent = {}
    /\ settled = {}

\* A producer stores an envelope, readable or not.
Store ==
    /\ stored' = stored + 1
    /\ refused' \in {refused, refused \cup {stored + 1}}
    /\ UNCHANGED <<source, verdict, sent, settled>>

\* The gate declines an envelope.  A later delivery of it may still pass.
Refuse(m) ==
    /\ m \notin settled
    /\ refused' = refused \cup {m}
    /\ UNCHANGED <<stored, source, verdict, sent, settled>>

\* An envelope becomes a signal: once, and not after it was settled.
Register(m) ==
    /\ m \notin settled
    /\ \A i \in DOMAIN source : source[i] # m
    /\ source' = Append(source, m)
    /\ verdict' = Append(verdict, "fresh")
    /\ UNCHANGED <<stored, refused, sent, settled>>

\* An open signal reaches the workers, who drop a repeated signal_id.
Send(i) ==
    /\ verdict[i] \in Open
    /\ sent' = sent \cup {i}
    /\ UNCHANGED <<stored, refused, source, verdict, settled>>

\* The table learns how an attempt ended.  PUBLISHED is never a lie.
Record(i, v) ==
    /\ verdict[i] \in Open
    /\ v = "PUBLISHED" => i \in sent
    /\ verdict' = [verdict EXCEPT ![i] = v]
    /\ UNCHANGED <<stored, refused, source, sent, settled>>

\* The envelope leaves the stream: it was declined, or its signal is closed,
\* owed another attempt, or sent.
Settle(m) ==
    /\ \/ m \in refused
       \/ \E i \in DOMAIN source :
             source[i] = m /\ (verdict[i] # "fresh" \/ i \in sent)
    /\ settled' = settled \cup {m}
    /\ UNCHANGED <<stored, refused, source, verdict, sent>>

Next ==
    \/ Store
    \/ \E m \in 1..stored : Refuse(m) \/ Register(m) \/ Settle(m)
    \/ \E i \in DOMAIN source : Send(i)
    \/ \E i \in DOMAIN source, v \in Closed \cup {"owed"} : Record(i, v)

Spec == Init /\ [][Next]_delivery
=============================================================================
