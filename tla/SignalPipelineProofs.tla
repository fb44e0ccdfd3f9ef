------------------------ MODULE SignalPipelineProofs ------------------------
(***************************************************************************)
(* Proofs about the signal pipeline, for every number of envelopes,        *)
(* attempts and in-place retries.                                          *)
(***************************************************************************)
EXTENDS SignalPipeline, SequenceTheorems, TLAPS

-----------------------------------------------------------------------------
(* The inductive invariant.                                                *)

Ids == 1..Len(rows)
Msgs == 1..Len(stream)

\* A row whose first fan-out nothing is recorded about.
Unconfirmed(i) == rows[i].status = "QUEUED" /\ ~rows[i].tried

\* The envelope m may leave the stream: see SettledIsAccounted.
Accounted(m) ==
    \/ stream[m].kind = "malformed"
    \/ /\ m \in dropped \/ \E i \in Ids : rows[i].key = m
       /\ \A i \in Ids : rows[i].key = m /\ Unconfirmed(i) => i \in published

\* Rows come from delivered, well-formed envelopes, one each, and a QUEUED row
\* has an attempt left.
RowsInv ==
    /\ \A i \in Ids : /\ rows[i].key \in Msgs
                      /\ stream[rows[i].key].delivered
                      /\ stream[rows[i].key].kind # "malformed"
                      /\ rows[i].status = "QUEUED" => rows[i].attempts > 0
    /\ \A i, j \in Ids : rows[i].key = rows[j].key => i = j

\* The envelope the worker holds is delivered and still in the stream.
HoldInv ==
    /\ pc["worker"] = "idle" <=> msg = 0
    /\ msg # 0 => /\ stream[msg].state # "gone"
                  /\ stream[msg].delivered
                  /\ pc["worker"] = "term" <=> stream[msg].kind = "malformed"

\* What the worker knows about the row of its envelope stays true: an absent
\* row stays absent, an unconfirmed one is touched by nobody else.
WorkerInv ==
    /\ pc["worker"] # "record_invalid"
    /\ pc["worker"] = "log" => found = "none"
    /\ pc["worker"] \in {"gate", "log"} /\ found = "none"
         => \A i \in Ids : rows[i].key # msg
    /\ pc["worker"] = "gate" /\ found # "none"
         => /\ sid["worker"] \in Ids
            /\ rows[sid["worker"]].key = msg
            /\ found = "unconfirmed" <=> Unconfirmed(sid["worker"])
    /\ pc["worker"] \in FanoutSteps
         => /\ sid["worker"] \in Ids
            /\ rows[sid["worker"]].key = msg
            /\ Unconfirmed(sid["worker"])
    /\ pc["worker"] = "mark_published" => sid["worker"] \in published
    /\ pc["worker"] = "ack" => Accounted(msg)

\* The retry job only ever holds rows a failure is recorded on.
RetryInv ==
    /\ pc["retry"] \in {"idle"} \cup FanoutSteps
    /\ pc["retry"] \in FanoutSteps
         => /\ sid["retry"] \in Ids
            /\ rows[sid["retry"]].tried
            /\ rows[sid["retry"]].status = "QUEUED"
    /\ \A i \in todo : rows[i].tried

SettledInv == \A m \in Msgs : stream[m].state = "gone" => Accounted(m)

IInv == TypeOK /\ RowsInv /\ HoldInv /\ WorkerInv /\ RetryInv /\ SettledInv
-----------------------------------------------------------------------------
(* What the writes to the stream and to the table do.                      *)

\* Setting the state of one envelope touches nothing else.
LEMMA StreamWrite ==
    ASSUME NEW q \in Seq(Envelope), NEW m \in 1..Len(q),
           NEW x \in {"ready", "held", "gone"}, NEW t,
           t = [q EXCEPT ![m].state = x]
    PROVE  /\ t \in Seq(Envelope)
           /\ Len(t) = Len(q)
           /\ \A k \in 1..Len(q) :
                /\ t[k].kind = q[k].kind
                /\ t[k].delivered <=> q[k].delivered
                /\ t[k].state = IF k = m THEN x ELSE q[k].state
<1> DEFINE e == [q[m] EXCEPT !.state = x]
<1>1. \A k \in 1..Len(q) : q[k] \in Envelope
  BY ElementOfSeq
<1>2. e \in Envelope /\ e.kind = q[m].kind /\ e.delivered = q[m].delivered /\ e.state = x
  BY <1>1 DEF Envelope
<1>3. /\ [q EXCEPT ![m] = e] \in Seq(Envelope)
      /\ Len([q EXCEPT ![m] = e]) = Len(q)
      /\ \A j \in 1..Len(q) : [q EXCEPT ![m] = e][j] = IF j = m THEN e ELSE q[j]
  BY <1>2, ExceptSeq
<1> QED
  BY <1>2, <1>3

\* A delivery marks one envelope held and delivered.
LEMMA DeliveryWrite ==
    ASSUME stream \in Seq(Envelope), NEW m \in 1..Len(stream),
           stream' = [stream EXCEPT ![m].state = "held", ![m].delivered = TRUE]
    PROVE  /\ stream' \in Seq(Envelope)
           /\ Len(stream') = Len(stream)
           /\ \A k \in 1..Len(stream) :
                /\ stream'[k].kind = stream[k].kind
                /\ stream'[k].delivered <=> (k = m \/ stream[k].delivered)
                /\ stream'[k].state = IF k = m THEN "held" ELSE stream[k].state
<1> DEFINE q == stream
           e == [q[m] EXCEPT !.state = "held"]
           f == [e EXCEPT !.delivered = TRUE]
           u == [q EXCEPT ![m] = e]
<1>1. \A k \in 1..Len(q) : q[k] \in Envelope
  BY ElementOfSeq
<1>2. e \in Envelope /\ e.kind = q[m].kind
  BY <1>1 DEF Envelope
<1>3. f \in Envelope /\ f.kind = q[m].kind /\ f.delivered = TRUE /\ f.state = "held"
  BY <1>2 DEF Envelope
<1>4. /\ u \in Seq(Envelope) /\ Len(u) = Len(q)
      /\ \A j \in 1..Len(q) : u[j] = IF j = m THEN e ELSE q[j]
  BY <1>2, ExceptSeq
<1>5. /\ [u EXCEPT ![m] = f] \in Seq(Envelope)
      /\ Len([u EXCEPT ![m] = f]) = Len(q)
      /\ \A j \in 1..Len(q) : [u EXCEPT ![m] = f][j] = IF j = m THEN f ELSE u[j]
  BY <1>3, <1>4, ExceptSeq
<1>6. \A k \in 1..Len(q) : q[k].delivered \in BOOLEAN
  BY <1>1 DEF Envelope
<1> DEFINE w == [stream EXCEPT ![m].state = "held", ![m].delivered = TRUE]
<1>7. w = [u EXCEPT ![m] = f]
  BY <1>4
<1>8. /\ w \in Seq(Envelope) /\ Len(w) = Len(q)
      /\ \A k \in 1..Len(q) : w[k] = IF k = m THEN f ELSE q[k]
  <2> HIDE DEF f, u, w, e
  <2> QED BY <1>4, <1>5, <1>7
<1>9. \A k \in 1..Len(q) :
         /\ w[k].kind = q[k].kind
         /\ w[k].delivered <=> (k = m \/ q[k].delivered)
         /\ w[k].state = IF k = m THEN "held" ELSE q[k].state
  <2> HIDE DEF f, u, w, e
  <2> QED BY <1>3, <1>8
<1> QED
  BY <1>8, <1>9

\* The three ways a row is rewritten keep its key and its type.
LEMMA RowForms ==
    ASSUME NEW r \in Row
    PROVE  /\ PublishedRow(r) \in Row /\ FailedRow(r) \in Row
           /\ AttemptFailedRow(r) \in Row
           /\ PublishedRow(r).key = r.key /\ FailedRow(r).key = r.key
           /\ AttemptFailedRow(r).key = r.key
           /\ PublishedRow(r).status = "PUBLISHED" /\ PublishedRow(r).tried = r.tried
           /\ FailedRow(r).status = "FAILED" /\ FailedRow(r).tried
           /\ AttemptFailedRow(r).tried
           /\ AttemptFailedRow(r).status = "QUEUED" => AttemptFailedRow(r).attempts > 0
           /\ PublishedRow(r).attempts = r.attempts /\ FailedRow(r).attempts = 0
           /\ AttemptFailedRow(r).attempts <= r.attempts
<1>0. 0 \in 0..MaxAttempts
  BY PipelineAssumption
<1>1. PublishedRow(r) \in Row /\ FailedRow(r) \in Row
  <2>1. PublishedRow(r) \in Row
    BY DEF Row, PublishedRow
  <2>2. FailedRow(r) \in Row
    BY <1>0 DEF Row, FailedRow
  <2> QED BY <2>1, <2>2
<1>2. /\ PublishedRow(r).key = r.key /\ PublishedRow(r).status = "PUBLISHED"
      /\ PublishedRow(r).tried = r.tried /\ PublishedRow(r).attempts = r.attempts
  BY DEF Row, PublishedRow
<1>3. /\ FailedRow(r).key = r.key /\ FailedRow(r).status = "FAILED"
      /\ FailedRow(r).tried /\ FailedRow(r).attempts = 0
  BY DEF Row, FailedRow
<1>4. CASE r.attempts <= 1
  <2>1. AttemptFailedRow(r) = [r EXCEPT !.status = "FAILED", !.attempts = 0, !.tried = TRUE]
    BY <1>4 DEF AttemptFailedRow
  <2>2. AttemptFailedRow(r) = FailedRow(r)
    BY <2>1 DEF FailedRow
  <2> QED
    BY <2>2, <1>1, <1>2, <1>3 DEF Row
<1>5. CASE ~(r.attempts <= 1)
  <2> DEFINE t == [r EXCEPT !.attempts = r.attempts - 1, !.tried = TRUE]
  <2>1. AttemptFailedRow(r) = t
    BY <1>5 DEF AttemptFailedRow
  <2>2. r.attempts \in Nat /\ r.attempts - 1 \in 0..MaxAttempts /\ r.attempts - 1 > 0
    BY <1>5, PipelineAssumption DEF Row
  <2>3. t \in Row /\ t.key = r.key /\ t.tried /\ t.attempts = r.attempts - 1
    BY <2>2 DEF Row
  <2> HIDE DEF t
  <2> QED
    BY <2>1, <2>2, <2>3, <1>1, <1>2, <1>3
<1> QED
  BY <1>4, <1>5
-----------------------------------------------------------------------------
(* Frame conditions: what a step may do without disturbing a part of the   *)
(* invariant.                                                              *)

\* No envelope changes its content, becomes undelivered or leaves the stream.
StreamKept ==
    /\ stream' \in Seq(Envelope)
    /\ Len(stream) <= Len(stream')
    /\ \A m \in Msgs : /\ stream'[m].kind = stream[m].kind
                       /\ stream[m].delivered => stream'[m].delivered
                       /\ stream'[m].state = "gone" => stream[m].state = "gone"
    /\ \A m \in 1..Len(stream') : m > Len(stream) => stream'[m].state # "gone"

\* Rows keep their keys, and a row with a recorded attempt keeps it.
RowsKept ==
    /\ rows' \in Seq(Row)
    /\ Len(rows') = Len(rows)
    /\ \A i \in Ids : /\ rows'[i].key = rows[i].key
                      /\ rows'[i].status = "QUEUED" => rows'[i].attempts > 0

\* The part about rows survives every step that keeps stream and rows.
LEMMA RowsFrame ==
    ASSUME TypeOK, RowsInv, StreamKept, RowsKept
    PROVE  RowsInv'
<1> USE DEF Ids, Msgs
<1>1. Len(stream) \in Nat /\ Len(stream') \in Nat /\ Len(rows) \in Nat
  BY DEF TypeOK, StreamKept
<1>2. ASSUME NEW i \in 1..Len(rows')
      PROVE  /\ rows'[i].key \in 1..Len(stream')
             /\ stream'[rows'[i].key].delivered
             /\ stream'[rows'[i].key].kind # "malformed"
             /\ rows'[i].status = "QUEUED" => rows'[i].attempts > 0
  <2>1. i \in 1..Len(rows) /\ rows'[i].key = rows[i].key
    BY DEF RowsKept
  <2>2. rows[i].key \in 1..Len(stream) /\ stream[rows[i].key].delivered
        /\ stream[rows[i].key].kind # "malformed"
    BY <2>1 DEF RowsInv
  <2> QED
    BY <1>1, <2>1, <2>2 DEF StreamKept, RowsKept
<1>3. \A i, j \in 1..Len(rows') : rows'[i].key = rows'[j].key => i = j
  BY DEF RowsKept, RowsInv
<1> QED
  BY <1>2, <1>3 DEF RowsInv

\* The retry job's part survives every step that leaves tried rows alone.
LEMMA RetryFrame ==
    ASSUME TypeOK, RetryInv,
           pc'["retry"] = pc["retry"], sid'["retry"] = sid["retry"], todo' = todo,
           Len(rows) <= Len(rows'),
           \A i \in Ids : rows[i].tried => rows'[i] = rows[i],
           rows' \in Seq(Row)
    PROVE  RetryInv'
  BY DEF TypeOK, RetryInv, Ids, FanoutSteps

\* An accounted envelope stays accounted.
LEMMA AccountedFrame ==
    ASSUME TypeOK, StreamKept, NEW m \in Msgs, Accounted(m),
           Len(rows') = Len(rows), rows' \in Seq(Row),
           \A i \in Ids : /\ rows'[i].key = rows[i].key
                          /\ Unconfirmed(i)' => Unconfirmed(i),
           published \subseteq published', dropped \subseteq dropped'
    PROVE  Accounted(m)'
  BY DEF TypeOK, Accounted, StreamKept, Ids, Msgs

\* The worker's part survives every step that leaves unconfirmed rows as they
\* are and the worker where it is.
LEMMA WorkerFrame ==
    ASSUME TypeOK, HoldInv, WorkerInv, SettledInv, StreamKept,
           pc'["worker"] = pc["worker"], sid'["worker"] = sid["worker"],
           msg' = msg, found' = found,
           Len(rows') = Len(rows), rows' \in Seq(Row),
           \A i \in Ids : /\ rows'[i].key = rows[i].key
                          /\ Unconfirmed(i)' <=> Unconfirmed(i),
           published \subseteq published', dropped \subseteq dropped'
    PROVE  HoldInv' /\ WorkerInv' /\ SettledInv'
<1>1. \A m \in Msgs : Accounted(m) => Accounted(m)'
  BY AccountedFrame
<1>2. SettledInv'
  BY <1>1 DEF SettledInv, StreamKept, Msgs, TypeOK
<1>3. HoldInv'
  BY DEF HoldInv, StreamKept, Msgs, TypeOK
<1>4. pc["worker"] = "ack" => msg \in Msgs
  BY DEF HoldInv, TypeOK, Msgs
<1>5. WorkerInv'
  BY <1>1, <1>4 DEF WorkerInv, Ids, TypeOK
<1> QED
  BY <1>2, <1>3, <1>5

\* An envelope that is made ready, or stays as it is, keeps the stream.
LEMMA ReadyKeeps ==
    ASSUME TypeOK, NEW m \in Msgs,
           \/ stream' = stream
           \/ stream' = [stream EXCEPT ![m].state = "ready"]
    PROVE  StreamKept /\ Len(stream') = Len(stream)
<1>1. CASE stream' = stream
  BY <1>1 DEF StreamKept, TypeOK, Msgs
<1>2. CASE stream' = [stream EXCEPT ![m].state = "ready"]
  <2>1. /\ stream' \in Seq(Envelope)
        /\ Len(stream') = Len(stream)
        /\ \A k \in 1..Len(stream) :
             /\ stream'[k].kind = stream[k].kind
             /\ stream'[k].delivered <=> stream[k].delivered
             /\ stream'[k].state = IF k = m THEN "ready" ELSE stream[k].state
    <3>1. stream \in Seq(Envelope) /\ m \in 1..Len(stream)
      BY DEF TypeOK, Msgs
    <3> QED BY <1>2, <3>1, StreamWrite
  <2>2. Len(stream) \in Nat
    BY DEF TypeOK
  <2> QED
    BY <2>1, <2>2 DEF StreamKept, Msgs
<1> QED
  BY <1>1, <1>2

\* The control state and the type invariant's parts that belong to it.
ControlOK ==
    /\ pc \in [Actors -> Steps]
    /\ sid \in [Actors -> 0..Len(rows)]
    /\ msg \in 0..Len(stream)
    /\ redelivered \in BOOLEAN
    /\ tries \in 0..InlineRetries
    /\ found \in {"none", "unconfirmed", "handled"}

\* A raise sends the worker back to the lookup or lets go of the envelope;
\* either way it holds no row any more.
LEMMA Raise ==
    ASSUME TypeOK, HoldInv, HandlerRaises, msg \in Msgs, pc["worker"] # "term",
           Len(rows) <= Len(rows'), rows' \in Seq(Row)
    PROVE  /\ StreamKept /\ Len(stream') = Len(stream)
           /\ ControlOK' /\ HoldInv' /\ WorkerInv'
           /\ pc'["retry"] = pc["retry"] /\ sid'["retry"] = sid["retry"]
<1>1. StreamKept /\ Len(stream') = Len(stream)
  BY ReadyKeeps DEF HandlerRaises
<1>2. /\ pc' \in [Actors -> Steps] /\ pc'["retry"] = pc["retry"]
      /\ sid' \in [Actors -> 0..Len(rows')] /\ sid'["retry"] = sid["retry"]
      /\ found' = "none"
      /\ \/ pc'["worker"] = "lookup" /\ msg' = msg /\ stream' = stream
         \/ pc'["worker"] = "idle" /\ msg' = 0
  BY DEF HandlerRaises, TypeOK, Actors, Steps
<1>3. redelivered' \in BOOLEAN /\ tries' \in 0..InlineRetries
  <2>1. CASE RetriesLeft
    <3>1. redelivered' = TRUE /\ tries' = tries + 1
      BY <2>1 DEF HandlerRaises
    <3> QED BY <2>1, <3>1, PipelineAssumption DEF RetriesLeft, TypeOK
  <2>2. CASE ~RetriesLeft
    <3>1. redelivered' \in BOOLEAN /\ tries' = 0
      BY <2>2 DEF HandlerRaises
    <3> QED BY <3>1, PipelineAssumption
  <2> QED BY <2>1, <2>2
<1>4. ControlOK'
  BY <1>1, <1>2, <1>3 DEF ControlOK, TypeOK, Msgs
<1>5. HoldInv'
  BY <1>2 DEF HoldInv, Msgs, TypeOK
<1>6. WorkerInv'
  BY <1>2 DEF WorkerInv, FanoutSteps
<1> QED
  BY <1>1, <1>2, <1>4, <1>5, <1>6

\* A return sends the worker to its ack.
LEMMA Return ==
    ASSUME TypeOK, HoldInv, HandlerReturns, msg \in Msgs, pc["worker"] # "term",
           Len(rows) <= Len(rows'), rows' \in Seq(Row), Accounted(msg)'
    PROVE  /\ StreamKept /\ Len(stream') = Len(stream)
           /\ ControlOK' /\ HoldInv' /\ WorkerInv'
           /\ pc'["retry"] = pc["retry"] /\ sid'["retry"] = sid["retry"]
<1>1. StreamKept /\ Len(stream') = Len(stream)
  BY ReadyKeeps DEF HandlerReturns
<1>2. /\ pc' \in [Actors -> Steps] /\ pc'["retry"] = pc["retry"]
      /\ sid' = sid /\ msg' = msg /\ found' = found /\ stream' = stream
      /\ redelivered' = redelivered /\ tries' = tries
      /\ pc'["worker"] = "ack"
  BY DEF HandlerReturns, TypeOK, Actors, Steps, workerVars
<1>3. ControlOK'
  BY <1>2 DEF ControlOK, TypeOK, Actors
<1>4. HoldInv'
  BY <1>2 DEF HoldInv, Msgs, TypeOK
<1>5. WorkerInv'
  BY <1>2 DEF WorkerInv, FanoutSteps
<1> QED
  BY <1>1, <1>2, <1>3, <1>4, <1>5
-----------------------------------------------------------------------------
(* One lemma per action.                                                   *)

\* A stored envelope is new, ready and undelivered.
LEMMA StoreEnvelopeStep ==
    ASSUME IInv, NEW k \in Kinds, StoreEnvelope(k)
    PROVE  IInv'
<1> USE DEF IInv
<1> DEFINE e == [kind |-> k, state |-> "ready", delivered |-> FALSE]
<1>1. stream \in Seq(Envelope) /\ Len(stream) \in Nat /\ e \in Envelope
  BY PipelineAssumption DEF TypeOK, Envelope
<1>2. /\ stream' = Append(stream, e)
      /\ stream' \in Seq(Envelope) /\ Len(stream') = Len(stream) + 1
      /\ \A m \in 1..Len(stream) : stream'[m] = stream[m]
      /\ stream'[Len(stream) + 1] = e
  BY <1>1 DEF StoreEnvelope
<1>3. StreamKept
  BY <1>1, <1>2 DEF StreamKept, Msgs
<1>4. /\ rows' = rows /\ published' = published /\ dropped' = dropped
      /\ blocked' = blocked /\ pc' = pc /\ sid' = sid /\ msg' = msg
      /\ redelivered' = redelivered /\ tries' = tries /\ found' = found /\ todo' = todo
  BY DEF StoreEnvelope, workerVars
<1>5. TypeOK'
  BY <1>1, <1>2, <1>4 DEF TypeOK
<1>6. RowsKept
  BY <1>4 DEF RowsKept, TypeOK, RowsInv, Ids
<1>7. RowsInv'
  BY <1>3, <1>6, RowsFrame
<1>8. HoldInv' /\ WorkerInv' /\ SettledInv'
  <2>1. \A i \in Ids : rows'[i].key = rows[i].key /\ (Unconfirmed(i)' <=> Unconfirmed(i))
    BY <1>4 DEF Unconfirmed
  <2> QED BY <1>3, <1>4, <1>6, <2>1, WorkerFrame DEF RowsKept
<1>9. RetryInv'
  BY <1>4 DEF RetryInv, Ids
<1> QED
  BY <1>5, <1>7, <1>8, <1>9

\* An expired ack wait only makes the envelope ready again.
LEMMA AckWaitStep ==
    ASSUME IInv, NEW m \in DOMAIN stream, AckWaitExpires(m)
    PROVE  IInv'
<1> USE DEF IInv
<1>1. m \in Msgs
  BY DEF TypeOK, Msgs
<1>2. StreamKept /\ Len(stream') = Len(stream)
  BY <1>1, ReadyKeeps DEF AckWaitExpires
<1>3. /\ rows' = rows /\ published' = published /\ dropped' = dropped
      /\ blocked' = blocked /\ pc' = pc /\ sid' = sid /\ msg' = msg
      /\ redelivered' = redelivered /\ tries' = tries /\ found' = found /\ todo' = todo
  BY DEF AckWaitExpires, workerVars
<1>4. TypeOK'
  BY <1>2, <1>3 DEF TypeOK, StreamKept
<1>5. RowsKept
  BY <1>3 DEF RowsKept, TypeOK, RowsInv, Ids
<1>6. RowsInv'
  BY <1>2, <1>5, RowsFrame
<1>7. HoldInv' /\ WorkerInv' /\ SettledInv'
  <2>1. \A i \in Ids : rows'[i].key = rows[i].key /\ (Unconfirmed(i)' <=> Unconfirmed(i))
    BY <1>3 DEF Unconfirmed
  <2> QED BY <1>2, <1>3, <1>5, <2>1, WorkerFrame DEF RowsKept
<1>8. RetryInv'
  BY <1>3 DEF RetryInv, Ids
<1> QED
  BY <1>4, <1>6, <1>7, <1>8

\* The gate, the published set and the control state are not read by the rest
\* of the invariant when nothing else moves.
LEMMA ToggleBlockStep ==
    ASSUME IInv, ToggleBlock
    PROVE  IInv'
<1>1. /\ stream' = stream /\ rows' = rows /\ published' = published
      /\ dropped' = dropped /\ pc' = pc /\ sid' = sid /\ msg' = msg
      /\ redelivered' = redelivered /\ tries' = tries /\ found' = found /\ todo' = todo
      /\ blocked' \in BOOLEAN
  BY DEF ToggleBlock, workerVars
<1>2. TypeOK'
  BY <1>1 DEF IInv, TypeOK
<1> QED
  BY <1>1, <1>2 DEF IInv, RowsInv, HoldInv, WorkerInv, RetryInv, SettledInv,
                    Accounted, Unconfirmed, Ids, Msgs

\* A crash empties the memory and keeps stream and table.
LEMMA CrashStep ==
    ASSUME IInv, Crash
    PROVE  IInv'
<1>1. /\ stream' = stream /\ rows' = rows /\ published' = published
      /\ dropped' = dropped /\ blocked' = blocked
      /\ pc' = [p \in Actors |-> "idle"] /\ sid' = [p \in Actors |-> 0]
      /\ msg' = 0 /\ redelivered' \in BOOLEAN /\ tries' = 0 /\ found' = "none"
      /\ todo' = {}
  BY DEF Crash
<1>2. TypeOK'
  BY <1>1, PipelineAssumption DEF IInv, TypeOK, Actors, Steps
<1>3. RowsInv' /\ SettledInv'
  BY <1>1 DEF IInv, RowsInv, SettledInv, Accounted, Unconfirmed, Ids, Msgs
<1>4. pc'["worker"] = "idle" /\ pc'["retry"] = "idle"
  BY <1>1 DEF Actors
<1>5. HoldInv' /\ WorkerInv' /\ RetryInv'
  BY <1>1, <1>4 DEF HoldInv, WorkerInv, RetryInv, FanoutSteps
<1> QED
  BY <1>2, <1>3, <1>5 DEF IInv

\* A fetched envelope that was never delivered has no row yet.
LEMMA FetchStep ==
    ASSUME IInv, NEW m \in DOMAIN stream, Fetch(m)
    PROVE  IInv'
<1> USE DEF IInv
<1>1. stream \in Seq(Envelope) /\ m \in 1..Len(stream) /\ Len(stream) \in Nat
  BY DEF TypeOK
<1>2. stream[m] \in Envelope
  BY <1>1, ElementOfSeq
<1>3. /\ stream' \in Seq(Envelope) /\ Len(stream') = Len(stream)
      /\ \A k \in 1..Len(stream) :
           /\ stream'[k].kind = stream[k].kind
           /\ stream'[k].delivered <=> (k = m \/ stream[k].delivered)
           /\ stream'[k].state = IF k = m THEN "held" ELSE stream[k].state
  <2>1. stream' = [stream EXCEPT ![m].state = "held", ![m].delivered = TRUE]
    BY DEF Fetch
  <2> QED BY <1>1, <2>1, DeliveryWrite
<1>4. StreamKept
  BY <1>1, <1>3 DEF StreamKept, Msgs
<1>5. /\ rows' = rows /\ published' = published /\ dropped' = dropped
      /\ blocked' = blocked /\ todo' = todo /\ msg' = m /\ tries' = 0
      /\ found' = "none" /\ pc["worker"] = "idle"
  BY DEF Fetch
<1>6. /\ pc' \in [Actors -> Steps] /\ pc'["retry"] = pc["retry"]
      /\ sid' \in [Actors -> 0..Len(rows)] /\ sid'["retry"] = sid["retry"]
      /\ pc'["worker"] \in {"term", "lookup", "gate"}
      /\ pc'["worker"] = "term" <=> stream[m].kind = "malformed"
      /\ pc'["worker"] = "gate" => ~stream[m].delivered
  BY <1>2 DEF Fetch, TypeOK, Actors, Steps, Envelope
<1>7. redelivered' \in BOOLEAN
  BY <1>2 DEF Fetch, Envelope
<1>8. TypeOK'
  BY <1>1, <1>3, <1>5, <1>6, <1>7, PipelineAssumption DEF TypeOK
<1>9. RowsKept
  BY <1>5 DEF RowsKept, TypeOK, RowsInv, Ids
<1>10. RowsInv'
  BY <1>4, <1>9, RowsFrame
<1>11. HoldInv'
  BY <1>1, <1>3, <1>5, <1>6 DEF HoldInv
<1>12. pc'["worker"] = "gate" => \A i \in Ids : rows[i].key # m
  BY <1>6 DEF RowsInv
<1>13. WorkerInv'
  BY <1>5, <1>6, <1>12 DEF WorkerInv, FanoutSteps, Ids
<1>14. RetryInv'
  BY <1>5, <1>6, <1>9, RetryFrame DEF RowsKept
<1>15. SettledInv'
  <2>1. \A k \in Msgs : Accounted(k) => Accounted(k)'
    BY <1>4, <1>5, <1>9, AccountedFrame DEF RowsKept, Unconfirmed
  <2> QED BY <1>3, <2>1 DEF SettledInv, Msgs
<1> QED
  BY <1>8, <1>10, <1>11, <1>13, <1>14, <1>15

\* The stages of the worker outside the fan-out leave rows and stream alone;
\* what is left to show is the worker's own part.
LEMMA WorkerOnly ==
    ASSUME IInv, StreamKept, Len(stream') = Len(stream),
           rows' = rows, published' = published, todo' = todo,
           dropped \subseteq dropped', dropped' \subseteq Msgs, blocked' \in BOOLEAN,
           ControlOK', HoldInv', WorkerInv',
           pc'["retry"] = pc["retry"], sid'["retry"] = sid["retry"]
    PROVE  IInv'
<1> USE DEF IInv
<1>1. TypeOK'
  BY DEF TypeOK, ControlOK, StreamKept, Msgs
<1>2. RowsKept
  BY DEF RowsKept, TypeOK, RowsInv, Ids
<1>3. RowsInv'
  BY <1>2, RowsFrame
<1>4. RetryInv'
  BY <1>2, RetryFrame DEF RowsKept
<1>5. SettledInv'
  <2>1. \A k \in Msgs : Accounted(k) => Accounted(k)'
    BY <1>2, AccountedFrame DEF RowsKept, Unconfirmed
  <2> QED BY <2>1 DEF SettledInv, Msgs, StreamKept
<1> QED
  BY <1>1, <1>3, <1>4, <1>5

\* The lookup tells the worker the truth about the row of its envelope.
LEMMA GetByDeliveryKeyStep ==
    ASSUME IInv, NEW b \in BOOLEAN, GetByDeliveryKey(b)
    PROVE  IInv'
<1> USE DEF IInv
<1>1. /\ pc["worker"] = "lookup" /\ rows' = rows /\ published' = published
      /\ dropped' = dropped /\ blocked' = blocked /\ todo' = todo
  BY DEF GetByDeliveryKey
<1>2. msg \in Msgs
  BY <1>1 DEF HoldInv, TypeOK, Msgs
<1>3. Len(rows) <= Len(rows') /\ rows' \in Seq(Row) /\ dropped' \subseteq Msgs
      /\ blocked' \in BOOLEAN
  BY <1>1 DEF TypeOK, Msgs
<1>4. CASE HandlerRaises
  BY <1>1, <1>2, <1>3, <1>4, Raise, WorkerOnly
<1>5. CASE ~HandlerRaises
  <2>1. /\ pc' = [pc EXCEPT !["worker"] = "gate"]
        /\ stream' = stream /\ msg' = msg /\ redelivered' = redelivered /\ tries' = tries
        /\ \/ ~KeyTaken(msg) /\ found' = "none" /\ sid' = sid
           \/ \E i \in DOMAIN rows :
                /\ rows[i].key = msg
                /\ found' = IF FirstFanoutUnconfirmed(rows[i])
                            THEN "unconfirmed" ELSE "handled"
                /\ sid' = [sid EXCEPT !["worker"] = i]
    BY <1>5 DEF GetByDeliveryKey
  <2>2. /\ pc' \in [Actors -> Steps] /\ pc'["worker"] = "gate"
        /\ pc'["retry"] = pc["retry"]
    BY <2>1 DEF TypeOK, Actors, Steps
  <2>3. /\ sid' \in [Actors -> 0..Len(rows')] /\ sid'["retry"] = sid["retry"]
        /\ \/ found' = "none" /\ \A i \in Ids : rows[i].key # msg
           \/ /\ found' # "none" /\ sid'["worker"] \in Ids
              /\ rows[sid'["worker"]].key = msg
              /\ found' = "unconfirmed" <=> Unconfirmed(sid'["worker"])
        /\ found' \in {"none", "unconfirmed", "handled"}
    BY <1>1, <2>1 DEF TypeOK, Actors, Ids, KeyTaken, FirstFanoutUnconfirmed, Unconfirmed
  <2>4. StreamKept
    BY <1>2, <2>1, ReadyKeeps
  <2>5. ControlOK'
    BY <2>1, <2>2, <2>3 DEF ControlOK, TypeOK
  <2>6. HoldInv'
    BY <1>1, <1>2, <2>1, <2>2 DEF HoldInv, Msgs
  <2>7. WorkerInv'
    BY <1>1, <2>1, <2>2, <2>3 DEF WorkerInv, FanoutSteps, Ids, Unconfirmed
  <2> QED
    BY <1>1, <1>3, <2>1, <2>2, <2>3, <2>4, <2>5, <2>6, <2>7, WorkerOnly
<1> QED
  BY <1>4, <1>5

\* Past the gate the worker logs, fans out, closes or acks what it looked up.
LEMMA IsBlockedStep ==
    ASSUME IInv, NEW b \in BOOLEAN, IsBlocked(b)
    PROVE  IInv'
<1> USE DEF IInv
<1>1. /\ pc["worker"] = "gate" /\ rows' = rows /\ published' = published
      /\ blocked' = blocked /\ todo' = todo
  BY DEF IsBlocked
<1>2. msg \in Msgs
  BY <1>1 DEF HoldInv, TypeOK, Msgs
<1>3. /\ Len(rows) <= Len(rows') /\ rows' \in Seq(Row) /\ blocked' \in BOOLEAN
      /\ dropped' = dropped \/ dropped' = dropped \cup {msg}
  BY <1>1 DEF TypeOK, IsBlocked
<1>4. dropped \subseteq dropped' /\ dropped' \subseteq Msgs
  BY <1>2, <1>3 DEF TypeOK, Msgs
<1>5. CASE HandlerRaises
  BY <1>1, <1>2, <1>3, <1>4, <1>5, Raise, WorkerOnly
<1>6. CASE ~HandlerRaises
  <2>1. /\ stream' = stream /\ sid' = sid /\ msg' = msg /\ redelivered' = redelivered
        /\ tries' = tries /\ found' = found
        /\ \/ /\ dropped' = dropped \cup {msg}
              /\ pc' = [pc EXCEPT !["worker"] =
                            IF found = "unconfirmed" THEN "mark_failed" ELSE "ack"]
           \/ /\ dropped' = dropped
              /\ pc' = [pc EXCEPT !["worker"] =
                            CASE found = "none"        -> "log"
                              [] found = "unconfirmed" -> "publish"
                              [] found = "handled"     -> "ack"]
    BY <1>6 DEF IsBlocked, workerVars
  <2>2. StreamKept
    BY <1>2, <2>1, ReadyKeeps
  <2>3. /\ pc' \in [Actors -> Steps] /\ pc'["retry"] = pc["retry"]
        /\ \/ pc'["worker"] \in {"mark_failed", "publish"} /\ found = "unconfirmed"
           \/ pc'["worker"] = "log" /\ found = "none"
           \/ pc'["worker"] = "ack" /\ found = "handled"
           \/ pc'["worker"] = "ack" /\ found = "none" /\ msg \in dropped'
    BY <2>1 DEF TypeOK, Actors, Steps
  <2>4. ControlOK'
    BY <1>1, <2>1, <2>3 DEF ControlOK, TypeOK
  <2>5. HoldInv'
    BY <1>1, <1>2, <2>1, <2>3 DEF HoldInv, Msgs
  <2>6. ASSUME pc'["worker"] = "ack" /\ found = "handled"
        PROVE  WorkerInv'
    <3>1. /\ sid["worker"] \in Ids /\ rows[sid["worker"]].key = msg
          /\ ~Unconfirmed(sid["worker"])
      BY <1>1, <2>6 DEF WorkerInv
    <3>2. Accounted(msg)'
      BY <1>1, <1>2, <2>1, <3>1 DEF Accounted, RowsInv, Ids, Unconfirmed
    <3> QED BY <2>1, <2>6, <3>2 DEF WorkerInv, FanoutSteps
  <2>7. ASSUME pc'["worker"] = "ack" /\ found = "none"
        PROVE  WorkerInv'
    <3>1. \A i \in Ids : rows[i].key # msg
      BY <1>1, <2>7 DEF WorkerInv
    <3>2. Accounted(msg)'
      BY <1>1, <2>1, <2>3, <2>7, <3>1 DEF Accounted, Ids
    <3> QED BY <2>1, <2>7, <3>2 DEF WorkerInv, FanoutSteps
  <2>8. ASSUME pc'["worker"] # "ack"
        PROVE  WorkerInv'
    BY <1>1, <2>1, <2>3, <2>8 DEF WorkerInv, FanoutSteps, Ids, Unconfirmed
  <2>9. WorkerInv'
    BY <2>3, <2>6, <2>7, <2>8
  <2> QED
    BY <1>1, <1>3, <1>4, <2>1, <2>2, <2>3, <2>4, <2>5, <2>9, WorkerOnly
<1> QED
  BY <1>5, <1>6

\* Only an accounted envelope is acked, only a malformed one terminated.
LEMMA SettleStep ==
    ASSUME IInv, NEW b \in BOOLEAN, Settle(b)
    PROVE  IInv'
<1> USE DEF IInv
<1>1. /\ pc["worker"] \in {"ack", "term"} /\ rows' = rows /\ published' = published
      /\ dropped' = dropped /\ blocked' = blocked /\ todo' = todo
      /\ msg' = 0 /\ redelivered' \in BOOLEAN /\ tries' = 0 /\ found' = "none"
  BY DEF Settle
<1>2. msg \in Msgs /\ stream \in Seq(Envelope) /\ Len(stream) \in Nat
  BY <1>1 DEF HoldInv, TypeOK, Msgs
<1>3. Accounted(msg)
  BY <1>1, <1>2 DEF HoldInv, WorkerInv, Accounted, TypeOK, Msgs
<1>4. /\ pc' \in [Actors -> Steps] /\ pc'["retry"] = pc["retry"] /\ pc'["worker"] = "idle"
      /\ sid' \in [Actors -> 0..Len(rows)] /\ sid'["retry"] = sid["retry"]
  BY DEF Settle, TypeOK, Actors, Steps
<1>5. /\ stream' \in Seq(Envelope) /\ Len(stream') = Len(stream)
      /\ \A k \in 1..Len(stream) :
           /\ stream'[k].kind = stream[k].kind
           /\ stream'[k].delivered <=> stream[k].delivered
           /\ stream'[k].state = "gone" => k = msg \/ stream[k].state = "gone"
  <2>1. CASE stream' = stream
    BY <1>2, <2>1
  <2>2. CASE stream' = [stream EXCEPT ![msg].state = "gone"]
    <3>1. /\ stream' \in Seq(Envelope) /\ Len(stream') = Len(stream)
          /\ \A k \in 1..Len(stream) :
               /\ stream'[k].kind = stream[k].kind
               /\ stream'[k].delivered <=> stream[k].delivered
               /\ stream'[k].state = IF k = msg THEN "gone" ELSE stream[k].state
      BY <1>2, <2>2, StreamWrite DEF Msgs
    <3> QED BY <3>1
  <2> QED BY <2>1, <2>2 DEF Settle
<1>6. TypeOK'
  BY <1>1, <1>2, <1>4, <1>5, PipelineAssumption DEF TypeOK
<1>7. RowsInv'
  BY <1>1, <1>5 DEF RowsInv, Ids, Msgs
<1>8. HoldInv' /\ WorkerInv'
  BY <1>1, <1>4 DEF HoldInv, WorkerInv, FanoutSteps
<1>9. RetryInv'
  BY <1>1, <1>4 DEF RetryInv, Ids
<1>10. SettledInv'
  <2>1. \A k \in Msgs : Accounted(k) => Accounted(k)'
    BY <1>1, <1>5 DEF Accounted, Ids, Unconfirmed, Msgs
  <2> QED BY <1>2, <1>3, <1>5, <2>1 DEF SettledInv, Msgs
<1> QED
  BY <1>6, <1>7, <1>8, <1>9, <1>10

\* The inserted row is the first of its envelope.
LEMMA LogSignalStep ==
    ASSUME IInv, NEW o \in Outcomes, LogSignal(o)
    PROVE  IInv'
<1> USE DEF IInv
<1>1. /\ pc["worker"] = "log" /\ published' = published
      /\ dropped' = dropped /\ blocked' = blocked /\ todo' = todo
      /\ rows' = rows \/ rows' = Append(rows, NewRow(msg))
  BY DEF LogSignal
<1>2. msg \in Msgs /\ rows \in Seq(Row) /\ Len(rows) \in Nat
      /\ msg \in Nat \ {0} /\ stream[msg].delivered /\ stream[msg].kind # "malformed"
      /\ stream[msg].state # "gone"
  BY <1>1 DEF HoldInv, TypeOK, Msgs
<1>3. CASE rows' = rows
  <2>1. HandlerRaises
    <3>1. o # "ok"
      <4> SUFFICES ASSUME o = "ok" PROVE FALSE
        OBVIOUS
      <4>1. rows' = Append(rows, NewRow(msg))
        BY DEF LogSignal, Committed
      <4>2. Len(rows') = Len(rows) + 1
        BY <1>2, <4>1
      <4> QED BY <1>2, <1>3, <4>2
    <3> QED BY <3>1 DEF LogSignal
  <2>2. Len(rows) <= Len(rows') /\ rows' \in Seq(Row) /\ dropped' \subseteq Msgs
        /\ blocked' \in BOOLEAN
    BY <1>1, <1>2, <1>3 DEF TypeOK, Msgs
  <2> QED BY <1>1, <1>2, <1>3, <2>1, <2>2, Raise, WorkerOnly
<1>4. CASE rows' = Append(rows, NewRow(msg))
  <2>1. NewRow(msg) \in Row /\ NewRow(msg).key = msg /\ NewRow(msg).attempts > 0
        /\ NewRow(msg).status = "QUEUED" /\ ~NewRow(msg).tried
    BY <1>2, PipelineAssumption DEF NewRow, Row
  <2>2. /\ rows' \in Seq(Row) /\ Len(rows') = Len(rows) + 1
        /\ \A i \in 1..Len(rows) : rows'[i] = rows[i]
        /\ rows'[Len(rows) + 1] = NewRow(msg)
    <3> HIDE DEF IInv
    <3> QED BY <1>2, <1>4, <2>1
  <2>3. \A i \in Ids : rows[i].key # msg
    BY <1>1 DEF WorkerInv
  <2>4. Len(rows) <= Len(rows')
    BY <1>2, <2>2
  <2>7. /\ StreamKept /\ Len(stream') = Len(stream) /\ ControlOK' /\ HoldInv' /\ WorkerInv'
        /\ pc'["retry"] = pc["retry"] /\ sid'["retry"] = sid["retry"]
    <3>8. CASE o # "ok"
      <4>1. HandlerRaises /\ pc["worker"] # "term"
        BY <1>1, <3>8 DEF LogSignal
      <4> QED BY <1>2, <2>2, <2>4, <4>1, Raise
    <3>9. CASE o = "ok"
      <4>1. /\ sid' = [sid EXCEPT !["worker"] = Len(rows) + 1]
            /\ pc' = [pc EXCEPT !["worker"] = "publish"]
            /\ stream' = stream /\ msg' = msg /\ found' = found
            /\ redelivered' = redelivered /\ tries' = tries
        BY <3>9 DEF LogSignal, workerVars
      <4>2. /\ sid' \in [Actors -> 0..Len(rows')] /\ sid'["worker"] = Len(rows) + 1
            /\ sid'["retry"] = sid["retry"]
        BY <1>2, <2>2, <4>1 DEF TypeOK, Actors
      <4>3. /\ pc' \in [Actors -> Steps] /\ pc'["worker"] = "publish"
            /\ pc'["retry"] = pc["retry"]
        BY <4>1 DEF TypeOK, Actors, Steps
      <4>4. ControlOK'
        BY <4>1, <4>2, <4>3 DEF ControlOK, TypeOK
      <4>5. HoldInv'
        BY <1>1, <4>1, <4>3 DEF HoldInv
      <4>6. WorkerInv'
        BY <1>2, <2>1, <2>2, <4>1, <4>2, <4>3 DEF WorkerInv, Ids, Unconfirmed, FanoutSteps
      <4>7. StreamKept /\ Len(stream') = Len(stream)
        BY <1>2, <4>1, ReadyKeeps
      <4> QED BY <4>2, <4>3, <4>4, <4>5, <4>6, <4>7
    <3> QED BY <3>8, <3>9
  <2>8. TypeOK'
    BY <1>1, <1>2, <2>2, <2>7 DEF TypeOK, ControlOK, StreamKept
  <2>9. RowsInv'
    <3>1. \A i \in 1..Len(rows') : i \in Ids \/ i = Len(rows) + 1
      BY <1>2, <2>2 DEF Ids
    <3>2. ASSUME NEW i \in 1..Len(rows')
          PROVE  /\ rows'[i].key \in 1..Len(stream')
                 /\ stream'[rows'[i].key].delivered
                 /\ stream'[rows'[i].key].kind # "malformed"
                 /\ rows'[i].status = "QUEUED" => rows'[i].attempts > 0
      <4>1. CASE i = Len(rows) + 1
        BY <1>2, <2>1, <2>2, <2>7, <4>1 DEF StreamKept, Msgs
      <4>2. CASE i \in Ids
        <5>1. rows'[i] = rows[i]
          BY <2>2, <4>2 DEF Ids
        <5> QED BY <2>7, <4>2, <5>1 DEF RowsInv, StreamKept, Msgs
      <4> QED BY <3>1, <4>1, <4>2
    <3>3. \A i, j \in 1..Len(rows') : rows'[i].key = rows'[j].key => i = j
      BY <2>1, <2>2, <2>3, <3>1 DEF RowsInv, Ids
    <3> QED BY <3>2, <3>3 DEF RowsInv, Ids, Msgs
  <2>10. RetryInv'
    BY <1>1, <2>2, <2>4, <2>7, RetryFrame DEF Ids
  <2>11. SettledInv'
    <3>1. ASSUME NEW m \in Msgs, m # msg, Accounted(m)
          PROVE  Accounted(m)'
      <4>1. stream'[m].kind = stream[m].kind
        BY <2>7 DEF StreamKept
      <4>2. \A i \in 1..Len(rows') : rows'[i].key = m => i \in Ids /\ rows'[i] = rows[i]
        BY <1>2, <2>1, <2>2, <3>1 DEF Ids
      <4>3. \A i \in Ids : i \in 1..Len(rows') /\ rows'[i] = rows[i]
        BY <1>2, <2>2 DEF Ids
      <4> QED
        BY <1>1, <3>1, <4>1, <4>2, <4>3 DEF Accounted, Ids, Unconfirmed
    <3> QED BY <1>2, <2>7, <3>1 DEF SettledInv, StreamKept, Msgs
  <2> QED
    BY <2>7, <2>8, <2>9, <2>10, <2>11
<1> QED
  BY <1>1, <1>3, <1>4

\* A tick only lists rows a failure is recorded on.
LEMMA ListRetryableStep ==
    ASSUME IInv, NEW S \in SUBSET DOMAIN rows, ListRetryable(S)
    PROVE  IInv'
<1>1. /\ stream' = stream /\ rows' = rows /\ published' = published
      /\ dropped' = dropped /\ blocked' = blocked /\ pc' = pc /\ sid' = sid /\ msg' = msg
      /\ redelivered' = redelivered /\ tries' = tries /\ found' = found
      /\ todo' \subseteq DOMAIN rows /\ \A i \in todo' : rows[i].tried
  BY DEF ListRetryable, workerVars, Retryable
<1>2. TypeOK'
  BY <1>1 DEF IInv, TypeOK
<1>3. RetryInv'
  BY <1>1 DEF IInv, RetryInv, Ids
<1> QED
  BY <1>1, <1>2, <1>3 DEF IInv, RowsInv, HoldInv, WorkerInv, SettledInv,
                          Accounted, Unconfirmed, Ids, Msgs

\* retry_signal goes on only with a listed row it read as QUEUED.
LEMMA RetrySignalStep ==
    ASSUME IInv, NEW b \in BOOLEAN, RetrySignal(b)
    PROVE  IInv'
<1> USE DEF IInv
<1>1. /\ stream' = stream /\ rows' = rows /\ published' = published
      /\ dropped' = dropped /\ blocked' = blocked /\ msg' = msg
      /\ redelivered' = redelivered /\ tries' = tries /\ found' = found
      /\ pc["retry"] = "idle"
  BY DEF RetrySignal, workerVars
<1>2. PICK i \in todo :
        /\ todo' = todo \ {i}
        /\ \/ /\ rows[i].status = "QUEUED"
              /\ sid' = [sid EXCEPT !["retry"] = i]
              /\ pc' = [pc EXCEPT !["retry"] =
                             IF stream[rows[i].key].kind = "unrebuildable"
                             THEN "record_invalid" ELSE "publish"]
           \/ sid' = sid /\ pc' = pc
  BY DEF RetrySignal
<1>3. i \in Ids /\ rows[i].tried /\ todo' \subseteq Ids
  BY <1>2 DEF RetryInv, TypeOK, Ids
<1>4. /\ pc' \in [Actors -> Steps] /\ pc'["worker"] = pc["worker"]
      /\ sid' \in [Actors -> 0..Len(rows)] /\ sid'["worker"] = sid["worker"]
      /\ \/ pc'["retry"] = "idle"
         \/ /\ pc'["retry"] \in {"record_invalid", "publish"}
            /\ sid'["retry"] = i /\ rows[i].status = "QUEUED"
  BY <1>1, <1>2, <1>3 DEF TypeOK, Actors, Steps, Ids
<1>5. TypeOK'
  BY <1>1, <1>3, <1>4 DEF TypeOK, Ids
<1>6. RetryInv'
  BY <1>1, <1>2, <1>3, <1>4 DEF RetryInv, Ids, FanoutSteps
<1> QED
  BY <1>1, <1>4, <1>5, <1>6 DEF RowsInv, HoldInv, WorkerInv, SettledInv,
                                Accounted, Unconfirmed, Ids, Msgs

\* A publish moves its actor on inside the fan-out; it may add its own row to
\* the published ones.
LEMMA PublishStep ==
    ASSUME IInv, NEW p \in Actors, NEW b \in BOOLEAN, Publish(p, b)
    PROVE  IInv'
<1> USE DEF IInv
<1>1. /\ stream' = stream /\ rows' = rows /\ dropped' = dropped /\ blocked' = blocked
      /\ sid' = sid /\ msg' = msg /\ redelivered' = redelivered /\ tries' = tries
      /\ found' = found /\ todo' = todo /\ pc[p] = "publish"
  BY DEF Publish, workerVars
<1>2. PICK x \in {"mark_published", "mark_failed", "record_failure"} :
        /\ pc' = [pc EXCEPT ![p] = x]
        /\ x = "mark_published" => published' = published \cup {sid[p]}
        /\ x # "mark_published" => published' = published
  BY DEF Publish
<1>3. sid[p] \in Ids
  BY <1>1 DEF Actors, WorkerInv, RetryInv, FanoutSteps
<1>4. published' \subseteq Ids /\ published \subseteq published'
  BY <1>2, <1>3 DEF TypeOK, Ids
<1>5. pc' \in [Actors -> Steps] /\ pc'[p] = x /\ \A q \in Actors \ {p} : pc'[q] = pc[q]
  BY <1>2 DEF TypeOK, Steps
<1>6. TypeOK'
  BY <1>1, <1>4, <1>5 DEF TypeOK, Ids
<1>7. RowsInv'
  BY <1>1 DEF RowsInv, Ids, Msgs
<1>8. StreamKept
  BY <1>1 DEF StreamKept, TypeOK, Msgs
<1>9. \A m \in Msgs : Accounted(m) => Accounted(m)'
  BY <1>1, <1>4 DEF Accounted, Unconfirmed, Ids
<1>10. SettledInv'
  BY <1>1, <1>9 DEF SettledInv, Msgs
<1>11. CASE p = "worker"
  <2>1. pc'["worker"] = x /\ pc'["retry"] = pc["retry"]
    BY <1>5, <1>11 DEF Actors
  <2>2. RetryInv'
    BY <1>1, <2>1 DEF RetryInv, Ids
  <2>3. HoldInv'
    BY <1>1, <1>11, <2>1 DEF HoldInv
  <2>4. WorkerInv'
    BY <1>1, <1>2, <1>11, <2>1 DEF WorkerInv, FanoutSteps, Unconfirmed, Ids
  <2> QED BY <1>6, <1>7, <1>10, <2>2, <2>3, <2>4
<1>12. CASE p = "retry"
  <2>1. pc'["retry"] = x /\ pc'["worker"] = pc["worker"]
    BY <1>5, <1>12 DEF Actors
  <2>2. RetryInv'
    BY <1>1, <1>12, <2>1 DEF RetryInv, Ids, FanoutSteps
  <2>3. HoldInv' /\ WorkerInv'
    <3>1. \A i \in Ids : rows'[i].key = rows[i].key /\ (Unconfirmed(i)' <=> Unconfirmed(i))
      BY <1>1 DEF Unconfirmed
    <3>2. rows' \in Seq(Row) /\ dropped \subseteq dropped'
      BY <1>1 DEF TypeOK
    <3> QED BY <1>1, <1>4, <1>8, <2>1, <3>1, <3>2, WorkerFrame
  <2> QED BY <1>6, <1>7, <1>10, <2>2, <2>3
<1> QED
  BY <1>11, <1>12 DEF Actors

\* Row i is left alone or rewritten in one of the three forms.
WritesRow(i) ==
    \/ rows' = rows
    \/ \E r \in {PublishedRow(rows[i]), FailedRow(rows[i]), AttemptFailedRow(rows[i])} :
          rows' = [rows EXCEPT ![i] = r]

\* What such a write leaves as it was.
LEMMA Written ==
    ASSUME IInv, NEW i \in Ids, WritesRow(i)
    PROVE  /\ RowsKept
           /\ \A j \in Ids : j # i => rows'[j] = rows[j]
           /\ \A j \in Ids : rows[j].tried => rows'[j].tried
           /\ \A j \in Ids : Unconfirmed(j)' => Unconfirmed(j)
           /\ \A j \in Ids : j # i => (Unconfirmed(j)' <=> Unconfirmed(j))
<1>1. CASE rows' = rows
  BY <1>1 DEF IInv, RowsKept, TypeOK, RowsInv, Ids, Unconfirmed
<1>2. ASSUME NEW r \in {PublishedRow(rows[i]), FailedRow(rows[i]), AttemptFailedRow(rows[i])},
             rows' = [rows EXCEPT ![i] = r]
      PROVE  /\ RowsKept
             /\ \A j \in Ids : rows'[j] = IF j = i THEN r ELSE rows[j]
             /\ \A j \in Ids : rows[j].tried => rows'[j].tried
             /\ \A j \in Ids : Unconfirmed(j)' => Unconfirmed(j)
             /\ \A j \in Ids : j # i => (Unconfirmed(j)' <=> Unconfirmed(j))
  <2>1. rows \in Seq(Row) /\ i \in 1..Len(rows)
    BY DEF IInv, TypeOK, Ids
  <2>2. rows[i] \in Row
    BY <2>1, ElementOfSeq
  <2>3. /\ r \in Row /\ r.key = rows[i].key
        /\ r.status = "QUEUED" => r.attempts > 0
        /\ r.status = "QUEUED" => r.tried
        /\ rows[i].tried => r.tried
    <3>1. CASE r = PublishedRow(rows[i])
      BY <2>2, <3>1, RowForms
    <3>2. CASE r = FailedRow(rows[i])
      BY <2>2, <3>2, RowForms
    <3>3. CASE r = AttemptFailedRow(rows[i])
      BY <2>2, <3>3, RowForms
    <3> QED BY <3>1, <3>2, <3>3
  <2>4. /\ rows' \in Seq(Row) /\ Len(rows') = Len(rows)
        /\ \A j \in 1..Len(rows) : rows'[j] = IF j = i THEN r ELSE rows[j]
    BY <1>2, <2>1, <2>3, ExceptSeq
  <2>5. RowsKept
    BY <2>3, <2>4 DEF IInv, RowsKept, RowsInv, Ids
  <2> QED
    BY <2>1, <2>3, <2>4, <2>5 DEF Ids, Unconfirmed
<1> QED
  BY <1>1, <1>2 DEF WritesRow

\* The end of the worker's fan-out.  It acks only what was sent or is recorded.
LEMMA WorkerWriteStep ==
    ASSUME IInv, pc["worker"] \in FanoutSteps,
           NEW w, w = sid["worker"], WritesRow(w),
           published' = published, dropped' = dropped, blocked' = blocked, todo' = todo,
           \/ HandlerRaises
           \/ HandlerReturns /\ (w \in published \/ ~Unconfirmed(w)')
    PROVE  IInv'
<1> USE DEF IInv
<1>1. /\ w \in Ids /\ rows[w].key = msg
      /\ Unconfirmed(w)
  BY DEF WorkerInv
<1>2. msg \in Msgs /\ pc["worker"] # "term"
  BY DEF HoldInv, TypeOK, Msgs, FanoutSteps
<1>3. /\ RowsKept
      /\ \A j \in Ids : j # w => rows'[j] = rows[j]
      /\ \A j \in Ids : Unconfirmed(j)' => Unconfirmed(j)
  BY <1>1, Written
<1>4. rows' \in Seq(Row) /\ Len(rows') = Len(rows) /\ Len(rows) \in Nat
  BY <1>3 DEF RowsKept, TypeOK
<1>5. Len(rows) <= Len(rows')
  BY <1>4
<1>6. /\ StreamKept /\ Len(stream') = Len(stream)
      /\ ControlOK' /\ HoldInv' /\ WorkerInv'
      /\ pc'["retry"] = pc["retry"] /\ sid'["retry"] = sid["retry"]
  <2>1. CASE HandlerRaises
    BY <1>2, <1>4, <1>5, <2>1, Raise
  <2>2. ASSUME HandlerReturns,
               w \in published \/ ~Unconfirmed(w)'
        PROVE  Accounted(msg)'
    <3>1. msg' = msg /\ stream' = stream
      BY <2>2 DEF HandlerReturns, workerVars
    <3>2. w \in 1..Len(rows') /\ rows'[w].key = msg
      BY <1>1, <1>3, <1>4 DEF RowsKept, Ids
    <3>3. \A i \in 1..Len(rows') : rows'[i].key = msg => i = w
      BY <1>1, <1>3, <1>4 DEF RowsKept, RowsInv, Ids
    <3>4. \A i \in 1..Len(rows') : rows'[i].key = msg /\ Unconfirmed(i)' => i \in published
      BY <2>2, <3>3
    <3> QED BY <3>1, <3>2, <3>4 DEF Accounted, Ids
  <2>3. ASSUME HandlerReturns, Accounted(msg)'
        PROVE  /\ StreamKept /\ Len(stream') = Len(stream)
               /\ ControlOK' /\ HoldInv' /\ WorkerInv'
               /\ pc'["retry"] = pc["retry"] /\ sid'["retry"] = sid["retry"]
    BY <1>2, <1>4, <1>5, <2>3, Return
  <2> QED BY <2>1, <2>2, <2>3
<1>7. TypeOK'
  BY <1>4, <1>6 DEF TypeOK, ControlOK, StreamKept
<1>8. RowsInv'
  BY <1>3, <1>6, RowsFrame
<1>9. RetryInv'
  <2>1. \A i \in Ids : rows[i].tried => rows'[i] = rows[i]
    BY <1>1, <1>3 DEF Unconfirmed
  <2> QED BY <1>4, <1>5, <1>6, <2>1, RetryFrame
<1>10. SettledInv'
  <2>1. \A k \in Msgs : Accounted(k) => Accounted(k)'
    BY <1>3, <1>4, <1>6, AccountedFrame DEF RowsKept
  <2> QED BY <1>6, <2>1 DEF SettledInv, Msgs, StreamKept
<1> QED
  BY <1>6, <1>7, <1>8, <1>9, <1>10

\* The end of the retry job's fan-out.  Its row was not unconfirmed, so the
\* worker cannot tell the difference.
LEMMA RetryWriteStep ==
    ASSUME IInv, pc["retry"] \in FanoutSteps,
           NEW w, w = sid["retry"], WritesRow(w), RetryDone,
           published' = published, dropped' = dropped, blocked' = blocked, todo' = todo
    PROVE  IInv'
<1> USE DEF IInv
<1>1. w \in Ids /\ rows[w].tried
  BY DEF RetryInv
<1>2. /\ RowsKept
      /\ \A j \in Ids : rows[j].tried => rows'[j].tried
      /\ \A j \in Ids : Unconfirmed(j)' => Unconfirmed(j)
      /\ \A j \in Ids : j # w => (Unconfirmed(j)' <=> Unconfirmed(j))
  BY <1>1, Written
<1>3. rows' \in Seq(Row) /\ Len(rows') = Len(rows)
  BY <1>2 DEF RowsKept
<1>4. /\ stream' = stream /\ msg' = msg /\ redelivered' = redelivered /\ tries' = tries
      /\ found' = found
      /\ pc' = [pc EXCEPT !["retry"] = "idle"] /\ sid' = [sid EXCEPT !["retry"] = 0]
  BY DEF RetryDone, workerVars
<1>5. /\ pc' \in [Actors -> Steps] /\ pc'["worker"] = pc["worker"] /\ pc'["retry"] = "idle"
      /\ sid' \in [Actors -> 0..Len(rows)] /\ sid'["worker"] = sid["worker"]
  BY <1>4 DEF TypeOK, Actors, Steps
<1>6. StreamKept
  BY <1>4 DEF StreamKept, TypeOK, Msgs
<1>7. TypeOK'
  BY <1>3, <1>4, <1>5 DEF TypeOK
<1>8. RowsInv'
  BY <1>2, <1>6, RowsFrame
<1>9. \A j \in Ids : rows'[j].key = rows[j].key /\ (Unconfirmed(j)' <=> Unconfirmed(j))
  BY <1>1, <1>2 DEF RowsKept, Unconfirmed
<1>10. HoldInv' /\ WorkerInv' /\ SettledInv'
  BY <1>3, <1>4, <1>5, <1>6, <1>9, WorkerFrame
<1>11. RetryInv'
  BY <1>2, <1>5 DEF RetryInv, FanoutSteps, TypeOK, Ids
<1> QED
  BY <1>7, <1>8, <1>10, <1>11

\* Whatever a fan-out records, its actor holds the row and ends its part.
LEMMA MarkPublishedStep ==
    ASSUME IInv, NEW p \in Actors, NEW o \in Outcomes, MarkPublished(p, o)
    PROVE  IInv'
<1>0. PICK w : w = sid[p]
  OBVIOUS
<1>1. /\ WritesRow(w) /\ pc[p] \in FanoutSteps
      /\ published' = published /\ dropped' = dropped /\ blocked' = blocked /\ todo' = todo
  BY <1>0 DEF MarkPublished, WritesRow, FanoutSteps
<1>2. CASE p = "worker"
  <2>1. HandlerReturns /\ w \in published
    BY <1>0, <1>2 DEF MarkPublished, FanoutReturns, IInv, WorkerInv
  <2>2. w = sid["worker"] /\ pc["worker"] \in FanoutSteps
    BY <1>0, <1>1, <1>2
  <2> QED BY <1>1, <2>1, <2>2, WorkerWriteStep
<1>3. CASE p = "retry"
  <2>1. RetryDone
    BY <1>3 DEF MarkPublished, FanoutReturns
  <2>2. w = sid["retry"] /\ pc["retry"] \in FanoutSteps
    BY <1>0, <1>1, <1>3
  <2> QED BY <1>1, <2>1, <2>2, RetryWriteStep
<1> QED
  BY <1>2, <1>3 DEF Actors

\* A rewritten row of an actor is no longer unconfirmed.
LEMMA Confirmed ==
    ASSUME IInv, NEW i \in Ids, NEW r \in {FailedRow(rows[i]), AttemptFailedRow(rows[i])},
           rows' = [rows EXCEPT ![i] = r]
    PROVE  ~Unconfirmed(i)'
<1>1. rows \in Seq(Row) /\ i \in 1..Len(rows)
  BY DEF IInv, TypeOK, Ids
<1>2. rows[i] \in Row
  BY <1>1, ElementOfSeq
<1>3. r.tried
  BY <1>2, RowForms
<1>4. rows'[i] = r
  BY <1>1
<1> QED
  BY <1>3, <1>4 DEF Unconfirmed

\* A closed row is acked only when the write is known to have landed.
LEMMA MarkFailedStep ==
    ASSUME IInv, NEW p \in Actors, NEW o \in Outcomes, MarkFailed(p, o)
    PROVE  IInv'
<1>0. PICK w : w = sid[p]
  OBVIOUS
<1>1. /\ WritesRow(w) /\ pc[p] \in FanoutSteps
      /\ published' = published /\ dropped' = dropped /\ blocked' = blocked /\ todo' = todo
  BY <1>0 DEF MarkFailed, WritesRow, FanoutSteps
<1>2. CASE p = "worker"
  <2>1. w = sid["worker"] /\ pc["worker"] \in FanoutSteps
    BY <1>0, <1>1, <1>2
  <2>2. w \in Ids
    BY <2>1 DEF IInv, WorkerInv
  <2>3. CASE o = "ok"
    <3>1. HandlerReturns /\ rows' = [rows EXCEPT ![w] = FailedRow(rows[w])]
      BY <1>0, <1>2, <2>3 DEF MarkFailed, FanoutReturns, Committed
    <3>2. ~Unconfirmed(w)'
      BY <2>2, <3>1, Confirmed
    <3> QED BY <1>1, <2>1, <3>1, <3>2, WorkerWriteStep
  <2>4. CASE o # "ok"
    <3>1. HandlerRaises
      BY <1>2, <2>4 DEF MarkFailed, FanoutRaises
    <3> QED BY <1>1, <2>1, <3>1, WorkerWriteStep
  <2> QED BY <2>3, <2>4
<1>3. CASE p = "retry"
  <2>1. RetryDone
    BY <1>3 DEF MarkFailed, FanoutReturns, FanoutRaises
  <2>2. w = sid["retry"] /\ pc["retry"] \in FanoutSteps
    BY <1>0, <1>1, <1>3
  <2> QED BY <1>1, <2>1, <2>2, RetryWriteStep
<1> QED
  BY <1>2, <1>3 DEF Actors

\* A refused publish is acked only when the spent attempt is on record.
LEMMA RecordAttemptFailureStep ==
    ASSUME IInv, NEW p \in Actors, NEW o \in Outcomes, RecordAttemptFailure(p, o)
    PROVE  IInv'
<1>0. PICK w : w = sid[p]
  OBVIOUS
<1>1. /\ WritesRow(w) /\ pc[p] \in FanoutSteps
      /\ published' = published /\ dropped' = dropped /\ blocked' = blocked /\ todo' = todo
  BY <1>0 DEF RecordAttemptFailure, WritesRow, FanoutSteps
<1>2. CASE p = "worker"
  <2>1. w = sid["worker"] /\ pc["worker"] \in FanoutSteps
    BY <1>0, <1>1, <1>2
  <2>2. w \in Ids
    BY <2>1 DEF IInv, WorkerInv
  <2>3. CASE o = "ok"
    <3>1. HandlerReturns /\ rows' = [rows EXCEPT ![w] = AttemptFailedRow(rows[w])]
      BY <1>0, <1>2, <2>3 DEF RecordAttemptFailure, FanoutReturns, Committed
    <3>2. ~Unconfirmed(w)'
      BY <2>2, <3>1, Confirmed
    <3> QED BY <1>1, <2>1, <3>1, <3>2, WorkerWriteStep
  <2>4. CASE o # "ok"
    <3>1. HandlerRaises
      BY <1>2, <2>4 DEF RecordAttemptFailure, FanoutRaises
    <3> QED BY <1>1, <2>1, <3>1, WorkerWriteStep
  <2> QED BY <2>3, <2>4
<1>3. CASE p = "retry"
  <2>1. RetryDone
    BY <1>3 DEF RecordAttemptFailure, FanoutReturns, FanoutRaises
  <2>2. w = sid["retry"] /\ pc["retry"] \in FanoutSteps
    BY <1>0, <1>1, <1>3
  <2> QED BY <1>1, <2>1, <2>2, RetryWriteStep
<1> QED
  BY <1>2, <1>3 DEF Actors

\* A row the retry job cannot rebuild spends an attempt like a refused publish.
LEMMA RecordInvalidStep ==
    ASSUME IInv, NEW o \in Outcomes, RecordInvalid(o)
    PROVE  IInv'
<1>0. PICK w : w = sid["retry"]
  OBVIOUS
<1>1. /\ WritesRow(w) /\ pc["retry"] \in FanoutSteps /\ RetryDone
      /\ published' = published /\ dropped' = dropped /\ blocked' = blocked /\ todo' = todo
  BY <1>0 DEF RecordInvalid, WritesRow, FanoutSteps
<1> QED BY <1>0, <1>1, RetryWriteStep

-----------------------------------------------------------------------------
(* The theorems.                                                           *)

\* The pipeline starts with nothing stored and nothing under way.
LEMMA InitIInv == Init => IInv
<1> SUFFICES ASSUME Init PROVE IInv
  OBVIOUS
<1>1. stream = <<>> /\ rows = <<>> /\ Len(stream) = 0 /\ Len(rows) = 0
  BY DEF Init
<1>2. pc["worker"] = "idle" /\ pc["retry"] = "idle" /\ todo = {} /\ msg = 0
  BY DEF Init, Actors
<1>3. blocked \in BOOLEAN /\ redelivered \in BOOLEAN
  BY DEF Init
<1>4. TypeOK
  BY <1>1, <1>3, PipelineAssumption DEF Init, TypeOK, Actors, Steps
<1>5. RowsInv /\ SettledInv
  BY <1>1 DEF RowsInv, SettledInv, Ids, Msgs
<1>6. HoldInv /\ WorkerInv /\ RetryInv
  BY <1>2 DEF HoldInv, WorkerInv, RetryInv, FanoutSteps
<1> QED
  BY <1>4, <1>5, <1>6 DEF IInv

\* Every action of the pipeline keeps the inductive invariant.
LEMMA NextIInv == IInv /\ [Next]_vars => IInv'
<1> SUFFICES ASSUME IInv, [Next]_vars PROVE IInv'
  OBVIOUS
<1>1. CASE WorkerStep
  BY <1>1, FetchStep, GetByDeliveryKeyStep, IsBlockedStep, SettleStep, LogSignalStep
     DEF WorkerStep
<1>2. CASE RetryStep
  BY <1>2, ListRetryableStep, RetrySignalStep, RecordInvalidStep DEF RetryStep
<1>3. ASSUME NEW p \in Actors, FanoutStep(p)
      PROVE  IInv'
  BY <1>3, PublishStep, MarkPublishedStep, MarkFailedStep, RecordAttemptFailureStep
     DEF FanoutStep
<1>4. CASE EnvironmentStep
  BY <1>4, StoreEnvelopeStep, AckWaitStep, ToggleBlockStep, CrashStep DEF EnvironmentStep
<1>5. CASE UNCHANGED vars
  BY <1>5 DEF vars, workerVars, IInv, TypeOK, RowsInv, HoldInv, WorkerInv, RetryInv,
              SettledInv, Accounted, Unconfirmed, Ids, Msgs
<1> QED
  BY <1>1, <1>2, <1>3, <1>4, <1>5 DEF Next

\* The inductive invariant holds throughout every behaviour.
THEOREM Inductive == Spec => []IInv
  BY InitIInv, NextIInv, PTL DEF Spec

\* The variables keep their types: in particular the in-place retries of the
\* worker never exceed the configured delays and the attempts of a row stay
\* within 0..MAX_ATTEMPTS.
THEOREM TypeCorrect == Spec => []TypeOK
<1>1. IInv => TypeOK
  BY DEF IInv
<1> QED
  BY <1>1, Inductive, PTL

\* However often an envelope is redelivered, retried in place or written
\* without a report, it gets one signal_id.
THEOREM OneSignal == Spec => []OneSignalPerEnvelope
<1>1. IInv => OneSignalPerEnvelope
  BY DEF IInv, TypeOK, RowsInv, OneSignalPerEnvelope, Ids
<1> QED
  BY <1>1, Inductive, PTL

\* The JetStream worker and the retry job never fan out the same row.
THEOREM Ownership == Spec => []SingleOwner
<1>1. IInv => SingleOwner
  BY DEF IInv, WorkerInv, RetryInv, SingleOwner, Unconfirmed, FanoutSteps
<1> QED
  BY <1>1, Inductive, PTL

\* No envelope leaves the stream unaccounted for: dropped by the gate, sent,
\* or on record in a row the retry job still owns or has closed.
THEOREM NothingStranded == Spec => []SettledIsAccounted
<1>1. IInv => SettledIsAccounted
  BY DEF IInv, TypeOK, SettledInv, Accounted, Unconfirmed, SettledIsAccounted, Ids, Msgs
<1> QED
  BY <1>1, Inductive, PTL

\* One step never reopens a closed row or gives an attempt back.
FinalStep ==
    \A i \in DOMAIN rows : /\ rows[i].status # "QUEUED" => rows'[i] = rows[i]
                           /\ rows'[i].attempts <= rows[i].attempts

\* A write to the QUEUED row its actor holds is such a step.
LEMMA WriteIsFinal ==
    ASSUME IInv, NEW w \in Ids, rows[w].status = "QUEUED", WritesRow(w)
    PROVE  FinalStep
<1>1. rows \in Seq(Row) /\ \A i \in DOMAIN rows : rows[i] \in Row /\ i \in 1..Len(rows)
  BY ElementOfSeq DEF IInv, TypeOK
<1>2. \A i \in DOMAIN rows : rows[i].attempts \in Nat
  BY <1>1, PipelineAssumption DEF Row
<1>3. CASE rows' = rows
  BY <1>2, <1>3 DEF FinalStep
<1>4. ASSUME NEW r \in {PublishedRow(rows[w]), FailedRow(rows[w]), AttemptFailedRow(rows[w])},
             rows' = [rows EXCEPT ![w] = r]
      PROVE  FinalStep
  <2>1. w \in DOMAIN rows /\ rows[w] \in Row
    BY <1>1 DEF Ids
  <2>2. r.attempts <= rows[w].attempts
    BY <1>2, <2>1, RowForms
  <2>3. rows'[w] = r /\ \A i \in DOMAIN rows : i # w => rows'[i] = rows[i]
    BY <1>4, <2>1
  <2> QED
    BY <1>2, <2>2, <2>3 DEF FinalStep
<1> QED
  BY <1>3, <1>4 DEF WritesRow

\* Every step of the pipeline is.
LEMMA NextIsFinal == IInv /\ [Next]_vars => FinalStep
<1> SUFFICES ASSUME IInv, [Next]_vars PROVE FinalStep
  OBVIOUS
<1>1. rows \in Seq(Row) /\ Len(rows) \in Nat
      /\ \A i \in DOMAIN rows : rows[i] \in Row /\ i \in 1..Len(rows)
  BY ElementOfSeq DEF IInv, TypeOK
<1>2. \A i \in DOMAIN rows : rows[i].attempts \in Nat
  BY <1>1, PipelineAssumption DEF Row
<1>3. CASE rows' = rows
  BY <1>2, <1>3 DEF FinalStep
<1>4. ASSUME NEW o \in Outcomes, LogSignal(o), rows' # rows
      PROVE  FinalStep
  <2>1. rows' = Append(rows, NewRow(msg))
    BY <1>4 DEF LogSignal
  <2>2. \A i \in DOMAIN rows : rows'[i] = rows[i]
    BY <1>1, <2>1
  <2> QED BY <1>2, <2>2 DEF FinalStep
<1>5. ASSUME NEW p \in Actors, pc[p] \in FanoutSteps, WritesRow(sid[p])
      PROVE  FinalStep
  <2>1. sid[p] \in Ids /\ rows[sid[p]].status = "QUEUED"
    BY <1>5 DEF IInv, WorkerInv, RetryInv, Unconfirmed, Actors
  <2> QED BY <1>5, <2>1, WriteIsFinal
<1>6. CASE WorkerStep
  <2>1. rows' = rows \/ \E o \in Outcomes : LogSignal(o)
    <3>1. \A m \in DOMAIN stream : Fetch(m) => rows' = rows
      BY DEF Fetch
    <3>2. \A b \in BOOLEAN : GetByDeliveryKey(b) => rows' = rows
      BY DEF GetByDeliveryKey
    <3>3. \A b \in BOOLEAN : IsBlocked(b) => rows' = rows
      BY DEF IsBlocked
    <3>4. \A b \in BOOLEAN : Settle(b) => rows' = rows
      BY DEF Settle
    <3> QED BY <1>6, <3>1, <3>2, <3>3, <3>4 DEF WorkerStep
  <2> QED BY <1>3, <1>4, <2>1
<1>7. CASE RetryStep
  <2>1. CASE \E o \in Outcomes : RecordInvalid(o)
    <3>1. pc["retry"] \in FanoutSteps /\ WritesRow(sid["retry"])
      BY <2>1 DEF RecordInvalid, WritesRow, FanoutSteps
    <3> QED BY <1>5, <3>1 DEF Actors
  <2>2. CASE ~\E o \in Outcomes : RecordInvalid(o)
    <3>1. (\E S \in SUBSET DOMAIN rows : ListRetryable(S)) \/ (\E b \in BOOLEAN : RetrySignal(b))
      BY <1>7, <2>2 DEF RetryStep
    <3>2. rows' = rows
      BY <3>1 DEF ListRetryable, RetrySignal
    <3> QED BY <1>3, <3>2
  <2> QED BY <2>1, <2>2
<1>8. ASSUME NEW p \in Actors, FanoutStep(p)
      PROVE  FinalStep
  <2>1. \/ rows' = rows
        \/ pc[p] \in FanoutSteps /\ WritesRow(sid[p])
    <3>1. ASSUME NEW b \in BOOLEAN, Publish(p, b)
          PROVE  rows' = rows
      BY <3>1 DEF Publish
    <3>2. ASSUME NEW o \in Outcomes, MarkPublished(p, o)
          PROVE  pc[p] \in FanoutSteps /\ WritesRow(sid[p])
      BY <3>2 DEF MarkPublished, WritesRow, FanoutSteps
    <3>3. ASSUME NEW o \in Outcomes, MarkFailed(p, o)
          PROVE  pc[p] \in FanoutSteps /\ WritesRow(sid[p])
      BY <3>3 DEF MarkFailed, WritesRow, FanoutSteps
    <3>4. ASSUME NEW o \in Outcomes, RecordAttemptFailure(p, o)
          PROVE  pc[p] \in FanoutSteps /\ WritesRow(sid[p])
      BY <3>4 DEF RecordAttemptFailure, WritesRow, FanoutSteps
    <3> QED BY <1>8, <3>1, <3>2, <3>3, <3>4 DEF FanoutStep
  <2> QED BY <1>3, <1>5, <2>1
<1>9. CASE EnvironmentStep
  BY <1>3, <1>9 DEF EnvironmentStep, StoreEnvelope, AckWaitExpires, ToggleBlock, Crash
<1>10. CASE UNCHANGED vars
  BY <1>3, <1>10 DEF vars
<1> QED
  BY <1>6, <1>7, <1>8, <1>9, <1>10 DEF Next

\* PUBLISHED and FAILED are final and attempts are only spent: a late actor or
\* redelivery rewrites no closed row.
THEOREM Finality == Spec => StatusIsFinal
<1>1. IInv /\ [Next]_vars => [FinalStep]_vars
  BY NextIsFinal
<1> QED
  BY <1>1, Inductive, PTL DEF Spec, StatusIsFinal, FinalStep
-----------------------------------------------------------------------------
(* The refinement of SignalDelivery.                                       *)

\* The retry job marks PUBLISHED only what it sent; the worker's half of this
\* is part of WorkerInv.
RetrySentInv == pc["retry"] = "mark_published" => sid["retry"] \in published

\* The state of SignalDelivery that a state of the pipeline stands for.
Malformed == {m \in DOMAIN stream : stream[m].kind = "malformed"}
Gone == {m \in DOMAIN stream : stream[m].state = "gone"}
Sources == [i \in DOMAIN rows |-> rows[i].key]
Verdicts == [i \in DOMAIN rows |-> VerdictOf(rows[i])]
Visible == <<Len(stream), dropped \cup Malformed, Sources, Verdicts, published, Gone>>

\* Same envelopes, same contents, same ones gone.
SameStream ==
    /\ stream' \in Seq(Envelope)
    /\ Len(stream') = Len(stream)
    /\ \A m \in Msgs : /\ stream'[m].kind = stream[m].kind
                       /\ stream'[m].state = "gone" <=> stream[m].state = "gone"

\* Such a stream looks the same from outside.
LEMMA SameStreamSeen ==
    ASSUME TypeOK, SameStream
    PROVE  Len(stream') = Len(stream) /\ Malformed' = Malformed /\ Gone' = Gone
  BY DEF TypeOK, SameStream, Malformed, Gone, Msgs

\* So does an unchanged table.
LEMMA SameRowsSeen ==
    ASSUME rows' = rows
    PROVE  Sources' = Sources /\ Verdicts' = Verdicts
  BY DEF Sources, Verdicts

\* A step that keeps both, the gate's record and what was sent is a stutter of
\* SignalDelivery.
LEMMA Invisible ==
    ASSUME TypeOK, SameStream, rows' = rows, published' = published, dropped' = dropped
    PROVE  UNCHANGED Delivery!delivery
<1>1. Visible' = Visible
  BY SameStreamSeen, SameRowsSeen DEF Visible
<1> QED
  BY <1>1 DEF Visible, Malformed, Gone, Sources, Verdicts, Delivery!delivery

\* The steps of SignalDelivery in the names above: the gate declines,
LEMMA MapRefuse ==
    ASSUME NEW m \in 1..Len(stream), m \notin Gone, dropped' = dropped \cup {m},
           published' = published, Len(stream') = Len(stream), Malformed' = Malformed,
           Gone' = Gone, Sources' = Sources, Verdicts' = Verdicts
    PROVE  Delivery!Next
<1>1. Delivery!Refuse(m)
  BY DEF Delivery!Refuse, Malformed, Gone, Sources, Verdicts
<1> QED
  BY <1>1 DEF Delivery!Next

\* an open signal is sent,
LEMMA MapSend ==
    ASSUME NEW i \in DOMAIN rows, Verdicts[i] \in {"fresh", "owed"},
           published' = published \cup {i}, dropped' = dropped,
           Len(stream') = Len(stream), Malformed' = Malformed,
           Gone' = Gone, Sources' = Sources, Verdicts' = Verdicts
    PROVE  Delivery!Next
<1>1. Delivery!Send(i)
  BY DEF Delivery!Send, Delivery!Open, Malformed, Gone, Sources, Verdicts
<1>2. i \in DOMAIN Sources
  BY DEF Sources
<1> QED
  BY <1>1, <1>2 DEF Delivery!Next, Sources

\* a verdict is recorded,
LEMMA MapRecord ==
    ASSUME NEW i \in DOMAIN rows, NEW v \in {"PUBLISHED", "FAILED", "owed"},
           Verdicts[i] \in {"fresh", "owed"}, v = "PUBLISHED" => i \in published,
           published' = published, dropped' = dropped,
           Len(stream') = Len(stream), Malformed' = Malformed,
           Gone' = Gone, Sources' = Sources, Verdicts' = [Verdicts EXCEPT ![i] = v]
    PROVE  Delivery!Next
<1>1. Delivery!Record(i, v)
  BY DEF Delivery!Record, Delivery!Open, Malformed, Gone, Sources, Verdicts
<1>2. i \in DOMAIN Sources /\ v \in Delivery!Closed \cup {"owed"}
  BY DEF Sources, Delivery!Closed
<1> QED
  BY <1>1, <1>2 DEF Delivery!Next, Sources

\* an envelope leaves the stream,
LEMMA MapSettle ==
    ASSUME NEW m \in 1..Len(stream),
           \/ m \in dropped \cup Malformed
           \/ \E i \in DOMAIN rows : /\ rows[i].key = m
                                     /\ Verdicts[i] # "fresh" \/ i \in published,
           published' = published, dropped' = dropped,
           Len(stream') = Len(stream), Malformed' = Malformed,
           Gone' = Gone \cup {m}, Sources' = Sources, Verdicts' = Verdicts
    PROVE  Delivery!Next
<1>1. Delivery!Settle(m)
  BY DEF Delivery!Settle, Malformed, Gone, Sources, Verdicts
<1> QED
  BY <1>1 DEF Delivery!Next

\* an envelope becomes a signal,
LEMMA MapRegister ==
    ASSUME NEW m \in 1..Len(stream), m \notin Gone,
           \A i \in DOMAIN rows : rows[i].key # m,
           published' = published, dropped' = dropped,
           Len(stream') = Len(stream), Malformed' = Malformed, Gone' = Gone, 
           Sources' = Append(Sources, m), Verdicts' = Append(Verdicts, "fresh")
    PROVE  Delivery!Next
<1>1. Delivery!Register(m)
  BY DEF Delivery!Register, Malformed, Gone, Sources, Verdicts
<1> QED
  BY <1>1 DEF Delivery!Next

\* an envelope is stored.
LEMMA MapStore ==
    ASSUME Len(stream') = Len(stream) + 1,
           dropped' = dropped, published' = published,
           Malformed' \in {Malformed, Malformed \cup {Len(stream) + 1}}, Gone' = Gone,
           Sources' = Sources, Verdicts' = Verdicts
    PROVE  Delivery!Next
<1>1. Delivery!Store
  BY DEF Delivery!Store, Malformed, Gone, Sources, Verdicts
<1> QED
  BY <1>1 DEF Delivery!Next

\* An envelope that is made ready keeps its contents, and the others all.
LEMMA ReadyWrite ==
    ASSUME TypeOK, NEW m \in Msgs, stream' = [stream EXCEPT ![m].state = "ready"]
    PROVE  /\ stream' \in Seq(Envelope)
           /\ Len(stream') = Len(stream)
           /\ \A k \in 1..Len(stream) :
                /\ stream'[k].kind = stream[k].kind
                /\ stream'[k].delivered <=> stream[k].delivered
                /\ stream'[k].state = IF k = m THEN "ready" ELSE stream[k].state
<1>1. stream \in Seq(Envelope) /\ m \in 1..Len(stream)
  BY DEF TypeOK, Msgs
<1> QED
  BY <1>1, StreamWrite

\* So does one that is settled.
LEMMA GoneWrite ==
    ASSUME TypeOK, NEW m \in Msgs, stream' = [stream EXCEPT ![m].state = "gone"]
    PROVE  /\ stream' \in Seq(Envelope)
           /\ Len(stream') = Len(stream)
           /\ \A k \in 1..Len(stream) :
                /\ stream'[k].kind = stream[k].kind
                /\ stream'[k].delivered <=> stream[k].delivered
                /\ stream'[k].state = IF k = m THEN "gone" ELSE stream[k].state
<1>1. stream \in Seq(Envelope) /\ m \in 1..Len(stream)
  BY DEF TypeOK, Msgs
<1> QED
  BY <1>1, StreamWrite

\* Making one envelope ready that is not gone, or none, is not seen.
LEMMA ReadySeen ==
    ASSUME TypeOK, NEW m \in Msgs, stream[m].state # "gone",
           \/ stream' = stream
           \/ stream' = [stream EXCEPT ![m].state = "ready"]
    PROVE  SameStream
<1>1. CASE stream' = stream
  BY <1>1 DEF SameStream, TypeOK
<1>2. CASE stream' = [stream EXCEPT ![m].state = "ready"]
  <2>1. /\ stream' \in Seq(Envelope)
        /\ Len(stream') = Len(stream)
        /\ \A k \in 1..Len(stream) :
             /\ stream'[k].kind = stream[k].kind
             /\ stream'[k].delivered <=> stream[k].delivered
             /\ stream'[k].state = IF k = m THEN "ready" ELSE stream[k].state
    BY <1>2, ReadyWrite, Zenon
  <2> QED BY <2>1 DEF SameStream, Msgs
<1> QED
  BY <1>1, <1>2

\* A raise of the handler is not seen in the stream.
LEMMA RaiseSeen ==
    ASSUME IInv, HandlerRaises, msg \in Msgs
    PROVE  SameStream
<1>1. TypeOK /\ stream[msg].state # "gone"
  BY DEF IInv, HoldInv, TypeOK, Msgs
<1> QED
  BY <1>1, ReadySeen DEF HandlerRaises

\* A return of the handler neither.
LEMMA ReturnSeen ==
    ASSUME TypeOK, stream' = stream
    PROVE  SameStream
  BY DEF TypeOK, SameStream

\* A row's verdict is open while it is QUEUED.
LEMMA QueuedIsOpen ==
    ASSUME NEW i \in DOMAIN rows, rows[i].status = "QUEUED"
    PROVE  Verdicts[i] \in {"fresh", "owed"}
  BY DEF Verdicts, VerdictOf

\* A new envelope is stored.
LEMMA StoreEnvelopeSeen ==
    ASSUME IInv, NEW k \in Kinds, StoreEnvelope(k)
    PROVE  Delivery!Next
<1> DEFINE e == [kind |-> k, state |-> "ready", delivered |-> FALSE]
<1>1. stream \in Seq(Envelope) /\ Len(stream) \in Nat /\ e \in Envelope
  BY PipelineAssumption DEF IInv, TypeOK, Envelope
<1>2. /\ stream' = Append(stream, e)
      /\ stream' \in Seq(Envelope) /\ Len(stream') = Len(stream) + 1
      /\ \A m \in 1..Len(stream) : stream'[m] = stream[m]
      /\ stream'[Len(stream) + 1] = e
  BY <1>1 DEF StoreEnvelope
<1>3. DOMAIN stream = 1..Len(stream) /\ DOMAIN stream' = 1..(Len(stream) + 1)
  BY <1>1, <1>2
<1>4. Gone' = Gone
  BY <1>1, <1>2, <1>3 DEF Gone
<1>5. Malformed' \in {Malformed, Malformed \cup {Len(stream) + 1}}
  <2>1. CASE k = "malformed"
    <3>1. Malformed' = Malformed \cup {Len(stream) + 1}
      BY <1>1, <1>2, <1>3, <2>1 DEF Malformed
    <3> QED BY <3>1
  <2>2. CASE k # "malformed"
    <3>1. Malformed' = Malformed
      BY <1>1, <1>2, <1>3, <2>2 DEF Malformed
    <3> QED BY <3>1
  <2> QED BY <2>1, <2>2
<1>6. rows' = rows /\ published' = published /\ dropped' = dropped
  BY DEF StoreEnvelope
<1> QED
  BY <1>2, <1>4, <1>5, <1>6, SameRowsSeen, MapStore

\* Expired ack waits, toggles and crashes are not seen.
LEMMA AckWaitSeen ==
    ASSUME IInv, NEW m \in DOMAIN stream, AckWaitExpires(m)
    PROVE  UNCHANGED Delivery!delivery
<1>1. TypeOK /\ m \in Msgs /\ stream[m].state # "gone"
  BY DEF IInv, TypeOK, Msgs, AckWaitExpires
<1>2. SameStream
  BY <1>1, ReadySeen DEF AckWaitExpires
<1> QED
  BY <1>1, <1>2, Invisible DEF AckWaitExpires

\* A delivery neither.
LEMMA FetchSeen ==
    ASSUME IInv, NEW m \in DOMAIN stream, Fetch(m)
    PROVE  UNCHANGED Delivery!delivery
<1>1. TypeOK /\ stream \in Seq(Envelope) /\ m \in 1..Len(stream)
  BY DEF IInv, TypeOK
<1>2. stream' = [stream EXCEPT ![m].state = "held", ![m].delivered = TRUE]
      /\ stream[m].state = "ready"
  BY DEF Fetch, Deliverable
<1>3. /\ stream' \in Seq(Envelope)
      /\ Len(stream') = Len(stream)
      /\ \A k \in 1..Len(stream) :
           /\ stream'[k].kind = stream[k].kind
           /\ stream'[k].state = IF k = m THEN "held" ELSE stream[k].state
  BY <1>1, <1>2, DeliveryWrite
<1>4. SameStream
  BY <1>2, <1>3 DEF SameStream, Msgs
<1> QED
  BY <1>1, <1>4, Invisible DEF Fetch

\* The lookup of the stored row neither.
LEMMA GetByDeliveryKeySeen ==
    ASSUME IInv, NEW b \in BOOLEAN, GetByDeliveryKey(b)
    PROVE  UNCHANGED Delivery!delivery
<1>1. TypeOK /\ msg \in Msgs
  BY DEF IInv, TypeOK, HoldInv, Msgs, GetByDeliveryKey
<1>2. rows' = rows /\ published' = published /\ dropped' = dropped
  BY DEF GetByDeliveryKey
<1>3. stream' = stream \/ HandlerRaises
  BY DEF GetByDeliveryKey
<1>4. SameStream
  BY <1>1, <1>3, RaiseSeen, ReturnSeen
<1> QED
  BY <1>1, <1>2, <1>4, Invisible

\* The block gate declines the envelope the worker holds, or nothing is seen.
LEMMA IsBlockedSeen ==
    ASSUME IInv, NEW b \in BOOLEAN, IsBlocked(b)
    PROVE  Delivery!Next \/ UNCHANGED Delivery!delivery
<1>1. TypeOK /\ msg \in Msgs /\ stream[msg].state # "gone"
  BY DEF IInv, TypeOK, HoldInv, Msgs, IsBlocked
<1>2. rows' = rows /\ published' = published
  BY DEF IsBlocked
<1>3. stream' = stream \/ HandlerRaises
  BY DEF IsBlocked
<1>4. SameStream
  BY <1>1, <1>3, RaiseSeen, ReturnSeen
<1>5. dropped' = dropped \/ dropped' = dropped \cup {msg}
  BY DEF IsBlocked
<1>6. CASE dropped' = dropped
  BY <1>1, <1>2, <1>4, <1>6, Invisible
<1>7. CASE dropped' = dropped \cup {msg}
  <2>1. msg \in 1..Len(stream) /\ msg \notin Gone
    BY <1>1 DEF Gone, Msgs
  <2> QED
    BY <1>1, <1>2, <1>4, <1>7, <2>1, SameStreamSeen, SameRowsSeen, MapRefuse
<1> QED
  BY <1>5, <1>6, <1>7

\* The insert of a row registers the signal, once; a failed one is not seen.
LEMMA LogSignalSeen ==
    ASSUME IInv, NEW o \in Outcomes, LogSignal(o)
    PROVE  Delivery!Next \/ UNCHANGED Delivery!delivery
<1>1. TypeOK /\ msg \in Msgs /\ stream[msg].state # "gone"
  BY DEF IInv, TypeOK, HoldInv, Msgs, LogSignal
<1>2. published' = published /\ dropped' = dropped
  BY DEF LogSignal
<1>3. stream' = stream \/ HandlerRaises
  BY DEF LogSignal
<1>4. SameStream
  BY <1>1, <1>3, RaiseSeen, ReturnSeen
<1>5. CASE rows' = rows
  BY <1>1, <1>2, <1>4, <1>5, Invisible
<1>6. CASE rows' # rows
  <2>1. rows' = Append(rows, NewRow(msg)) /\ \A i \in DOMAIN rows : rows[i].key # msg
    BY <1>6 DEF LogSignal, KeyTaken, Committed
  <2>2. rows \in Seq(Row) /\ Len(rows) \in Nat /\ DOMAIN rows = 1..Len(rows)
    BY <1>1 DEF TypeOK
  <2>3. /\ DOMAIN rows' = 1..(Len(rows) + 1)
        /\ \A i \in 1..Len(rows) : rows'[i] = rows[i]
        /\ rows'[Len(rows) + 1] = NewRow(msg)
    BY <2>1, <2>2
  <2>4. NewRow(msg).key = msg /\ VerdictOf(NewRow(msg)) = "fresh"
    BY DEF NewRow, VerdictOf
  <2>5. Sources' = Append(Sources, msg)
    <3>1. Sources = [i \in 1..Len(rows) |-> rows[i].key]
      BY <2>2 DEF Sources
    <3>2. Sources' = [i \in 1..(Len(rows) + 1) |-> rows'[i].key]
      BY <2>3 DEF Sources
    <3>3. Len(Sources) = Len(rows) /\ DOMAIN Sources = 1..Len(rows)
      BY <2>2, <3>1
    <3>4. Append(Sources, msg)
            = [i \in 1..(Len(rows) + 1) |-> IF i = Len(rows) + 1 THEN msg ELSE Sources[i]]
      BY <3>3, <2>2, <3>1
    <3> QED BY <2>2, <2>3, <2>4, <3>1, <3>2, <3>4
  <2>6. Verdicts' = Append(Verdicts, "fresh")
    <3>1. Verdicts = [i \in 1..Len(rows) |-> VerdictOf(rows[i])]
      BY <2>2 DEF Verdicts
    <3>2. Verdicts' = [i \in 1..(Len(rows) + 1) |-> VerdictOf(rows'[i])]
      BY <2>3 DEF Verdicts, VerdictOf
    <3>3. Len(Verdicts) = Len(rows) /\ DOMAIN Verdicts = 1..Len(rows)
      BY <2>2, <3>1
    <3>4. Append(Verdicts, "fresh")
            = [i \in 1..(Len(rows) + 1) |-> IF i = Len(rows) + 1 THEN "fresh" ELSE Verdicts[i]]
      BY <3>3, <2>2, <3>1
    <3> QED BY <2>2, <2>3, <2>4, <3>1, <3>2, <3>4
  <2>7. msg \in 1..Len(stream) /\ msg \notin Gone
    BY <1>1 DEF Gone, Msgs
  <2> QED
    BY <1>1, <1>2, <1>4, <2>1, <2>5, <2>6, <2>7, SameStreamSeen, MapRegister
<1> QED
  BY <1>5, <1>6

\* What an ack or a term takes out of the stream was declined, or somebody
\* answers for it.
LEMMA SettleSeen ==
    ASSUME IInv, NEW b \in BOOLEAN, Settle(b)
    PROVE  Delivery!Next \/ UNCHANGED Delivery!delivery
<1>1. TypeOK /\ stream \in Seq(Envelope) /\ msg \in Msgs /\ msg \in 1..Len(stream)
  BY DEF IInv, TypeOK, HoldInv, Msgs, Settle
<1>2. rows' = rows /\ published' = published /\ dropped' = dropped
  BY DEF Settle
<1>3. CASE stream' = stream
  BY <1>1, <1>2, <1>3, ReturnSeen, Invisible
<1>4. CASE stream' = [stream EXCEPT ![msg].state = "gone"]
  <2>1. /\ stream' \in Seq(Envelope)
        /\ Len(stream') = Len(stream)
        /\ \A k \in 1..Len(stream) :
             /\ stream'[k].kind = stream[k].kind
             /\ stream'[k].delivered <=> stream[k].delivered
             /\ stream'[k].state = IF k = msg THEN "gone" ELSE stream[k].state
    BY <1>1, <1>4, GoneWrite, Zenon
  <2>2. DOMAIN stream = 1..Len(stream) /\ DOMAIN stream' = 1..Len(stream)
    BY <1>1, <2>1
  <2>3. Malformed' = Malformed /\ Gone' = Gone \cup {msg}
    BY <1>1, <2>1, <2>2 DEF Malformed, Gone
  <2>4. Accounted(msg)
    BY <1>1 DEF IInv, HoldInv, WorkerInv, Accounted, Settle, Msgs, TypeOK
  <2>5. \/ msg \in dropped \cup Malformed
        \/ \E i \in DOMAIN rows : /\ rows[i].key = msg
                                  /\ Verdicts[i] # "fresh" \/ i \in published
    <3>1. CASE msg \in dropped \/ stream[msg].kind = "malformed"
      BY <1>1, <2>2, <3>1 DEF Malformed
    <3>2. CASE ~(msg \in dropped \/ stream[msg].kind = "malformed")
      <4>1. PICK i \in Ids : rows[i].key = msg
        BY <2>4, <3>2 DEF Accounted
      <4>2. i \in DOMAIN rows /\ rows[i] \in Row
        BY <1>1, <4>1, ElementOfSeq DEF TypeOK, Ids
      <4>3. Unconfirmed(i) => i \in published
        BY <2>4, <3>2, <4>1 DEF Accounted
      <4>4. ~Unconfirmed(i) => Verdicts[i] # "fresh"
        BY <4>2 DEF Verdicts, VerdictOf, Unconfirmed, Row
      <4> QED BY <4>1, <4>2, <4>3, <4>4
    <3> QED BY <3>1, <3>2
  <2> QED
    BY <1>1, <1>2, <2>1, <2>3, <2>5, SameRowsSeen, MapSettle
<1> QED
  BY <1>3, <1>4 DEF Settle

\* A fan-out sends an open signal, or nothing is seen.
LEMMA PublishSeen ==
    ASSUME IInv, NEW p \in Actors, NEW b \in BOOLEAN, Publish(p, b)
    PROVE  Delivery!Next \/ UNCHANGED Delivery!delivery
<1>1. TypeOK /\ stream' = stream /\ rows' = rows /\ dropped' = dropped
  BY DEF IInv, Publish
<1>2. SameStream
  BY <1>1, ReturnSeen
<1>3. CASE published' = published
  BY <1>1, <1>2, <1>3, Invisible
<1>4. CASE published' = published \cup {sid[p]}
  <2>1. sid[p] \in DOMAIN rows /\ rows[sid[p]].status = "QUEUED"
    BY DEF IInv, WorkerInv, RetryInv, Actors, Publish, FanoutSteps, Unconfirmed, Ids, TypeOK
  <2>2. Verdicts[sid[p]] \in {"fresh", "owed"}
    BY <2>1, QueuedIsOpen
  <2> QED
    BY <1>1, <1>2, <1>4, <2>1, <2>2, SameStreamSeen, SameRowsSeen, MapSend
<1> QED
  BY <1>3, <1>4 DEF Publish

\* The verdicts of the three rewritten forms of a QUEUED row.
LEMMA RowVerdicts ==
    ASSUME NEW r \in Row, r.status = "QUEUED"
    PROVE  /\ VerdictOf(PublishedRow(r)) = "PUBLISHED"
           /\ VerdictOf(FailedRow(r)) = "FAILED"
           /\ VerdictOf(AttemptFailedRow(r)) \in {"FAILED", "owed"}
<1>1. PublishedRow(r).status = "PUBLISHED" /\ FailedRow(r).status = "FAILED"
      /\ AttemptFailedRow(r).tried /\ AttemptFailedRow(r) \in Row
  BY RowForms
<1>2. AttemptFailedRow(r).status \in {"QUEUED", "FAILED"}
  <2>1. CASE r.attempts <= 1
    <3>1. AttemptFailedRow(r) = [r EXCEPT !.status = "FAILED", !.attempts = 0, !.tried = TRUE]
      BY <2>1 DEF AttemptFailedRow
    <3> QED BY <3>1 DEF Row
  <2>2. CASE ~(r.attempts <= 1)
    <3>1. AttemptFailedRow(r) = [r EXCEPT !.attempts = r.attempts - 1, !.tried = TRUE]
      BY <2>2 DEF AttemptFailedRow
    <3> QED BY <3>1 DEF Row
  <2> QED BY <2>1, <2>2
<1> QED
  BY <1>1, <1>2 DEF VerdictOf

\* Rewriting one row changes one verdict and no source.
LEMMA RowWriteSeen ==
    ASSUME rows \in Seq(Row), NEW i \in DOMAIN rows, NEW r \in Row, r.key = rows[i].key,
           rows' = [rows EXCEPT ![i] = r]
    PROVE  Sources' = Sources /\ Verdicts' = [Verdicts EXCEPT ![i] = VerdictOf(r)]
<1>1. DOMAIN rows' = DOMAIN rows /\ rows'[i] = r
      /\ \A j \in DOMAIN rows : j # i => rows'[j] = rows[j]
  OBVIOUS
<1>2. Sources' = Sources
  BY <1>1 DEF Sources
<1>3. Verdicts' = [j \in DOMAIN rows |-> VerdictOf(rows'[j])]
  BY <1>1 DEF Verdicts, VerdictOf
<1>4. [Verdicts EXCEPT ![i] = VerdictOf(r)]
        = [j \in DOMAIN rows |-> IF j = i THEN VerdictOf(r) ELSE VerdictOf(rows[j])]
  BY DEF Verdicts
<1> QED
  BY <1>1, <1>2, <1>3, <1>4

\* The table learns how an attempt of an open signal ended, or nothing is seen.
LEMMA WriteSeen ==
    ASSUME IInv, SameStream, published' = published, dropped' = dropped,
           NEW i \in Ids, rows[i].status = "QUEUED", 
           \/ rows' = rows
           \/ i \in published /\ rows' = [rows EXCEPT ![i] = PublishedRow(@)]
           \/ rows' = [rows EXCEPT ![i] = FailedRow(@)]
           \/ rows' = [rows EXCEPT ![i] = AttemptFailedRow(@)]
    PROVE  Delivery!Next \/ UNCHANGED Delivery!delivery
<1>1. TypeOK /\ rows \in Seq(Row) /\ i \in DOMAIN rows /\ rows[i] \in Row
  BY ElementOfSeq DEF IInv, TypeOK, Ids
<1>2. CASE rows' = rows
  BY <1>1, <1>2, Invisible
<1>3. ASSUME NEW r \in Row, r.key = rows[i].key, rows' = [rows EXCEPT ![i] = r],
             VerdictOf(r) \in {"PUBLISHED", "FAILED", "owed"},
             VerdictOf(r) = "PUBLISHED" => i \in published
      PROVE  Delivery!Next
  <2>1. Sources' = Sources /\ Verdicts' = [Verdicts EXCEPT ![i] = VerdictOf(r)]
    BY <1>1, <1>3, RowWriteSeen
  <2>2. Verdicts[i] \in {"fresh", "owed"}
    BY <1>1, QueuedIsOpen
  <2> QED
    BY <1>1, <1>3, <2>1, <2>2, SameStreamSeen, MapRecord
<1>4. /\ PublishedRow(rows[i]) \in Row /\ PublishedRow(rows[i]).key = rows[i].key
      /\ FailedRow(rows[i]) \in Row /\ FailedRow(rows[i]).key = rows[i].key
      /\ AttemptFailedRow(rows[i]) \in Row /\ AttemptFailedRow(rows[i]).key = rows[i].key
  BY <1>1, RowForms
<1>5. /\ VerdictOf(PublishedRow(rows[i])) = "PUBLISHED"
      /\ VerdictOf(FailedRow(rows[i])) = "FAILED"
      /\ VerdictOf(AttemptFailedRow(rows[i])) \in {"FAILED", "owed"}
  BY <1>1, RowVerdicts
<1>6. CASE i \in published /\ rows' = [rows EXCEPT ![i] = PublishedRow(@)]
  BY <1>3, <1>4, <1>5, <1>6
<1>7. CASE rows' = [rows EXCEPT ![i] = FailedRow(@)]
  BY <1>3, <1>4, <1>5, <1>7
<1>8. CASE rows' = [rows EXCEPT ![i] = AttemptFailedRow(@)]
  BY <1>3, <1>4, <1>5, <1>8
<1> QED
  BY <1>2, <1>6, <1>7, <1>8

\* The end of a fan-out, whoever ran it.
LEMMA FanoutEndSeen ==
    ASSUME IInv, NEW p \in Actors, pc[p] \in FanoutSteps, FanoutReturns(p) \/ FanoutRaises(p)
    PROVE  SameStream /\ sid[p] \in Ids /\ rows[sid[p]].status = "QUEUED"
<1>1. sid[p] \in Ids /\ rows[sid[p]].status = "QUEUED"
  BY DEF IInv, WorkerInv, RetryInv, Actors, Unconfirmed
<1>2. stream' = stream \/ (p = "worker" /\ HandlerRaises)
  BY DEF FanoutReturns, FanoutRaises, HandlerReturns, RetryDone
<1>3. p = "worker" => msg \in Msgs
  BY DEF IInv, HoldInv, TypeOK, Msgs, FanoutSteps
<1>4. TypeOK
  BY DEF IInv
<1> QED
  BY <1>1, <1>2, <1>3, <1>4, RaiseSeen, ReturnSeen

\* Every recording of an attempt's end.
LEMMA RecordsSeen ==
    ASSUME IInv, RetrySentInv, NEW p \in Actors, NEW o \in Outcomes,
           \/ MarkPublished(p, o) \/ MarkFailed(p, o) \/ RecordAttemptFailure(p, o)
           \/ p = "retry" /\ RecordInvalid(o)
    PROVE  Delivery!Next \/ UNCHANGED Delivery!delivery
<1>1. pc[p] \in FanoutSteps /\ published' = published /\ dropped' = dropped
  BY DEF MarkPublished, MarkFailed, RecordAttemptFailure, RecordInvalid, FanoutSteps
<1>2. FanoutReturns(p) \/ FanoutRaises(p)
  BY DEF MarkPublished, MarkFailed, RecordAttemptFailure, RecordInvalid, FanoutReturns
<1>3. SameStream /\ sid[p] \in Ids /\ rows[sid[p]].status = "QUEUED"
  BY <1>1, <1>2, FanoutEndSeen
<1>4. MarkPublished(p, o) => sid[p] \in published
  BY DEF MarkPublished, IInv, WorkerInv, RetrySentInv, Actors
<1>5. \/ rows' = rows
      \/ sid[p] \in published /\ rows' = [rows EXCEPT ![sid[p]] = PublishedRow(@)]
      \/ rows' = [rows EXCEPT ![sid[p]] = FailedRow(@)]
      \/ rows' = [rows EXCEPT ![sid[p]] = AttemptFailedRow(@)]
  BY <1>4 DEF MarkPublished, MarkFailed, RecordAttemptFailure, RecordInvalid
<1> QED
  BY <1>1, <1>3, <1>5, WriteSeen

\* Steps that are not the retry job's leave what it sent alone.
LEMMA RetrySentFrame ==
    ASSUME RetrySentInv, published \subseteq published',
           \/ pc'["retry"] = pc["retry"] /\ sid'["retry"] = sid["retry"]
           \/ pc'["retry"] # "mark_published"
    PROVE  RetrySentInv'
  BY DEF RetrySentInv

\* The retry job reaches mark_published only through an accepted publish.
LEMMA RetrySentStep == IInv /\ RetrySentInv /\ [Next]_vars => RetrySentInv'
<1> SUFFICES ASSUME IInv, RetrySentInv, [Next]_vars
             PROVE  RetrySentInv'
  OBVIOUS
<1>0. pc \in [Actors -> Steps] /\ sid \in [Actors -> 0..Len(rows)]
      /\ "worker" \in Actors /\ "retry" \in Actors
  BY DEF IInv, TypeOK, Actors
<1>a. HandlerRaises \/ HandlerReturns
        => pc'["retry"] = pc["retry"] /\ sid'["retry"] = sid["retry"]
  BY <1>0 DEF HandlerRaises, HandlerReturns
<1>1. CASE WorkerStep
  <2>1. ASSUME NEW m \in DOMAIN stream, Fetch(m) PROVE RetrySentInv'
    BY <2>1, <1>0, RetrySentFrame DEF Fetch
  <2>2. ASSUME NEW b \in BOOLEAN, GetByDeliveryKey(b) PROVE RetrySentInv'
    BY <2>2, <1>0, <1>a, RetrySentFrame DEF GetByDeliveryKey
  <2>3. ASSUME NEW b \in BOOLEAN, IsBlocked(b) PROVE RetrySentInv'
    <3>1. published' = published /\ pc'["retry"] = pc["retry"] /\ sid'["retry"] = sid["retry"]
      BY <2>3, <1>0, <1>a DEF IsBlocked
    <3> QED BY <3>1, RetrySentFrame
  <2>4. ASSUME NEW b \in BOOLEAN, Settle(b) PROVE RetrySentInv'
    BY <2>4, <1>0, RetrySentFrame DEF Settle
  <2>5. ASSUME NEW o \in Outcomes, LogSignal(o) PROVE RetrySentInv'
    BY <2>5, <1>0, <1>a, RetrySentFrame DEF LogSignal
  <2> QED BY <1>1, <2>1, <2>2, <2>3, <2>4, <2>5 DEF WorkerStep
<1>2. CASE RetryStep
  <2>1. published' = published
    BY <1>2 DEF RetryStep, ListRetryable, RetrySignal, RecordInvalid
  <2>2. ASSUME NEW S \in SUBSET DOMAIN rows, ListRetryable(S) PROVE RetrySentInv'
    BY <2>1, <2>2, RetrySentFrame DEF ListRetryable
  <2>3. ASSUME NEW b \in BOOLEAN, RetrySignal(b) PROVE RetrySentInv'
    <3>1. \/ pc'["retry"] = pc["retry"] /\ sid'["retry"] = sid["retry"]
          \/ pc'["retry"] # "mark_published"
      BY <2>3, <1>0 DEF RetrySignal
    <3> QED BY <2>1, <3>1, RetrySentFrame
  <2>4. ASSUME NEW o \in Outcomes, RecordInvalid(o) PROVE RetrySentInv'
    BY <2>1, <2>4, <1>0, RetrySentFrame DEF RecordInvalid, RetryDone
  <2> QED BY <1>2, <2>2, <2>3, <2>4 DEF RetryStep
<1>3. ASSUME NEW p \in Actors, FanoutStep(p)
      PROVE  RetrySentInv'
  <2>1. ASSUME NEW b \in BOOLEAN, Publish(p, b) PROVE RetrySentInv'
    <3>1. sid' = sid /\ published \subseteq published'
          /\ (p = "worker" => pc'["retry"] = pc["retry"])
          /\ (p = "retry" /\ pc'["retry"] = "mark_published" => sid["retry"] \in published')
      BY <2>1, <1>0 DEF Publish
    <3> QED BY <3>1, RetrySentFrame DEF Actors, RetrySentInv
  <2>2. ASSUME published' = published, FanoutReturns(p) \/ FanoutRaises(p)
        PROVE  RetrySentInv'
    <3>1. CASE p = "worker"
      BY <2>2, <3>1, <1>a, RetrySentFrame DEF FanoutReturns, FanoutRaises
    <3>2. CASE p = "retry"
      <4>1. pc'["retry"] = "idle"
        BY <2>2, <3>2, <1>0 DEF FanoutReturns, FanoutRaises, RetryDone
      <4> QED BY <2>2, <4>1, RetrySentFrame
    <3> QED BY <3>1, <3>2 DEF Actors
  <2>3. ASSUME NEW o \in Outcomes,
               MarkPublished(p, o) \/ MarkFailed(p, o) \/ RecordAttemptFailure(p, o)
        PROVE  RetrySentInv'
    BY <2>2, <2>3 DEF MarkPublished, MarkFailed, RecordAttemptFailure
  <2> QED BY <1>3, <2>1, <2>3 DEF FanoutStep
<1>4. CASE EnvironmentStep
  <2>1. published' = published
        /\ ((pc' = pc /\ sid' = sid) \/ pc' = [p \in Actors |-> "idle"])
    BY <1>4 DEF EnvironmentStep, StoreEnvelope, AckWaitExpires, ToggleBlock, Crash
  <2> QED BY <2>1, <1>0, RetrySentFrame
<1>5. CASE UNCHANGED vars
  BY <1>5, RetrySentFrame DEF vars
<1> QED
  BY <1>1, <1>2, <1>3, <1>4, <1>5 DEF Next

\* Every step of the pipeline is a step of SignalDelivery or is not seen.
LEMMA NextSeen ==
    IInv /\ RetrySentInv /\ [Next]_vars => [Delivery!Next]_(Delivery!delivery)
<1> SUFFICES ASSUME IInv, RetrySentInv, [Next]_vars
             PROVE  Delivery!Next \/ UNCHANGED Delivery!delivery
  OBVIOUS
<1>0. TypeOK
  BY DEF IInv
<1>1. CASE WorkerStep
  BY <1>1, FetchSeen, GetByDeliveryKeySeen, IsBlockedSeen, SettleSeen, LogSignalSeen
     DEF WorkerStep
<1>2. CASE RetryStep
  <2>1. CASE \E o \in Outcomes : RecordInvalid(o)
    BY <2>1, RecordsSeen DEF Actors
  <2>2. CASE ~\E o \in Outcomes : RecordInvalid(o)
    <3>1. stream' = stream /\ rows' = rows /\ published' = published /\ dropped' = dropped
      BY <1>2, <2>2 DEF RetryStep, ListRetryable, RetrySignal
    <3> QED BY <1>0, <3>1, ReturnSeen, Invisible
  <2> QED BY <2>1, <2>2
<1>3. ASSUME NEW p \in Actors, FanoutStep(p)
      PROVE  Delivery!Next \/ UNCHANGED Delivery!delivery
  BY <1>3, PublishSeen, RecordsSeen DEF FanoutStep
<1>4. CASE EnvironmentStep
  <2>1. CASE ToggleBlock \/ Crash
    <3>1. stream' = stream /\ rows' = rows /\ published' = published /\ dropped' = dropped
      BY <2>1 DEF ToggleBlock, Crash
    <3> QED BY <1>0, <3>1, ReturnSeen, Invisible
  <2> QED
    BY <1>4, <2>1, StoreEnvelopeSeen, AckWaitSeen DEF EnvironmentStep
<1>5. CASE UNCHANGED vars
  BY <1>0, <1>5, ReturnSeen, Invisible DEF vars
<1> QED
  BY <1>1, <1>2, <1>3, <1>4, <1>5 DEF Next

\* An empty pipeline is an empty delivery.
LEMMA InitSeen == Init => Delivery!Init /\ RetrySentInv
<1> SUFFICES ASSUME Init PROVE Delivery!Init /\ RetrySentInv
  OBVIOUS
<1>1. stream = <<>> /\ rows = <<>> /\ published = {} /\ dropped = {}
  BY DEF Init
<1>2. Delivery!Init
  BY <1>1 DEF Delivery!Init
<1>3. RetrySentInv
  BY DEF Init, RetrySentInv, Actors
<1> QED
  BY <1>2, <1>3

\* SignalPipeline implements SignalDelivery: with two actors, redeliveries,
\* in-place retries, lost acks, unreported writes, the block gate and crashes,
\* an open signal is sent, PUBLISHED is true, a verdict is given once, and no
\* envelope is let go of that nobody answers for.
THEOREM Refinement == Spec => ImplementsDelivery
<1>1. Init => Delivery!Init /\ RetrySentInv
  BY InitSeen
<1>2. IInv /\ RetrySentInv /\ [Next]_vars => RetrySentInv'
  BY RetrySentStep
<1>3. IInv /\ RetrySentInv /\ [Next]_vars => [Delivery!Next]_(Delivery!delivery)
  BY NextSeen
<1> QED
  BY <1>1, <1>2, <1>3, Inductive, PTL DEF Spec, ImplementsDelivery, Delivery!Spec
=============================================================================
