-------------------------- MODULE TradeCardsProofs --------------------------
(***************************************************************************)
(* Proofs about the trade reports and the cards they move, for any number  *)
(* of reports, chats, faults and deliveries and any size of batch and      *)
(* queue.                                                                  *)
(***************************************************************************)
EXTENDS TradeCards, SequenceTheorems, TLAPS

-----------------------------------------------------------------------------
(* The inductive invariant: the reports.                                   *)

InBatch(r) == \E i \in DOMAIN batch : batch[i] = r

\* A batch holds unsettled reports, each once; what is heard on core NATS has
\* not been fetched from the stream, and nothing waits where nobody keeps it.
BatchInv ==
    /\ \A i, j \in DOMAIN batch : batch[i] = batch[j] => i = j
    /\ \A i \in DOMAIN batch : place[batch[i]] \in {"ready", "pending"}
    /\ pc = "settle" => batch # <<>> /\ outcome # "none"
    /\ pc # "settle" => outcome = "none"
    /\ pc = "down" => batch = <<>>
    /\ ~durable => Len(batch) <= Len(position)
    /\ stopping => durable
    /\ stream /\ ~durable => \A i \in DOMAIN batch : place[batch[i]] = "ready"
    /\ ~stream /\ pc = "down" => \A r \in Reports : place[r] # "pending"

\* A delivery past the MaxDeliveries-th is paid for by a fault of its own.
CountInv ==
    /\ \A r \in Reports : deliveries[r] <= MaxDeliveries + faults
    /\ \A r \in Reports :
          place[r] = "ready" \/ (stream /\ place[r] = "pending" /\ ~InBatch(r))
              => deliveries[r] <= MaxDeliveries - 1 + faults

\* The row runs only while it is open, and stands at least where an acked
\* report, or one about to be acked, left it.
RowInv ==
    /\ trade.status \in {"CLOSED", "FLAT"} => ~trade.is_running
    /\ AckedIsApplied
    /\ pc = "settle" /\ outcome = "PERSISTED" /\ Known(position[Head(batch)])
          => trade # NoRow /\ Rank[trade.status] >= Ranked(Head(batch))

ReportsInv == ReportsTypeOK /\ BatchInv /\ CountInv /\ RowInv

-----------------------------------------------------------------------------
(* The inductive invariant: the cards.                                     *)

Delivering == {"deliver", "mark", "forget", "record"}

\* The status the books have for a chat once the write in hand is done.
Book(c) ==
    IF task.chat = c /\ task.at \in {"mark", "record"} THEN task.status
    ELSE IF task.chat = c /\ task.at = "forget" THEN None
    ELSE cards[c]

\* The update in hand: which cards it knows, and that a card it does not have
\* to edit any more shows its status.
TaskInv ==
    /\ task.at = "idle" => task = Idle
    /\ task.at # "idle" => task.status \in Statuses
    /\ task.at \in {"mark", "forget", "record"} => task.chat \in Chats \ task.refresh
    /\ task.at = "mark" => cards[task.chat] # None
    /\ task.at = "targets" =>
          /\ \A c \in DOMAIN task.existing : cards[c] # None
          /\ \A c \in Chats \ lossy :
                cards[c] # None => c \in DOMAIN task.existing /\ task.existing[c] = cards[c]
    /\ task.at \in Delivering =>
          /\ \A c \in task.refresh : cards[c] # None
          /\ \A c \in Chats \ lossy : c \in task.refresh \/ Book(c) \in {None, task.status}

\* Statuses only go up from the cards over the update in hand and the queue to
\* the table.
OrderInv ==
    /\ \A i \in DOMAIN queue : trade # NoRow /\ Rank[queue[i].status] <= Rank[trade.status]
    /\ \A i, j \in DOMAIN queue :
          i <= j => Rank[queue[i].status] <= Rank[queue[j].status]
    /\ task.at # "idle" =>
          /\ trade # NoRow /\ Rank[task.status] <= Rank[trade.status]
          /\ \A i \in DOMAIN queue : Rank[task.status] <= Rank[queue[i].status]
    /\ \A c \in Chats : cards[c] # None =>
          /\ trade # NoRow /\ Rank[cards[c]] <= Rank[trade.status]
          /\ task.at # "idle" => Rank[cards[c]] <= Rank[task.status]
          /\ \A i \in DOMAIN queue : Rank[cards[c]] <= Rank[queue[i].status]
    /\ \A c \in Chats : shown[c] # None => trade # NoRow
    /\ \A c \in Chats : tap[c].kind # "none" => tap[c].status \in Statuses /\ trade # NoRow

\* What the service will have shown last is what the table has.
Caught(c) ==
    IF queue # <<>> THEN queue[Len(queue)].status = trade.status
    ELSE IF task.at # "idle" THEN task.status = trade.status
    ELSE cards[c] \in {None, trade.status}

\* A report that will be handled again, or given up with all cards lossy.
Owing(r) ==
    /\ Unsettled(r) /\ Known(position[r])
    /\ ~(durable /\ pc = "settle" /\ outcome = "PERSISTED" /\ r = Head(batch))
    /\ ~stream => pc = "settle" /\ outcome = "RETRY" /\ r = Head(batch)

\* The cards lag behind the table only while a report of that very status is
\* going to be handled again.
LagInv ==
    \A c \in Chats \ lossy :
        Caught(c) \/ \E r \in Reports : Owing(r) /\ TradeStatusOf[position[r]] = trade.status

\* Something that will make the service edit the chat's card.
EditDue(c) ==
    \/ task.at \in Delivering /\ c \in task.refresh
    \/ task.at \in {"list", "targets"} /\ task.status # Book(c)
    \/ \E i \in DOMAIN queue : queue[i].status # Book(c)
    \/ \E r \in Reports :
          /\ Owing(r) /\ TradeStatusOf[position[r]] # Book(c)
          /\ Rank[TradeStatusOf[position[r]]] >= Rank[Book(c)]

\* A message differs from the books only while an edit is due.
ShownInv ==
    /\ \A c \in Chats \ lossy : shown[c] = None <=> Book(c) = None
    /\ \A c \in Chats \ (lossy \cup raced) : shown[c] = Book(c) \/ EditDue(c)

\* TypeOK without the reports' part.
CardTypes ==
    /\ subscribed \subseteq Chats
    /\ queue \in Seq(Rows) /\ Len(queue) <= QueueSize
    /\ task \in TaskType
    /\ cards \in [Chats -> StatusOrNone]
    /\ shown \in [Chats -> StatusOrNone]
    /\ tap \in [Chats -> [kind: {"none", "view", "exit", "confirm"}, status: StatusOrNone]]
    /\ lossy \subseteq Chats
    /\ raced \subseteq Chats

CardsInv == CardTypes /\ TaskInv /\ OrderInv /\ LagInv /\ ShownInv

IInv == ReportsInv /\ CardsInv

-----------------------------------------------------------------------------
(* Lemmas about the policy.                                                *)

\* The statuses a row can have, spelled out.
LEMMA StatusSet ==
    Statuses = {"OPENED", "REJECTED", "PARTIALLY_CLOSED", "CLOSED", "FLAT"}
  BY DEF Statuses, TradeStatusOf, Range

\* _STATUS_ORDER ranks every status, and only CLOSED and FLAT share a rank.
LEMMA RankIsInt ==
    /\ \A s \in Statuses : Rank[s] \in Int
    /\ \A s, t \in Statuses : Rank[s] = Rank[t] => s = t \/ {s, t} = {"CLOSED", "FLAT"}
    /\ \A s \in Statuses : Rank[s] >= 2 <=> s \in {"CLOSED", "FLAT"}
  BY StatusSet DEF Rank

\* Every status the policy knows maps to a status of a row.
LEMMA KnownStatus ==
    ASSUME NEW p, Known(p)
    PROVE  TradeStatusOf[p] \in Statuses
  BY DEF Known, Statuses, Range

\* upsert_by_position_event never moves a row back, and leaves it at the
\* report's status unless it already stands further.
LEMMA UpsertRises ==
    ASSUME NEW row \in Rows \cup {NoRow}, NEW p, Known(p)
    PROVE  /\ Upsert(row, p) \in Rows
           /\ Upsert(row, p) # NoRow
           /\ Rank[Upsert(row, p).status] >= Rank[TradeStatusOf[p]]
           /\ row # NoRow => Rank[Upsert(row, p).status] >= Rank[row.status]
           /\ \/ Upsert(row, p).status = TradeStatusOf[p]
              \/ /\ row # NoRow /\ Upsert(row, p) = row
                 /\ Rank[row.status] > Rank[TradeStatusOf[p]]
           /\ (row.status \in {"CLOSED", "FLAT"} => ~row.is_running)
                 => (Upsert(row, p).status \in {"CLOSED", "FLAT"} => ~Upsert(row, p).is_running)
<1> DEFINE s == TradeStatusOf[p]
           new == [status |-> s, is_running |-> IsOpen(p)]
<1>1. s \in Statuses
  BY KnownStatus
<1>2. new \in Rows
  BY <1>1 DEF Rows, IsOpen
<1>3. new.status \in {"CLOSED", "FLAT"} => ~new.is_running
  <2>1. TradeStatusOf["OPENED"] = "OPENED" /\ TradeStatusOf["TP1"] = "PARTIALLY_CLOSED"
    BY DEF TradeStatusOf
  <2> QED
    BY <2>1 DEF IsOpen
<1>4. \A r \in Rows : r # NoRow
  BY StatusSet DEF Rows, NoRow
<1>5. CASE row # NoRow /\ IsDowngrade(s, row.status)
  <2>1. Upsert(row, p) = row
    BY <1>5 DEF Upsert
  <2>2. row \in Rows /\ row.status \in Statuses
    BY <1>5 DEF Rows
  <2> QED
    BY <2>1, <2>2, <1>1, <1>5, <1>4, RankIsInt DEF IsDowngrade
<1>6. CASE ~(row # NoRow /\ IsDowngrade(s, row.status))
  <2>1. Upsert(row, p) = new
    BY <1>6 DEF Upsert
  <2>2. row # NoRow => row.status \in Statuses
    BY DEF Rows
  <2>3. new.status = s
    OBVIOUS
  <2>4. row # NoRow => Rank[s] >= Rank[row.status]
    BY <1>6, <2>2, <1>1, RankIsInt DEF IsDowngrade
  <2>5. Rank[s] >= Rank[s]
    BY <1>1, RankIsInt
  <2> QED
    BY <2>1, <2>2, <2>3, <2>4, <2>5, <1>2, <1>3, <1>4
<1> QED
  BY <1>5, <1>6

-----------------------------------------------------------------------------
(* The reports' invariant is inductive: one lemma per action.              *)

\* What Append returns, read as a function.
LEMMA AppendFun ==
    ASSUME NEW S, NEW s \in Seq(S), NEW e \in S
    PROVE  /\ Append(s, e) \in [1..(Len(s) + 1) -> S]
           /\ Append(s, e) \in Seq(S)
           /\ Append(s, e)[Len(s) + 1] = e
           /\ \A i \in 1..Len(s) : Append(s, e)[i] = s[i]
<1> DEFINE t == Append(s, e)
<1>1. /\ t \in Seq(S) /\ Len(t) = Len(s) + 1 /\ t[Len(s) + 1] = e
      /\ \A i \in 1..Len(s) : t[i] = s[i]
  BY AppendProperties
<1> HIDE DEF t
<1>2. t \in [1..Len(t) -> S]
  BY <1>1, LenProperties
<1> QED
  BY <1>1, <1>2 DEF t

\* It holds before the first report.
LEMMA ReportsInitInv == ReportsInit => ReportsInv
<1> SUFFICES ASSUME ReportsInit PROVE ReportsInv
  OBVIOUS
<1> USE ReportsAssumption DEF ReportsInit
<1>1. ReportsTypeOK
  <2>1. Reports = {} /\ Len(position) = 0 /\ Len(batch) = 0
    BY DEF Reports
  <2>2. \A S : <<>> \in [{} -> S]
    OBVIOUS
  <2>3. \A S : <<>> \in Seq(S)
    OBVIOUS
  <2>4. Len(batch) <= IF durable THEN FetchBatch ELSE MaxReports
    BY <2>1
  <2>5. position \in Seq(Positions) /\ batch \in Seq(Reports) /\ Len(position) <= MaxReports
    BY <2>1, <2>3
  <2>6. /\ place \in [Reports -> {"ready", "pending", "acked", "termed", "lost"}]
        /\ deliveries \in [Reports -> 0..(MaxDeliveries + MaxFaults)]
    BY <2>1, <2>2
  <2>7. faults \in 0..MaxFaults
    OBVIOUS
  <2> QED
    BY <2>4, <2>5, <2>6, <2>7 DEF ReportsTypeOK
<1>2. BatchInv
  <2>1. Reports = {} /\ DOMAIN batch = {} /\ Len(batch) = 0 /\ Len(position) = 0
    BY DEF Reports
  <2> QED
    BY <2>1 DEF BatchInv
<1>3. CountInv
  BY DEF CountInv, Reports
<1>4. RowInv
  BY DEF RowInv, AckedIsApplied, Reports, NoRow
<1> QED
  BY <1>1, <1>2, <1>3, <1>4 DEF ReportsInv

\* A worker publishes a report.
LEMMA PublishReports ==
    ASSUME ReportsInv, NEW p \in Positions, Publish(p)
    PROVE  ReportsInv'
<1> DEFINE n == Len(position) + 1
           heard == ~durable /\ pc # "down"
<1> USE ReportsAssumption DEF ReportsInv
<1>1. /\ n \in Nat /\ n <= MaxReports
      /\ Reports = 1..Len(position) /\ Reports' = 1..n
      /\ Len(place) = Len(position) /\ Len(deliveries) = Len(position)
      /\ place \in Seq({"ready", "pending", "acked", "termed", "lost"})
      /\ deliveries \in Seq(0..(MaxDeliveries + MaxFaults))
  <2>1. position \in Seq(Positions) /\ Len(position) \in Nat /\ Len(position) < MaxReports
    BY DEF ReportsTypeOK, Publish
  <2>2. Reports = 1..Len(position)
    BY <2>1 DEF Reports
  <2>3. Reports' = 1..n
    BY <2>1 DEF Reports, Publish
  <2>4. \A S : \A f \in [1..Len(position) -> S] : f \in Seq(S) /\ Len(f) = Len(position)
    BY <2>1, IsASeq
  <2> HIDE DEF n
  <2>5. /\ Len(place) = Len(position)
        /\ place \in Seq({"ready", "pending", "acked", "termed", "lost"})
    BY <2>2, <2>4 DEF ReportsTypeOK
  <2>6. /\ Len(deliveries) = Len(position)
        /\ deliveries \in Seq(0..(MaxDeliveries + MaxFaults))
    BY <2>2, <2>4 DEF ReportsTypeOK
  <2>7. n \in Nat /\ n <= MaxReports
    BY <2>1 DEF n
  <2> QED
    BY <2>2, <2>3, <2>5, <2>6, <2>7
<1>2. /\ position' \in Seq(Positions) /\ Len(position') = n
      /\ position'[n] = p
      /\ \A r \in Reports : position'[r] = position[r]
  BY <1>1 DEF ReportsTypeOK, Reports, Publish
<1>3. /\ place' \in [Reports' -> {"ready", "pending", "acked", "termed", "lost"}]
      /\ place'[n] = (IF stream THEN "ready" ELSE IF heard THEN "pending" ELSE "lost")
      /\ \A r \in Reports : place'[r] = place[r]
  <2> DEFINE new == IF stream THEN "ready" ELSE IF heard THEN "pending" ELSE "lost"
  <2>1. place' = Append(place, new)
    BY DEF Publish
  <2>2. new \in {"ready", "pending", "acked", "termed", "lost"}
    OBVIOUS
  <2> HIDE DEF new, n, heard
  <2>3. /\ place' \in [1..n -> {"ready", "pending", "acked", "termed", "lost"}]
        /\ place'[n] = new
        /\ \A i \in 1..Len(position) : place'[i] = place[i]
    <3>1. n = Len(place) + 1 /\ Len(position) = Len(place)
      BY <1>1 DEF n
    <3>2. place \in Seq({"ready", "pending", "acked", "termed", "lost"})
      BY <1>1
    <3>3. /\ Append(place, new) \in [1..(Len(place) + 1) -> {"ready", "pending", "acked", "termed", "lost"}]
          /\ Append(place, new)[Len(place) + 1] = new
          /\ \A i \in 1..Len(place) : Append(place, new)[i] = place[i]
      BY <2>2, <3>2, AppendFun
    <3> QED
      BY <2>1, <3>1, <3>3
  <2> QED
    BY <2>3, <1>1 DEF new
<1>4. /\ deliveries' \in [Reports' -> 0..(MaxDeliveries + MaxFaults)]
      /\ deliveries'[n] = 0
      /\ \A r \in Reports : deliveries'[r] = deliveries[r]
  <2> DEFINE new == 0
  <2>1. deliveries' = Append(deliveries, new)
    BY DEF Publish
  <2>2. new \in 0..(MaxDeliveries + MaxFaults)
    OBVIOUS
  <2> HIDE DEF new, n, heard
  <2>3. /\ deliveries' \in [1..n -> 0..(MaxDeliveries + MaxFaults)]
        /\ deliveries'[n] = new
        /\ \A i \in 1..Len(position) : deliveries'[i] = deliveries[i]
    <3>1. n = Len(deliveries) + 1 /\ Len(position) = Len(deliveries)
      BY <1>1 DEF n
    <3> DEFINE D == 0..(MaxDeliveries + MaxFaults)
    <3>2. deliveries \in Seq(D) /\ new \in D
      BY <1>1, <2>2
    <3> HIDE DEF D
    <3>3. /\ Append(deliveries, new) \in [1..(Len(deliveries) + 1) -> D]
          /\ Append(deliveries, new)[Len(deliveries) + 1] = new
          /\ \A i \in 1..Len(deliveries) : Append(deliveries, new)[i] = deliveries[i]
      BY <3>2, AppendFun
    <3> QED
      BY <2>1, <3>1, <3>3 DEF D
  <2> QED
    BY <2>3, <1>1 DEF new
<1>5. /\ outcome' = outcome /\ pc' = pc /\ stopping' = stopping /\ stream' = stream /\ durable' = durable
      /\ trade' = trade /\ faults' = faults
  BY DEF Publish
<1>6. batch \in Seq(Reports) /\ Len(batch) \in Nat /\ DOMAIN batch = 1..Len(batch)
  BY DEF ReportsTypeOK
<1>7. /\ batch' \in Seq(Reports')
      /\ \A i \in DOMAIN batch : i \in DOMAIN batch' /\ batch'[i] = batch[i] /\ batch[i] \in Reports
      /\ \A i \in DOMAIN batch' :
            i \in DOMAIN batch \/ (heard /\ i = Len(batch) + 1 /\ batch'[i] = n)
      /\ heard => Len(batch') = Len(batch) + 1
      /\ ~heard => batch' = batch
  <2>1. batch \in Seq(Reports') /\ n \in Reports'
    <3>1. Reports \subseteq Reports' /\ n \in Reports'
      BY <1>1
    <3> QED
      BY <3>1, <1>6, SeqMonotonic
  <2>2. \A i \in DOMAIN batch : batch[i] \in Reports
    BY <1>6
  <2>3. CASE heard
    <3>1. batch' = Append(batch, n)
      BY <2>3 DEF Publish
    <3> HIDE DEF n
    <3>2. /\ batch' \in Seq(Reports') /\ batch'[Len(batch) + 1] = n
          /\ Len(batch') = Len(batch) + 1 /\ DOMAIN batch' = 1..(Len(batch) + 1)
          /\ \A i \in 1..Len(batch) : batch'[i] = batch[i]
      BY <3>1, <2>1, AppendProperties, LenProperties
    <3>3. \A i \in DOMAIN batch : i \in DOMAIN batch' /\ batch'[i] = batch[i]
      BY <3>2, <1>6
    <3>4. \A i \in DOMAIN batch' : i \in DOMAIN batch \/ (i = Len(batch) + 1 /\ batch'[i] = n)
      BY <3>2, <1>6
    <3> QED
      BY <3>2, <3>3, <3>4, <2>2, <2>3
  <2>4. CASE ~heard
    <3>1. batch' = batch
      BY <2>4 DEF Publish
    <3> QED
      BY <3>1, <2>1, <2>2, <2>4, Zenon
  <2> QED
    BY <2>3, <2>4
<1>8. ReportsTypeOK'
  <2>1. Len(batch') <= IF durable' THEN FetchBatch ELSE MaxReports
    BY <1>1, <1>5, <1>6, <1>7 DEF ReportsTypeOK, BatchInv
  <2> QED
    BY <1>1, <1>2, <1>3, <1>4, <1>5, <1>7, <2>1 DEF ReportsTypeOK
<1>9. BatchInv'
  <2>1. \A i, j \in DOMAIN batch' : batch'[i] = batch'[j] => i = j
    <3>1. \A i \in DOMAIN batch : batch[i] # n
      BY <1>1, <1>7
    <3> QED
      BY <3>1, <1>7 DEF BatchInv
  <2>2. \A i \in DOMAIN batch' : place'[batch'[i]] \in {"ready", "pending"}
    BY <1>3, <1>7 DEF BatchInv
  <2>3. pc' = "settle" => batch' # <<>>
    BY <1>5, <1>6, <1>7 DEF BatchInv
  <2>4. pc' = "down" => batch' = <<>>
    BY <1>5 DEF BatchInv, Publish
  <2>5. ~durable' => Len(batch') <= Len(position')
    BY <1>1, <1>2, <1>5, <1>6, <1>7 DEF BatchInv
  <2>6. stream /\ ~durable => \A i \in DOMAIN batch' : place'[batch'[i]] = "ready"
    BY <1>3, <1>7 DEF BatchInv
  <2>7. ~stream /\ pc = "down" => \A r \in Reports' : place'[r] # "pending"
    <3>1. \A r \in Reports' : r = n \/ r \in Reports
      BY <1>1
    <3> QED
      BY <3>1, <1>3 DEF BatchInv
  <2> QED
    BY <2>1, <2>2, <2>3, <2>4, <2>5, <2>6, <2>7, <1>5 DEF BatchInv
<1>10. CountInv'
  <2>1. faults \in 0..MaxFaults
    BY DEF ReportsTypeOK
  <2>2. \A r \in Reports' : deliveries'[r] <= MaxDeliveries + faults
    <3> TAKE r \in Reports'
    <3>1. CASE r = n
      BY <3>1, <1>4, <2>1
    <3>2. CASE r \in Reports
      BY <3>2, <1>4 DEF CountInv
    <3> QED
      BY <3>1, <3>2, <1>1
  <2>3. \A r \in Reports : InBatch(r) => InBatch(r)'
    BY <1>7 DEF InBatch
  <2>4. \A r \in Reports' : place'[r] = "ready" \/ (stream /\ place'[r] = "pending" /\ ~InBatch(r)')
              => deliveries'[r] <= MaxDeliveries - 1 + faults
    <3> TAKE r \in Reports'
    <3>1. CASE r = n
      BY <3>1, <1>3, <1>4, <2>1
    <3>2. CASE r \in Reports
      BY <3>2, <1>3, <1>4, <2>3 DEF CountInv
    <3> QED
      BY <3>1, <3>2, <1>1
  <2> QED
    BY <2>2, <2>4, <1>5 DEF CountInv, InBatch
<1>11. RowInv'
  <2>1. AckedIsApplied'
    <3>1. \A r \in Reports' : r = n \/ r \in Reports
      BY <1>1
    <3> QED
      BY <3>1, <1>2, <1>3, <1>5 DEF RowInv, AckedIsApplied, Ranked
  <2>2. pc = "settle" => Head(batch') = Head(batch) /\ Head(batch) \in Reports
    BY <1>6, <1>7 DEF BatchInv
  <2> QED
    BY <2>1, <2>2, <1>2, <1>5 DEF RowInv, Ranked
<1> QED
  BY <1>8, <1>9, <1>10, <1>11

\* JetStream redelivers a report.
LEMMA AckWaitReports ==
    ASSUME ReportsInv, NEW r \in Reports, AckWaitExpires(r)
    PROVE  ReportsInv'
<1> USE ReportsAssumption DEF ReportsInv
<1>1. /\ place' \in [Reports -> {"ready", "pending", "acked", "termed", "lost"}]
      /\ place'[r] = "ready" /\ place[r] = "pending" /\ stream
      /\ \A s \in Reports : s # r => place'[s] = place[s]
  BY DEF AckWaitExpires, ReportsTypeOK
<1>2. /\ position' = position /\ deliveries' = deliveries /\ batch' = batch
      /\ outcome' = outcome /\ pc' = pc /\ stopping' = stopping /\ stream' = stream /\ durable' = durable
      /\ trade' = trade /\ Reports' = Reports
  BY DEF AckWaitExpires, Reports
<1>3. /\ faults' \in 0..MaxFaults /\ faults \in 0..MaxFaults
      /\ faults' = IF InBatch(r) THEN faults + 1 ELSE faults
  BY DEF AckWaitExpires, Fault, ReportsTypeOK, InBatch
<1>4. ReportsTypeOK'
  BY <1>1, <1>2, <1>3 DEF ReportsTypeOK
<1>5. BatchInv'
  <2>1. \A i \in DOMAIN batch : batch[i] \in Reports
    BY DEF ReportsTypeOK
  <2> QED
    BY <1>1, <1>2, <2>1 DEF BatchInv
<1>6. CountInv'
  <2>1. \A s \in Reports : deliveries[s] \in Int
    BY DEF ReportsTypeOK
  <2>2. \A s \in Reports : deliveries'[s] <= MaxDeliveries + faults'
    BY <1>2, <1>3, <2>1 DEF CountInv
  <2>3. ASSUME NEW s \in Reports,
               place'[s] = "ready" \/ (stream /\ place'[s] = "pending" /\ ~InBatch(s))
        PROVE  deliveries[s] <= MaxDeliveries - 1 + faults'
    <3>1. CASE s = r /\ InBatch(r)
      BY <3>1, <1>3, <2>1 DEF CountInv
    <3>2. CASE s = r /\ ~InBatch(r)
      BY <3>2, <1>1, <1>3, <2>1 DEF CountInv
    <3>3. CASE s # r
      BY <3>3, <2>3, <1>1, <1>3, <2>1 DEF CountInv
    <3> QED
      BY <3>1, <3>2, <3>3
  <2> QED
    BY <1>2, <2>2, <2>3 DEF CountInv, InBatch
<1>7. RowInv'
  <2>1. \A s \in Reports : place'[s] = "acked" => place[s] = "acked"
    BY <1>1
  <2>2. AckedIsApplied'
    BY <2>1, <1>2 DEF RowInv, AckedIsApplied, Ranked
  <2> QED
    BY <2>2, <1>2 DEF RowInv, Ranked
<1> QED
  BY <1>4, <1>5, <1>6, <1>7

\* One fetch hands out a batch.
LEMMA FetchReports ==
    ASSUME ReportsInv, Fetch
    PROVE  ReportsInv'
<1> USE ReportsAssumption DEF ReportsInv
<1>1. PICK b \in Batches :
        /\ batch' = b
        /\ place' = [r \in Reports |-> IF r \in Range(b) THEN "pending" ELSE place[r]]
        /\ deliveries' =
              [r \in Reports |-> IF r \in Range(b) THEN deliveries[r] + 1 ELSE deliveries[r]]
  BY DEF Fetch
<1>2. PICK n \in 1..FetchBatch : b \in [1..n -> Ready]
  BY DEF Batches
<1>3. /\ b \in Seq(Reports) /\ Len(b) = n /\ DOMAIN b = 1..n
      /\ \A i \in DOMAIN b : b[i] \in Ready /\ b[i] \in Reports
  BY <1>2 DEF Ready
<1>4. \A i, j \in DOMAIN b : b[i] = b[j] => i = j
  BY DEF Batches, IsInjective
<1>5. \A r : r \in Range(b) <=> \E i \in DOMAIN b : b[i] = r
  BY DEF Range
<1>6. Range(b) \subseteq Ready
  BY <1>3, <1>5
<1>7. /\ position' = position /\ outcome' = outcome /\ pc' = pc /\ stopping' = stopping
      /\ stream' = stream /\ durable' = durable /\ trade' = trade /\ faults' = faults /\ Reports' = Reports
      /\ durable /\ pc = "fetch" /\ batch = <<>>
  BY DEF Fetch, Reports
<1>8. \A r \in Ready : r \in Reports /\ place[r] = "ready"
                       /\ deliveries[r] <= MaxDeliveries - 1 + faults
  BY DEF Ready, CountInv
<1>9. faults \in 0..MaxFaults /\ \A r \in Reports : deliveries[r] \in 0..(MaxDeliveries + MaxFaults)
  BY DEF ReportsTypeOK
<1>10. ReportsTypeOK'
  <2>1. place' \in [Reports -> {"ready", "pending", "acked", "termed", "lost"}]
    BY <1>1 DEF ReportsTypeOK
  <2>2. deliveries' \in [Reports -> 0..(MaxDeliveries + MaxFaults)]
    BY <1>1, <1>6, <1>8, <1>9
  <2> QED
    BY <2>1, <2>2, <1>1, <1>3, <1>7 DEF ReportsTypeOK
<1>11. BatchInv'
  <2>1. \A i \in DOMAIN b : place'[b[i]] = "pending"
    BY <1>1, <1>3, <1>5
  <2> QED
    BY <2>1, <1>1, <1>3, <1>4, <1>7 DEF BatchInv
<1>12. CountInv'
  <2>1. \A r \in Reports : deliveries'[r] <= MaxDeliveries + faults
    BY <1>1, <1>6, <1>8, <1>9 DEF CountInv
  <2>2. ASSUME NEW r \in Reports,
               place'[r] = "ready" \/ (stream /\ place'[r] = "pending" /\ ~InBatch(r)')
        PROVE  deliveries'[r] <= MaxDeliveries - 1 + faults
    <3>1. r \notin Range(b)
      BY <2>2, <1>1, <1>5 DEF InBatch
    <3>2. place'[r] = place[r] /\ deliveries'[r] = deliveries[r]
      BY <3>1, <1>1
    <3>3. ~InBatch(r)
      BY <1>7 DEF InBatch
    <3> QED
      BY <2>2, <3>2, <3>3 DEF CountInv
  <2> QED
    BY <2>1, <2>2, <1>7 DEF CountInv, InBatch
<1>13. RowInv'
  <2>1. \A r \in Reports : place'[r] = "acked" => place[r] = "acked"
    BY <1>1
  <2>2. AckedIsApplied'
    BY <2>1, <1>7 DEF RowInv, AckedIsApplied, Ranked
  <2> QED
    BY <2>2, <1>7 DEF RowInv
<1> QED
  BY <1>10, <1>11, <1>12, <1>13

\* The head of the batch: a report of the stream, not settled.
LEMMA HeadOfBatch ==
    ASSUME ReportsInv, batch # <<>>
    PROVE  /\ Head(batch) = batch[1] /\ 1 \in DOMAIN batch
           /\ Head(batch) \in Reports /\ InBatch(Head(batch))
           /\ place[Head(batch)] \in {"ready", "pending"}
  BY DEF ReportsInv, ReportsTypeOK, BatchInv, InBatch

\* The head of the batch is persisted, or not.
LEMMA HandleReports ==
    ASSUME ReportsInv, NEW o \in Outcomes, Handle(o)
    PROVE  ReportsInv'
<1> DEFINE h == Head(batch)
           p == position[h]
<1> USE ReportsAssumption DEF ReportsInv
<1>1. /\ position' = position /\ place' = place /\ deliveries' = deliveries /\ batch' = batch
      /\ stopping' = stopping /\ stream' = stream /\ durable' = durable /\ pc' = "settle" /\ Reports' = Reports
      /\ pc = "fetch" /\ batch # <<>>
  BY DEF Handle, Reports
<1>2. h \in Reports
  BY <1>1, HeadOfBatch
<1>3. /\ outcome' = HandleOutcome(p, o)
      /\ trade' = IF Known(p) /\ o # "fails" THEN Upsert(trade, p) ELSE trade
      /\ faults' = faults \/ Fault
  BY DEF Handle
<1>4. faults \in 0..MaxFaults /\ faults' \in 0..MaxFaults /\ faults' >= faults
  BY <1>3 DEF Fault, ReportsTypeOK
<1>5. outcome' \in {"PERSISTED", "UNREADABLE", "RETRY"}
  BY <1>3 DEF HandleOutcome
<1>6. trade \in Rows \cup {NoRow}
  BY DEF ReportsTypeOK
<1>7. /\ trade' \in Rows \cup {NoRow}
      /\ trade # NoRow => trade' # NoRow /\ Rank[trade'.status] >= Rank[trade.status]
      /\ trade'.status \in {"CLOSED", "FLAT"} => ~trade'.is_running
  <2>1. CASE Known(p) /\ o # "fails"
    BY <2>1, <1>3, <1>6, UpsertRises DEF RowInv
  <2>2. CASE ~(Known(p) /\ o # "fails")
    <3>1. trade # NoRow => Rank[trade.status] \in Int
      BY <1>6, RankIsInt DEF Rows
    <3> QED
      BY <2>2, <3>1, <1>3, <1>6 DEF RowInv
  <2> QED
    BY <2>1, <2>2
<1>8. ReportsTypeOK'
  BY <1>1, <1>4, <1>5, <1>7 DEF ReportsTypeOK
<1>9. BatchInv'
  BY <1>1, <1>5 DEF BatchInv
<1>10. CountInv'
  <2>1. \A r \in Reports : deliveries[r] \in Int
    BY DEF ReportsTypeOK
  <2> QED
    BY <2>1, <1>1, <1>4 DEF CountInv, InBatch
<1>11. AckedIsApplied'
  <2> SUFFICES ASSUME NEW r \in Reports, place[r] = "acked", Known(position[r])
               PROVE  trade' # NoRow /\ Rank[trade'.status] >= Ranked(r)
    BY <1>1 DEF AckedIsApplied, Ranked
  <2>1. trade # NoRow /\ Rank[trade.status] >= Ranked(r)
    BY DEF RowInv, AckedIsApplied
  <2>2. Rank[trade.status] \in Int /\ Ranked(r) \in Int /\ Rank[trade'.status] \in Int
    BY <2>1, <1>6, <1>7, KnownStatus, RankIsInt DEF Rows, Ranked
  <2> QED
    BY <2>1, <2>2, <1>7
<1>12. outcome' = "PERSISTED" /\ Known(p) => trade' # NoRow /\ Rank[trade'.status] >= Ranked(h)
  <2> SUFFICES ASSUME outcome' = "PERSISTED", Known(p)
               PROVE  trade' # NoRow /\ Rank[trade'.status] >= Ranked(h)
    OBVIOUS
  <2>1. o = "ok"
    BY <1>3 DEF HandleOutcome
  <2>2. trade' = Upsert(trade, p)
    BY <2>1, <1>3
  <2> QED
    BY <2>2, <1>6, UpsertRises DEF Ranked
<1>13. RowInv'
  BY <1>1, <1>7, <1>11, <1>12 DEF RowInv, Ranked
<1> QED
  BY <1>8, <1>9, <1>10, <1>13

\* The settling call, heard or not.
LEMMA SettleReports ==
    ASSUME ReportsInv, NEW heard \in BOOLEAN, SettleReport(heard)
    PROVE  ReportsInv'
<1> DEFINE h == Head(batch)
<1> USE ReportsAssumption DEF ReportsInv
<1>1. /\ position' = position /\ deliveries' = deliveries /\ stopping' = stopping
      /\ stream' = stream /\ durable' = durable /\ trade' = trade /\ pc' = "fetch" /\ outcome' = "none"
      /\ batch' = Tail(batch) /\ Reports' = Reports /\ pc = "settle"
  BY DEF SettleReport, Reports
<1>2. batch # <<>> /\ batch \in Seq(Reports)
  BY <1>1 DEF BatchInv, ReportsTypeOK
<1>3. /\ h \in Reports /\ place[h] \in {"ready", "pending"} /\ h = batch[1] /\ InBatch(h)
      /\ 1 \in DOMAIN batch
  BY <1>2, HeadOfBatch
<1>4. /\ faults \in 0..MaxFaults /\ faults' \in 0..MaxFaults
      /\ faults' = IF heard THEN faults ELSE faults + 1
  BY DEF SettleReport, Fault, ReportsTypeOK
<1>5. /\ Verdict(h) \in {"ready", "acked", "termed", "lost"}
      /\ Verdict(h) = "ready" => place[h] = "ready" \/ (durable /\ ~GivenUp(h))
      /\ Verdict(h) = "acked" => outcome = "PERSISTED"
  <2>1. outcome \in {"PERSISTED", "UNREADABLE", "RETRY"} /\ stream \in BOOLEAN /\ durable \in BOOLEAN
        /\ (durable => stream)
    BY <1>1 DEF BatchInv, ReportsTypeOK
  <2>2. stream /\ ~durable => place[h] = "ready"
    BY <1>3 DEF BatchInv
  <2>3. CASE stream /\ ~durable
    BY <2>2, <2>3 DEF Verdict
  <2>4. CASE ~stream
    BY <2>1, <2>4 DEF Verdict
  <2>5. CASE durable
    BY <2>1, <2>5 DEF Verdict
  <2> QED
    BY <2>1, <2>3, <2>4, <2>5
<1>6. /\ place' \in [Reports -> {"ready", "pending", "acked", "termed", "lost"}]
      /\ heard => place'[h] = Verdict(h)
      /\ ~heard => place' = place /\ durable
      /\ \A r \in Reports : r # h => place'[r] = place[r]
  BY <1>3, <1>5 DEF SettleReport, ReportsTypeOK
<1>7. /\ batch' \in Seq(Reports) /\ Len(batch') = Len(batch) - 1 /\ Len(batch) \in Nat
      /\ DOMAIN batch = 1..Len(batch) /\ DOMAIN batch' = 1..(Len(batch) - 1)
      /\ \A i \in DOMAIN batch' : i + 1 \in DOMAIN batch /\ batch'[i] = batch[i + 1]
  BY <1>1, <1>2, HeadTailProperties, LenProperties
<1>8. \A i \in DOMAIN batch' : batch'[i] \in Reports /\ batch'[i] # h
  BY <1>3, <1>7 DEF BatchInv
<1>9. \A r \in Reports : InBatch(r)' <=> InBatch(r) /\ r # h
  <2>1. \A i \in DOMAIN batch : i = 1 \/ (i - 1 \in DOMAIN batch' /\ batch'[i - 1] = batch[i])
    BY <1>7
  <2> QED
    BY <2>1, <1>3, <1>7, <1>8 DEF InBatch
<1>10. ReportsTypeOK'
  <2>1. Len(batch') <= IF durable' THEN FetchBatch ELSE MaxReports
    BY <1>1, <1>7 DEF ReportsTypeOK
  <2> QED
    BY <2>1, <1>1, <1>4, <1>6, <1>7 DEF ReportsTypeOK
<1>11. BatchInv'
  <2>1. \A i, j \in DOMAIN batch' : batch'[i] = batch'[j] => i = j
    BY <1>7 DEF BatchInv
  <2>2. \A i \in DOMAIN batch' : place'[batch'[i]] \in {"ready", "pending"}
    BY <1>6, <1>7, <1>8 DEF BatchInv
  <2>3. ~durable' => Len(batch') <= Len(position')
    <3>1. Len(position) \in Nat
      BY DEF ReportsTypeOK
    <3> QED
      BY <3>1, <1>1, <1>7 DEF BatchInv
  <2>4. stream /\ ~durable => \A i \in DOMAIN batch' : place'[batch'[i]] = "ready"
    BY <1>6, <1>7, <1>8 DEF BatchInv
  <2> QED
    BY <2>1, <2>2, <2>3, <2>4, <1>1 DEF BatchInv
<1>12. CountInv'
  <2>1. \A r \in Reports : deliveries[r] \in Int
    BY DEF ReportsTypeOK
  <2>2. \A r \in Reports : deliveries[r] <= MaxDeliveries + faults'
    BY <1>4, <2>1 DEF CountInv
  <2>3. ASSUME NEW r \in Reports,
               place'[r] = "ready" \/ (stream /\ place'[r] = "pending" /\ ~InBatch(r)')
        PROVE  deliveries[r] <= MaxDeliveries - 1 + faults'
    <3>1. CASE r # h
      BY <3>1, <2>1, <2>3, <1>4, <1>6, <1>9 DEF CountInv
    <3>2. CASE r = h /\ heard
      <4>1. Verdict(h) = "ready"
        BY <3>2, <2>3, <1>5, <1>6
      <4>2. CASE place[h] = "ready"
        BY <4>2, <3>2, <2>1, <1>4 DEF CountInv
      <4>3. CASE ~GivenUp(h)
        BY <4>3, <3>2, <2>1, <1>4 DEF GivenUp
      <4> QED
        BY <4>1, <4>2, <4>3, <1>5
    <3>3. CASE r = h /\ ~heard
      BY <3>3, <2>1, <1>4 DEF CountInv
    <3> QED
      BY <3>1, <3>2, <3>3
  <2> QED
    BY <2>2, <2>3, <1>1 DEF CountInv
<1>13. RowInv'
  <2>1. AckedIsApplied'
    <3> SUFFICES ASSUME NEW r \in Reports, place'[r] = "acked", Known(position[r])
                 PROVE  trade # NoRow /\ Rank[trade.status] >= Ranked(r)
      BY <1>1 DEF AckedIsApplied, Ranked
    <3>1. CASE place[r] = "acked"
      BY <3>1 DEF RowInv, AckedIsApplied
    <3>2. CASE place[r] # "acked"
      <4>1. r = h /\ heard /\ Verdict(h) = "acked"
        BY <3>2, <1>6
      <4>2. outcome = "PERSISTED"
        BY <4>1, <1>5
      <4> QED
        BY <4>1, <4>2, <1>1 DEF RowInv
    <3> QED
      BY <3>1, <3>2
  <2> QED
    BY <2>1, <1>1 DEF RowInv
<1> QED
  BY <1>10, <1>11, <1>12, <1>13

\* stop() only sets its event, and spends a fault.
LEMMA StopReports ==
    ASSUME ReportsInv, StopConsumer
    PROVE  ReportsInv'
<1> USE ReportsAssumption DEF ReportsInv, StopConsumer
<1>1. Reports' = Reports /\ faults' \in 0..MaxFaults /\ faults' >= faults /\ faults \in Nat
  BY DEF Reports, Fault, ReportsTypeOK
<1>2. ReportsTypeOK'
  BY <1>1 DEF ReportsTypeOK
<1>3. BatchInv'
  BY DEF BatchInv
<1>4. CountInv'
  <2>1. \A r \in Reports : deliveries[r] \in Int
    BY DEF ReportsTypeOK
  <2> QED
    BY <1>1, <2>1 DEF CountInv, InBatch
<1>5. RowInv'
  BY <1>1 DEF RowInv, AckedIsApplied, Ranked
<1> QED
  BY <1>2, <1>3, <1>4, <1>5

\* The loop comes to its end, or the process does.
LEMMA DownReports ==
    ASSUME ReportsInv, ConsumerStopped \/ CrashConsumer
    PROVE  ReportsInv'
<1> USE ReportsAssumption DEF ReportsInv
<1>1. /\ position' = position /\ deliveries' = deliveries /\ stopping' = stopping
      /\ stream' = stream /\ durable' = durable /\ trade' = trade /\ pc' = "down" /\ outcome' = "none"
      /\ batch' = <<>> /\ place' = Dropped /\ Reports' = Reports
  BY DEF ConsumerStopped, CrashConsumer, Down, Reports
<1>2. /\ faults \in 0..MaxFaults /\ faults' \in 0..MaxFaults
      /\ \/ faults' = faults + 1
         \/ faults' = faults /\ batch = <<>>
  BY DEF ConsumerStopped, CrashConsumer, Fault, ReportsTypeOK
<1>3. /\ place' \in [Reports -> {"ready", "pending", "acked", "termed", "lost"}]
      /\ \A r \in Reports : place'[r] = place[r] \/ (~stream /\ place'[r] = "lost")
      /\ ~stream => \A r \in Reports : place'[r] # "pending"
  BY <1>1 DEF Dropped, ReportsTypeOK
<1>4. ReportsTypeOK'
  <2>1. batch' \in Seq(Reports) /\ Len(batch') = 0
    BY <1>1
  <2>2. Len(batch') <= IF durable' THEN FetchBatch ELSE MaxReports
    BY <2>1
  <2> QED
    BY <1>1, <1>2, <1>3, <2>1, <2>2 DEF ReportsTypeOK
<1>5. BatchInv'
  <2>1. Len(batch') = 0 /\ Len(position) \in Nat /\ DOMAIN batch' = {}
    BY <1>1 DEF ReportsTypeOK
  <2> QED
    BY <1>1, <1>3, <2>1 DEF BatchInv
<1>6. CountInv'
  <2>1. \A r \in Reports : deliveries[r] \in Int
    BY DEF ReportsTypeOK
  <2>2. \A r \in Reports : deliveries[r] <= MaxDeliveries + faults'
    BY <1>2, <2>1 DEF CountInv
  <2>3. ASSUME NEW r \in Reports, place'[r] = "ready" \/ (stream /\ place'[r] = "pending")
        PROVE  deliveries[r] <= MaxDeliveries - 1 + faults'
    <3>1. CASE faults' = faults + 1
      BY <3>1, <1>2, <2>1 DEF CountInv
    <3>2. CASE faults' = faults /\ batch = <<>>
      <4>1. ~InBatch(r)
        BY <3>2 DEF InBatch
      <4> QED
        BY <4>1, <3>2, <2>3, <1>3 DEF CountInv
    <3> QED
      BY <3>1, <3>2, <1>2
  <2> QED
    BY <1>1, <2>2, <2>3 DEF CountInv
<1>7. RowInv'
  <2>1. \A r \in Reports : place'[r] = "acked" => place[r] = "acked"
    BY <1>3
  <2>2. AckedIsApplied'
    BY <2>1, <1>1 DEF RowInv, AckedIsApplied, Ranked
  <2> QED
    BY <2>2, <1>1 DEF RowInv
<1> QED
  BY <1>4, <1>5, <1>6, <1>7

\* A new process starts with an empty batch; nothing waits for it but what the
\* stream kept.
LEMMA StartReports ==
    ASSUME ReportsInv, StartConsumer
    PROVE  ReportsInv'
<1> USE ReportsAssumption DEF ReportsInv
<1>1. /\ position' = position /\ place' = place /\ deliveries' = deliveries /\ batch' = batch
      /\ outcome' = outcome /\ trade' = trade /\ Reports' = Reports /\ pc = "down" /\ pc' = "fetch"
      /\ stopping' = FALSE /\ stream' \in BOOLEAN /\ durable' \in BOOLEAN /\ (durable' => stream')
      /\ (stream => stream') /\ (faults' = faults \/ Fault)
  BY DEF StartConsumer, Reports
<1>2. faults \in 0..MaxFaults /\ faults' \in 0..MaxFaults /\ faults' >= faults
  BY <1>1 DEF Fault, ReportsTypeOK
<1>3. batch = <<>> /\ DOMAIN batch = {} /\ Len(batch) = 0 /\ Len(position) \in Nat
  BY <1>1 DEF BatchInv, ReportsTypeOK
<1>4. ReportsTypeOK'
  <2>1. Len(batch') <= IF durable' THEN FetchBatch ELSE MaxReports
    BY <1>1, <1>3
  <2> QED
    BY <1>1, <1>2, <2>1 DEF ReportsTypeOK
<1>5. BatchInv'
  BY <1>1, <1>3 DEF BatchInv
<1>6. CountInv'
  <2>1. \A r \in Reports : deliveries[r] \in Int
    BY DEF ReportsTypeOK
  <2>2. \A r \in Reports : deliveries[r] <= MaxDeliveries + faults'
    BY <1>2, <2>1 DEF CountInv
  <2>3. ASSUME NEW r \in Reports, place[r] \in {"ready", "pending"}
        PROVE  deliveries[r] <= MaxDeliveries - 1 + faults'
    <3>1. place[r] = "ready" \/ (stream /\ place[r] = "pending" /\ ~InBatch(r))
      BY <1>1, <1>3, <2>3 DEF BatchInv, InBatch, ReportsTypeOK
    <3>2. deliveries[r] <= MaxDeliveries - 1 + faults
      BY <3>1 DEF CountInv
    <3> QED
      BY <1>2, <2>1, <3>2
  <2> QED
    BY <1>1, <2>2, <2>3 DEF CountInv
<1>7. RowInv'
  BY <1>1 DEF RowInv, AckedIsApplied, Ranked
<1> QED
  BY <1>4, <1>5, <1>6, <1>7

\* A step of the cards touches none of the reports' state but the faults.
LEMMA CardStepReports ==
    ASSUME ReportsInv, ReportsUntouched, faults' = faults \/ Fault
    PROVE  ReportsInv'
<1> USE ReportsAssumption DEF ReportsInv, ReportsUntouched
<1>1. Reports' = Reports /\ faults' \in 0..MaxFaults /\ faults' >= faults /\ faults \in Nat
  BY DEF Reports, Fault, ReportsTypeOK
<1>2. ReportsTypeOK'
  BY <1>1 DEF ReportsTypeOK
<1>3. BatchInv'
  BY <1>1 DEF BatchInv
<1>4. CountInv'
  <2>1. \A r \in Reports : deliveries[r] \in Int
    BY DEF ReportsTypeOK
  <2> QED
    BY <1>1, <2>1 DEF CountInv, InBatch
<1>5. RowInv'
  BY <1>1 DEF RowInv, AckedIsApplied, Ranked
<1> QED
  BY <1>2, <1>3, <1>4, <1>5

\* Every step of the composition keeps the reports' invariant.
LEMMA ReportsStep ==
    ASSUME ReportsInv, [Next]_vars
    PROVE  ReportsInv'
<1>1. CASE ReportStep
  BY <1>1, PublishReports, AckWaitReports, FetchReports, StopReports, StartReports DEF ReportStep
<1>2. CASE \E o \in Outcomes : HandleReport(o)
  BY <1>2, HandleReports DEF HandleReport
<1>3. CASE \E heard \in BOOLEAN : SettleCard(heard)
  BY <1>3, SettleReports DEF SettleCard
<1>4. CASE ProcessEnds
  BY <1>4, DownReports DEF ProcessEnds
<1>5. CASE DrainStep
  <2>1. ReportsUntouched /\ (faults' = faults \/ Fault)
    BY <1>5 DEF DrainStep, TakeUpdate, ApplyRaises, ListCards, ListTargets, KeepBooks, EditCard,
                PostCard, ReportsUntouched, reportVars
  <2> QED
    BY <2>1, CardStepReports
<1>6. CASE BotStep
  <2>1. ReportsUntouched /\ (faults' = faults \/ Fault)
    BY <1>6 DEF BotStep, Toggle, ConfirmExit, Render, Tap, ReportsUntouched, reportVars
  <2> QED
    BY <2>1, CardStepReports
<1>7. CASE UNCHANGED vars
  <2>1. ReportsUntouched /\ faults' = faults
    BY <1>7 DEF vars, reportVars, ReportsUntouched
  <2> QED
    BY <2>1, CardStepReports
<1> QED
  BY <1>1, <1>2, <1>3, <1>4, <1>5, <1>6, <1>7 DEF Next

-----------------------------------------------------------------------------
(* The cards' invariant: lemmas shared by the actions.                     *)

\* What the types say of the rows, the queue and the statuses.
LEMMA CardFacts ==
    ASSUME ReportsInv, CardsInv
    PROVE  /\ None \notin Statuses
           /\ trade # NoRow => trade.status \in Statuses
           /\ trade = NoRow => trade.status = None
           /\ Len(queue) \in Nat /\ DOMAIN queue = 1..Len(queue)
           /\ queue # <<>> => Len(queue) \in DOMAIN queue /\ 1 \in DOMAIN queue
           /\ \A i \in DOMAIN queue : queue[i] \in Rows /\ queue[i].status \in Statuses
           /\ task.status \in StatusOrNone /\ task.refresh \subseteq Chats /\ task.post \subseteq Chats
           /\ \A c \in Chats : cards[c] \in StatusOrNone /\ shown[c] \in StatusOrNone
<1>1. None \notin Statuses
  BY StatusSet DEF None
<1>2. trade \in Rows \cup {NoRow}
  BY DEF ReportsInv, ReportsTypeOK
<1>3. /\ trade # NoRow => trade.status \in Statuses
      /\ trade = NoRow => trade.status = None
  BY <1>2 DEF Rows, NoRow, None
<1>4. queue \in Seq(Rows)
  BY DEF CardsInv, CardTypes
<1>5. \A i \in DOMAIN queue : queue[i] \in Rows /\ queue[i].status \in Statuses
  <2>1. \A i \in DOMAIN queue : queue[i] \in Rows
    BY <1>4
  <2>2. \A r \in Rows : r.status \in Statuses
    BY DEF Rows
  <2> QED
    BY <2>1, <2>2
<1>6. /\ Len(queue) \in Nat /\ DOMAIN queue = 1..Len(queue)
      /\ queue # <<>> => Len(queue) \in DOMAIN queue /\ 1 \in DOMAIN queue
  BY <1>4
<1>7. task.status \in StatusOrNone /\ task.refresh \subseteq Chats /\ task.post \subseteq Chats
  BY DEF CardsInv, CardTypes, TaskType
<1>8. \A c \in Chats : cards[c] \in StatusOrNone /\ shown[c] \in StatusOrNone
  BY DEF CardsInv, CardTypes
<1> QED
  BY <1>1, <1>3, <1>5, <1>6, <1>7, <1>8

\* Once every chat is lossy nothing is promised of the cards any more.
LEMMA LossyForgives ==
    ASSUME lossy' = Chats
    PROVE  LagInv' /\ ShownInv'
<1>1. Chats \ lossy' = {} /\ Chats \ (lossy' \cup raced') = {}
  OBVIOUS
<1> QED
  BY <1>1 DEF LagInv, ShownInv

\* A step that leaves the row, the queue, the update in hand, the books and
\* the messages alone keeps the lag accounted for, if what was owing still is.
LEMMA StillOwing ==
    ASSUME CardsInv, trade' = trade, UNCHANGED <<queue, task, cards, shown>>,
           lossy \subseteq lossy', raced \subseteq raced',
           \A r \in Reports : Owing(r) => r \in Reports' /\ position'[r] = position[r] /\ Owing(r)'
    PROVE  TaskInv' /\ LagInv' /\ ShownInv'
<1>1. \A c : Book(c)' = Book(c) /\ Caught(c)' = Caught(c)
  BY DEF Book, Caught
<1>2. TaskInv'
  BY <1>1 DEF CardsInv, TaskInv
<1>3. LagInv'
  BY <1>1 DEF CardsInv, LagInv
<1>4. \A c \in Chats : EditDue(c) => EditDue(c)'
  BY <1>1 DEF EditDue
<1>5. ShownInv'
  BY <1>1, <1>4 DEF CardsInv, ShownInv
<1> QED
  BY <1>2, <1>3, <1>5

\* A step that leaves the reports alone leaves alone what is owing.
LEMMA OwingSame ==
    ASSUME ReportsUntouched
    PROVE  Reports' = Reports /\ \A r : Owing(r)' = Owing(r)
  BY DEF ReportsUntouched, Owing, Unsettled, Reports

\* The types of the drain task.
LEMMA IdleType == Idle \in TaskType /\ Idle.at = "idle"
<1>1. <<>> \in [{} -> Statuses]
  OBVIOUS
<1>2. <<>> \in UNION {[C -> Statuses] : C \in SUBSET Chats}
  BY <1>1
<1> QED
  BY <1>2 DEF Idle, TaskType, StatusOrNone

\* What the drain task does after a chat.
LEMMA NextChatType ==
    ASSUME NEW t \in TaskType
    PROVE  /\ NextChat(t) \in TaskType
           /\ \/ NextChat(t) = Idle /\ t.refresh = {} /\ t.post = {}
              \/ /\ NextChat(t).at = "deliver" /\ NextChat(t).status = t.status
                 /\ NextChat(t).refresh = t.refresh /\ NextChat(t).chat = None
                 /\ NextChat(t).post = t.post
<1> DEFINE u == [t EXCEPT !.at = "deliver", !.chat = None]
<1>1. /\ u \in TaskType /\ u.at = "deliver" /\ u.status = t.status /\ u.refresh = t.refresh
      /\ u.chat = None /\ u.post = t.post
  BY DEF TaskType
<1>2. CASE t.refresh \cup t.post = {}
  BY <1>2, IdleType DEF NextChat
<1>3. CASE t.refresh \cup t.post # {}
  BY <1>1, <1>3 DEF NextChat
<1> QED
  BY <1>2, <1>3

-----------------------------------------------------------------------------
(* The cards' invariant is inductive: the steps of the reports.            *)

\* No card, no update and no message before the first report.
LEMMA CardsInitInv == Init => CardsInv
<1> SUFFICES ASSUME Init PROVE CardsInv
  OBVIOUS
<1> USE CardsAssumption DEF Init
<1>1. CardTypes
  <2>1. queue \in Seq(Rows) /\ Len(queue) <= QueueSize
    BY DEF Init
  <2>2. task \in TaskType
    BY IdleType
  <2>3. tap \in [Chats -> [kind: {"none", "view", "exit", "confirm"}, status: StatusOrNone]]
    BY DEF NoTap, StatusOrNone
  <2> QED
    BY <2>1, <2>2, <2>3 DEF CardTypes, StatusOrNone
<1>2. task.at = "idle" /\ DOMAIN queue = {}
  BY IdleType
<1>3. TaskInv
  BY <1>2 DEF TaskInv, Delivering
<1>4. OrderInv
  BY <1>2 DEF OrderInv, NoTap
<1>5. \A c \in Chats : Book(c) = None /\ cards[c] = None /\ shown[c] = None
  BY <1>2 DEF Book
<1>6. LagInv
  BY <1>2, <1>5 DEF LagInv, Caught
<1>7. ShownInv
  BY <1>5 DEF ShownInv
<1> QED
  BY <1>1, <1>3, <1>4, <1>6, <1>7 DEF CardsInv

\* The head of a batch that is being settled stays where it is while reports
\* are published.
LEMMA PublishOwing ==
    ASSUME ReportsInv, NEW p \in Positions, Publish(p)
    PROVE  \A r \in Reports : Owing(r) => r \in Reports' /\ position'[r] = position[r] /\ Owing(r)'
<1>1. /\ position \in Seq(Positions) /\ p \in Positions /\ position' = Append(position, p)
      /\ Reports = 1..Len(position) /\ Len(position) \in Nat
  BY DEF ReportsInv, ReportsTypeOK, Reports, Publish
<1>2. /\ \A r \in Reports : position'[r] = position[r]
      /\ Reports' = 1..(Len(position) + 1)
  BY <1>1 DEF Reports
<1>3. \A r \in Reports : place'[r] = place[r]
  <2> DEFINE S == {"ready", "pending", "acked", "termed", "lost"}
  <2>1. place \in [1..Len(position) -> S]
    BY <1>1 DEF ReportsInv, ReportsTypeOK
  <2>2. place \in Seq(S) /\ Len(place) = Len(position)
    BY <2>1, <1>1
  <2>3. PICK x \in S : place' = Append(place, x)
    BY DEF Publish
  <2> HIDE DEF S
  <2> QED
    BY <2>2, <2>3, <1>1, AppendProperties
<1>4. pc' = pc /\ outcome' = outcome /\ stream' = stream /\ durable' = durable
  BY DEF Publish
<1>5. pc = "settle" => Head(batch') = Head(batch)
  <2> SUFFICES ASSUME pc = "settle" PROVE Head(batch') = Head(batch)
    OBVIOUS
  <2>1. batch # <<>> /\ batch \in Seq(Reports)
    BY DEF ReportsInv, BatchInv, ReportsTypeOK
  <2>2. batch' = batch \/ batch' = Append(batch, Len(position) + 1)
    BY DEF Publish
  <2>3. batch \in Seq(Nat) /\ Len(position) + 1 \in Nat
    BY <2>1, <1>1, SeqMonotonic
  <2> QED
    BY <2>1, <2>2, <2>3
<1> QED
  BY <1>1, <1>2, <1>3, <1>4, <1>5 DEF Owing, Unsettled

\* Publishing, fetching, redelivering, stopping and starting leave every card
\* update owing that was.
LEMMA ReportStepCards ==
    ASSUME ReportsInv, CardsInv, ReportStep
    PROVE  CardsInv'
<1>1. UNCHANGED cardVars /\ trade' = trade
  BY DEF ReportStep, Publish, AckWaitExpires, Fetch, StopConsumer, StartConsumer
<1>2. \A r \in Reports : Owing(r) => r \in Reports' /\ position'[r] = position[r] /\ Owing(r)'
  <2>1. CASE \E p \in Positions : Publish(p)
    BY <2>1, PublishOwing
  <2>2. ASSUME NEW s \in Reports, AckWaitExpires(s)
        PROVE  \A r \in Reports : Owing(r) => r \in Reports' /\ position'[r] = position[r] /\ Owing(r)'
    <3>1. \A r \in Reports : place'[r] = place[r] \/ place'[r] = "ready"
      BY <2>2 DEF AckWaitExpires, ReportsInv, ReportsTypeOK
    <3> QED
      BY <2>2, <3>1 DEF AckWaitExpires, Owing, Unsettled, Reports
  <2>3. CASE Fetch
    <3>1. \A r \in Reports : place'[r] = place[r] \/ place'[r] = "pending"
      BY <2>3 DEF Fetch
    <3> QED
      BY <2>3, <3>1 DEF Fetch, Owing, Unsettled, Reports
  <2>4. CASE StopConsumer
    BY <2>4 DEF StopConsumer, Owing, Unsettled, Reports
  <2>5. CASE StartConsumer
    BY <2>5 DEF StartConsumer, Owing, Unsettled, Reports
  <2> QED
    BY <2>1, <2>2, <2>3, <2>4, <2>5 DEF ReportStep
<1>3. TaskInv' /\ LagInv' /\ ShownInv'
  BY <1>1, <1>2, StillOwing DEF cardVars
<1>4. CardTypes' /\ OrderInv'
  BY <1>1 DEF cardVars, CardsInv, CardTypes, OrderInv
<1> QED
  BY <1>3, <1>4 DEF CardsInv

\* A row that rises, and is queued or not, keeps the statuses in order.
LEMMA RiseKeepsOrder ==
    ASSUME ReportsInv, CardsInv, trade' \in Rows \cup {NoRow},
           trade # NoRow => trade' # NoRow /\ Rank[trade'.status] >= Rank[trade.status],
           UNCHANGED <<task, cards, shown, tap>>,
           queue' = queue \/ (queue' = Append(queue, trade') /\ trade' \in Rows)
    PROVE  OrderInv'
<1>1. trade' # NoRow => trade'.status \in Statuses /\ Rank[trade'.status] \in Int
  BY RankIsInt DEF Rows
<1>2. \A s \in Statuses : trade # NoRow /\ Rank[s] <= Rank[trade.status] =>
         trade' # NoRow /\ Rank[s] <= Rank[trade'.status]
  BY <1>1, RankIsInt, CardFacts
<1>3. \A r \in Rows : r # NoRow /\ r.status \in Statuses
  BY StatusSet DEF Rows, NoRow
<1>4. queue \in Seq(Rows)
  BY DEF CardsInv, CardTypes
<1>5. \A i \in DOMAIN queue' :
        \/ i \in DOMAIN queue /\ queue'[i] = queue[i]
        \/ queue'[i] = trade' /\ trade' # NoRow /\ \A j \in DOMAIN queue' : j <= i
  <2>1. CASE queue' = queue
    BY <2>1
  <2>2. CASE queue' = Append(queue, trade') /\ trade' \in Rows
    <3>1. /\ Len(queue) \in Nat /\ DOMAIN queue = 1..Len(queue)
          /\ DOMAIN queue' = 1..(Len(queue) + 1)
          /\ queue'[Len(queue) + 1] = trade'
          /\ \A i \in 1..Len(queue) : queue'[i] = queue[i]
      BY <2>2, <1>4
    <3>2. trade' # NoRow
      BY <2>2, <1>3
    <3>3. \A i \in DOMAIN queue' : i \in DOMAIN queue \/ i = Len(queue) + 1
      BY <3>1
    <3>4. \A j \in DOMAIN queue' : j <= Len(queue) + 1
      BY <3>1
    <3>5. \A i \in DOMAIN queue : queue'[i] = queue[i]
      BY <3>1
    <3> QED
      BY <3>1, <3>2, <3>3, <3>4, <3>5, Zenon
  <2> QED
    BY <2>1, <2>2
<1>6. \A i \in DOMAIN queue : queue[i].status \in Statuses /\ i \in Int
  BY CardFacts
<1>7. \A i \in DOMAIN queue' : trade' # NoRow /\ Rank[queue'[i].status] <= Rank[trade'.status]
  <2> TAKE i \in DOMAIN queue'
  <2>1. CASE i \in DOMAIN queue /\ queue'[i] = queue[i]
    BY <2>1, <1>2, <1>6 DEF CardsInv, OrderInv
  <2>2. CASE queue'[i] = trade' /\ trade' # NoRow
    BY <2>2, <1>1
  <2> QED
    BY <2>1, <2>2, <1>5
<1>8. \A i, j \in DOMAIN queue' : i <= j => Rank[queue'[i].status] <= Rank[queue'[j].status]
  <2> TAKE i, j \in DOMAIN queue'
  <2> HAVE i <= j
  <2>1. CASE queue'[j] = trade'
    BY <2>1, <1>7
  <2>2. CASE j \in DOMAIN queue /\ queue'[j] = queue[j] /\ i \in DOMAIN queue /\ queue'[i] = queue[i]
    BY <2>2 DEF CardsInv, OrderInv
  <2>3. CASE j \in DOMAIN queue /\ queue'[j] = queue[j] /\ queue'[i] = trade' /\ \A k \in DOMAIN queue' : k <= i
    <3>1. i = j
      <4>1. i \in Int /\ j \in Int
        <5>1. queue' \in Seq(Rows)
          BY <1>4, AppendProperties
        <5> QED
          BY <5>1
      <4> QED
        BY <4>1, <2>3
    <3> QED
      BY <3>1, <2>3, <1>7
  <2> QED
    BY <2>1, <2>2, <2>3, <1>5
<1>9. task.at # "idle" => task.status \in Statuses
  BY DEF CardsInv, TaskInv
<1>10. ASSUME NEW s \in Statuses, trade # NoRow /\ Rank[s] <= Rank[trade.status],
              \A i \in DOMAIN queue : Rank[s] <= Rank[queue[i].status]
       PROVE  /\ trade' # NoRow /\ Rank[s] <= Rank[trade'.status]
              /\ \A i \in DOMAIN queue' : Rank[s] <= Rank[queue'[i].status]
  BY <1>2, <1>5, <1>10
<1>11. task'.at # "idle" =>
          /\ trade' # NoRow /\ Rank[task'.status] <= Rank[trade'.status]
          /\ \A i \in DOMAIN queue' : Rank[task'.status] <= Rank[queue'[i].status]
  BY <1>9, <1>10 DEF CardsInv, OrderInv
<1>12. \A c \in Chats : cards'[c] # None =>
          /\ trade' # NoRow /\ Rank[cards'[c]] <= Rank[trade'.status]
          /\ task'.at # "idle" => Rank[cards'[c]] <= Rank[task'.status]
          /\ \A i \in DOMAIN queue' : Rank[cards'[c]] <= Rank[queue'[i].status]
  <2>1. \A c \in Chats : cards[c] # None => cards[c] \in Statuses
    BY CardFacts DEF StatusOrNone
  <2> QED
    BY <2>1, <1>10 DEF CardsInv, OrderInv
<1>13. /\ \A c \in Chats : shown'[c] # None => trade' # NoRow
       /\ \A c \in Chats : tap'[c].kind # "none" => tap'[c].status \in Statuses /\ trade' # NoRow
  BY DEF CardsInv, OrderInv
<1> QED
  BY <1>7, <1>8, <1>11, <1>12, <1>13 DEF OrderInv

\* A report is handled: its row is queued, or will be when it comes again.
LEMMA HandleCards ==
    ASSUME ReportsInv, CardsInv, NEW o \in Outcomes, HandleReport(o)
    PROVE  CardsInv'
<1> DEFINE h == Head(batch)
           p == position[h]
<1>1. /\ position' = position /\ place' = place /\ batch' = batch /\ stream' = stream /\ durable' = durable
      /\ Reports' = Reports /\ pc' = "settle" /\ pc = "fetch" /\ batch # <<>>
      /\ UNCHANGED <<subscribed, task, cards, shown, tap, raced>>
      /\ outcome' = HandleOutcome(p, o)
      /\ trade' = IF Known(p) /\ o # "fails" THEN Upsert(trade, p) ELSE trade
  BY DEF HandleReport, Handle, Reports
<1>2. h \in Reports /\ place[h] \in {"ready", "pending"}
  BY <1>1, HeadOfBatch
<1>3. trade \in Rows \cup {NoRow}
  BY DEF ReportsInv, ReportsTypeOK
<1>4. /\ trade' \in Rows \cup {NoRow}
      /\ trade # NoRow => trade' # NoRow /\ Rank[trade'.status] >= Rank[trade.status]
  <2>1. CASE Known(p) /\ o # "fails"
    BY <2>1, <1>1, <1>3, UpsertRises
  <2>2. CASE ~(Known(p) /\ o # "fails")
    BY <2>2, <1>1, <1>3, CardFacts, RankIsInt
  <2> QED
    BY <2>1, <2>2
<1>5. \/ queue' = queue /\ lossy' = lossy /\ ~(Known(p) /\ o = "ok")
      \/ queue' = queue /\ lossy' = Chats
      \/ /\ Known(p) /\ o = "ok" /\ lossy' = lossy
         /\ queue' = Append(queue, trade') /\ Len(queue) < QueueSize
  BY DEF HandleReport, HandleEvent, Rendered, AllLossy
<1>6. Known(p) /\ o = "ok" => trade' \in Rows
  BY <1>1, <1>3, UpsertRises
<1>7. CardTypes'
  <2>1. queue' \in Seq(Rows) /\ Len(queue') <= QueueSize
    <3>1. queue \in Seq(Rows) /\ Len(queue) <= QueueSize /\ Len(queue) \in Nat
      BY DEF CardsInv, CardTypes
    <3> QED
      BY <3>1, <1>5, <1>6, CardsAssumption
  <2>2. lossy' \subseteq Chats
    BY <1>5 DEF CardsInv, CardTypes
  <2> QED
    BY <2>1, <2>2, <1>1 DEF CardsInv, CardTypes
<1>8. OrderInv'
  BY <1>1, <1>4, <1>5, <1>6, RiseKeepsOrder
<1>9. lossy \subseteq lossy'
  BY <1>5 DEF CardsInv, CardTypes
<1>10. \A c : Book(c)' = Book(c)
  BY <1>1 DEF Book
<1>11. TaskInv'
  BY <1>1, <1>9, <1>10 DEF CardsInv, TaskInv
<1>12. \A r \in Reports : Owing(r) /\ (r = h => outcome' # "PERSISTED") => Owing(r)'
  BY <1>1 DEF Owing, Unsettled
<1>13. CASE lossy' = Chats
  BY <1>13, <1>7, <1>8, <1>11, LossyForgives DEF CardsInv
<1>14. CASE queue' = queue /\ lossy' = lossy /\ ~(Known(p) /\ o = "ok")
  <2>1. \A r \in Reports : Owing(r) => Owing(r)'
    <3>1. ~Known(p) => ~Owing(h)
      BY DEF Owing
    <3>2. Known(p) => outcome' # "PERSISTED"
      BY <1>1, <1>14 DEF HandleOutcome
    <3> QED
      BY <3>1, <3>2, <1>12
  <2>2. CASE trade' = trade
    <3>1. TaskInv' /\ LagInv' /\ ShownInv'
      BY <2>1, <2>2, <1>1, <1>9, <1>14, StillOwing
    <3> QED
      BY <3>1, <1>7, <1>8 DEF CardsInv
  <2>3. CASE trade' # trade
    <3>1. Known(p) /\ o = "unreported"
      BY <2>3, <1>1, <1>14 DEF Outcomes
    <3>2. trade'.status = TradeStatusOf[p]
      BY <3>1, <2>3, <1>1, <1>3, UpsertRises
    <3>3. Owing(h)'
      <4>1. outcome' = "RETRY"
        BY <3>1, <1>1 DEF HandleOutcome, Known, TradeStatusOf
      <4> QED
        BY <4>1, <3>1, <1>1, <1>2 DEF Owing, Unsettled
    <3>4. LagInv'
      BY <3>2, <3>3, <1>1, <1>2 DEF LagInv
    <3>5. \A c \in Chats : EditDue(c) => EditDue(c)'
      BY <2>1, <1>1, <1>10, <1>14 DEF EditDue
    <3>6. ShownInv'
      BY <3>5, <1>1, <1>10, <1>14 DEF CardsInv, ShownInv
    <3> QED
      BY <3>4, <3>6, <1>7, <1>8, <1>11 DEF CardsInv
  <2> QED
    BY <2>2, <2>3
<1>15. CASE /\ Known(p) /\ o = "ok" /\ lossy' = lossy
            /\ queue' = Append(queue, trade') /\ Len(queue) < QueueSize
  <2>1. /\ Len(queue') = Len(queue) + 1 /\ Len(queue') \in DOMAIN queue' /\ queue' # <<>>
        /\ queue'[Len(queue')] = trade'
        /\ \A i \in DOMAIN queue : i \in DOMAIN queue' /\ queue'[i] = queue[i]
    <3>1. queue \in Seq(Rows)
      BY DEF CardsInv, CardTypes
    <3> QED
      BY <3>1, <1>6, <1>15
  <2>2. LagInv'
    BY <2>1 DEF LagInv, Caught
  <2>3. ASSUME NEW c \in Chats, EditDue(c)
        PROVE  EditDue(c)'
    <3>1. CASE \/ task.at \in Delivering /\ c \in task.refresh
               \/ task.at \in {"list", "targets"} /\ task.status # Book(c)
      BY <3>1, <1>1, <1>10 DEF EditDue
    <3>2. CASE \E i \in DOMAIN queue : queue[i].status # Book(c)
      BY <3>2, <2>1, <1>10 DEF EditDue
    <3>3. ASSUME NEW r \in Reports, Owing(r), TradeStatusOf[position[r]] # Book(c),
                 Rank[TradeStatusOf[position[r]]] >= Rank[Book(c)]
          PROVE  EditDue(c)'
      <4>1. CASE r # h
        BY <4>1, <3>3, <1>1, <1>10, <1>12 DEF EditDue
      <4>2. CASE r = h
        <5>1. trade'.status # Book(c)
          <6>1. CASE Book(c) \notin Statuses
            BY <6>1, <1>6, <1>15 DEF Rows
          <6>2. CASE Book(c) \in Statuses
            <7>1. \/ trade'.status = TradeStatusOf[p]
                  \/ Rank[trade'.status] > Rank[TradeStatusOf[p]] /\ trade'.status \in Statuses
              BY <1>1, <1>3, <1>15, UpsertRises DEF Rows
            <7>2. /\ Rank[Book(c)] \in Int /\ Rank[TradeStatusOf[p]] \in Int
                  /\ trade'.status \in Statuses => Rank[trade'.status] \in Int
              BY <6>2, <1>15, RankIsInt, KnownStatus
            <7> QED
              BY <7>1, <7>2, <3>3, <4>2
          <6> QED
            BY <6>1, <6>2
        <5> QED
          BY <5>1, <2>1, <1>10 DEF EditDue
      <4> QED
        BY <4>1, <4>2
    <3> QED
      BY <2>3, <3>1, <3>2, <3>3 DEF EditDue
  <2>4. ShownInv'
    BY <2>3, <1>1, <1>10, <1>15 DEF CardsInv, ShownInv
  <2> QED
    BY <2>2, <2>4, <1>7, <1>8, <1>11 DEF CardsInv
<1> QED
  BY <1>5, <1>13, <1>14, <1>15

\* A report is settled: it is done with, comes again, or is given up and with
\* it what the cards were owed.
LEMMA SettleCards ==
    ASSUME ReportsInv, CardsInv, NEW heard \in BOOLEAN, SettleCard(heard)
    PROVE  CardsInv'
<1> DEFINE h == Head(batch)
<1>1. /\ position' = position /\ stream' = stream /\ durable' = durable /\ trade' = trade /\ Reports' = Reports
      /\ pc' = "fetch" /\ outcome' = "none" /\ pc = "settle"
      /\ UNCHANGED <<subscribed, queue, task, cards, shown, tap, raced>>
      /\ SettleReport(heard)
  BY DEF SettleCard, SettleReport, Reports
<1>2. h \in Reports /\ place[h] \in {"ready", "pending"}
  BY <1>1, HeadOfBatch DEF ReportsInv, BatchInv
<1>3. /\ heard => place'[h] = Verdict(h)
      /\ ~heard => place' = place /\ durable
      /\ \A r \in Reports : r # h => place'[r] = place[r]
  BY <1>1, <1>2 DEF SettleReport, ReportsInv, ReportsTypeOK
<1>4. lossy' = Chats \/ (lossy' = lossy /\ (heard => Verdict(h) \notin {"termed", "lost"}))
  BY DEF SettleCard, AllLossy
<1>5. lossy \subseteq lossy' /\ lossy' \subseteq Chats
  BY <1>4 DEF CardsInv, CardTypes
<1>6. CardTypes' /\ OrderInv'
  BY <1>1, <1>5 DEF CardsInv, CardTypes, OrderInv
<1>7. CASE lossy' = Chats
  <2>1. \A c : Book(c)' = Book(c)
    BY <1>1 DEF Book
  <2>2. TaskInv'
    BY <2>1, <1>1, <1>5 DEF CardsInv, TaskInv
  <2> QED
    BY <2>2, <1>6, <1>7, LossyForgives DEF CardsInv
<1>8. CASE heard => Verdict(h) \notin {"termed", "lost"}
  <2>1. \A r \in Reports : Owing(r) => Owing(r)'
    <3> SUFFICES ASSUME NEW r \in Reports, Owing(r) PROVE Owing(r)'
      OBVIOUS
    <3>1. outcome \in {"PERSISTED", "UNREADABLE", "RETRY"}
      BY <1>1 DEF ReportsInv, BatchInv, ReportsTypeOK
    <3>2. stream \in BOOLEAN /\ durable \in BOOLEAN /\ (durable => stream)
      BY DEF ReportsInv, ReportsTypeOK
    <3>3. stream
      <4>1. ASSUME ~stream PROVE FALSE
        <5>1. outcome = "RETRY" /\ heard
          BY <4>1, <1>3, <3>2 DEF Owing
        <5>2. Verdict(h) = "lost"
          BY <5>1, <4>1, <3>2 DEF Verdict
        <5> QED
          BY <5>1, <5>2, <1>8
      <4> QED
        BY <4>1
    <3>4. place'[r] \in {"ready", "pending"}
      <4>1. CASE r # h
        BY <4>1, <1>3 DEF Owing, Unsettled
      <4>2. CASE r = h /\ ~heard
        BY <4>2, <1>2, <1>3
      <4>3. CASE r = h /\ heard /\ durable
        <5>1. outcome # "PERSISTED"
          BY <4>3, <1>1 DEF Owing
        <5>2. Verdict(h) \in {"termed", "lost", "ready"}
          BY <5>1, <4>3, <3>1, <3>3 DEF Verdict
        <5> QED
          BY <5>2, <4>3, <1>3, <1>8
      <4>4. CASE r = h /\ heard /\ ~durable
        <5>1. Verdict(h) = place[h]
          BY <4>4, <3>3 DEF Verdict
        <5> QED
          BY <5>1, <4>4, <1>2, <1>3
      <4> QED
        BY <4>1, <4>2, <4>3, <4>4
    <3> QED
      BY <3>3, <3>4, <1>1 DEF Owing, Unsettled
  <2>2. TaskInv' /\ LagInv' /\ ShownInv'
    BY <2>1, <1>1, <1>5, StillOwing
  <2> QED
    BY <2>2, <1>6 DEF CardsInv
<1> QED
  BY <1>4, <1>7, <1>8

\* The process ends: with nothing queued, in hand or answered RETRY, nothing
\* is lost.
LEMMA EndCards ==
    ASSUME ReportsInv, CardsInv, ProcessEnds
    PROVE  CardsInv'
<1>1. /\ position' = position /\ stream' = stream /\ durable' = durable /\ trade' = trade /\ Reports' = Reports
      /\ pc' = "down" /\ place' = Dropped
      /\ UNCHANGED <<subscribed, cards, shown, tap, raced>>
      /\ queue' = <<>> /\ task' = Idle
  BY DEF ProcessEnds, ConsumerStopped, CrashConsumer, Down, Reports
<1>2. \/ lossy' = Chats
      \/ lossy' = lossy /\ queue = <<>> /\ task.at = "idle" /\ outcome # "RETRY"
  BY DEF ProcessEnds, AllLossy
<1>3. lossy \subseteq lossy' /\ lossy' \subseteq Chats
  BY <1>2 DEF CardsInv, CardTypes
<1>4. DOMAIN queue' = {} /\ task'.at = "idle"
  BY <1>1, IdleType
<1>5. CardTypes'
  <2>1. queue' \in Seq(Rows) /\ Len(queue') <= QueueSize
    BY <1>1, CardsAssumption
  <2> QED
    BY <2>1, <1>1, <1>3, IdleType DEF CardsInv, CardTypes
<1>6. OrderInv'
  BY <1>1, <1>4 DEF CardsInv, OrderInv
<1>7. TaskInv'
  BY <1>1, <1>4 DEF TaskInv, Delivering
<1>8. CASE lossy' = Chats
  BY <1>5, <1>6, <1>7, <1>8, LossyForgives DEF CardsInv
<1>9. CASE lossy' = lossy /\ queue = <<>> /\ task.at = "idle" /\ outcome # "RETRY"
  <2>1. queue' = queue /\ task' = task
    BY <1>1, <1>9 DEF CardsInv, TaskInv
  <2>2. \A r \in Reports : Owing(r) => Owing(r)'
    <3>1. \A r \in Reports : stream => place'[r] = place[r]
      BY <1>1 DEF Dropped
    <3> QED
      BY <3>1, <1>1, <1>9 DEF Owing, Unsettled
  <2>3. TaskInv' /\ LagInv' /\ ShownInv'
    BY <2>1, <2>2, <1>1, <1>3, StillOwing
  <2> QED
    BY <2>3, <1>5, <1>6 DEF CardsInv
<1> QED
  BY <1>2, <1>8, <1>9

-----------------------------------------------------------------------------
(* The cards' invariant is inductive: the drain task.                      *)

\* An update is taken off the queue: it was the oldest.
LEMMA TakeCards ==
    ASSUME ReportsInv, CardsInv, TakeUpdate
    PROVE  CardsInv'
<1>1. /\ UNCHANGED <<subscribed, cards, shown, tap, lossy, raced>> /\ trade' = trade
      /\ position' = position /\ ReportsUntouched
      /\ task.at = "idle" /\ queue # <<>> /\ queue' = Tail(queue)
      /\ task' = [Idle EXCEPT !.at = "list", !.status = Head(queue).status]
  BY DEF TakeUpdate, reportVars, ReportsUntouched
<1>2. queue \in Seq(Rows) /\ Len(queue) <= QueueSize /\ Len(queue) \in Nat \ {0}
  BY <1>1 DEF CardsInv, CardTypes
<1>3. /\ Head(queue) = queue[1] /\ 1 \in DOMAIN queue /\ DOMAIN queue = 1..Len(queue)
      /\ queue' \in Seq(Rows) /\ Len(queue') = Len(queue) - 1 /\ DOMAIN queue' = 1..(Len(queue) - 1)
      /\ \A i \in DOMAIN queue' : i + 1 \in DOMAIN queue /\ queue'[i] = queue[i + 1]
  BY <1>1, <1>2
<1>4. queue[1].status \in Statuses
  BY <1>3, CardFacts
<1>5. task' \in TaskType /\ task'.at = "list" /\ task'.status = queue[1].status /\ task'.refresh = {}
  <2>1. task' = [Idle EXCEPT !.at = "list", !.status = queue[1].status]
    BY <1>1, <1>3
  <2>2. Idle \in TaskType /\ Idle.refresh = {}
    BY IdleType DEF Idle
  <2> QED
    BY <2>1, <2>2, <1>4 DEF TaskType, StatusOrNone
<1>6. CardTypes'
  <2>1. Len(queue') <= QueueSize
    BY <1>2, <1>3, CardsAssumption
  <2> QED
    BY <2>1, <1>1, <1>3, <1>5 DEF CardsInv, CardTypes
<1>7. TaskInv'
  BY <1>4, <1>5 DEF TaskInv, Delivering
<1>8. OrderInv'
  <2>1. \A i, j \in DOMAIN queue' :
          i <= j => Rank[queue'[i].status] <= Rank[queue'[j].status]
    BY <1>2, <1>3 DEF CardsInv, OrderInv
  <2>2. \A i \in DOMAIN queue' : trade' # NoRow /\ Rank[queue'[i].status] <= Rank[trade'.status]
    BY <1>1, <1>3 DEF CardsInv, OrderInv
  <2>3. /\ trade' # NoRow /\ Rank[task'.status] <= Rank[trade'.status]
        /\ \A i \in DOMAIN queue' : Rank[task'.status] <= Rank[queue'[i].status]
    BY <1>1, <1>2, <1>3, <1>5 DEF CardsInv, OrderInv
  <2>4. \A c \in Chats : cards'[c] # None =>
          /\ trade' # NoRow /\ Rank[cards'[c]] <= Rank[trade'.status]
          /\ Rank[cards'[c]] <= Rank[task'.status]
          /\ \A i \in DOMAIN queue' : Rank[cards'[c]] <= Rank[queue'[i].status]
    BY <1>1, <1>3, <1>5 DEF CardsInv, OrderInv
  <2>5. /\ \A c \in Chats : shown'[c] # None => trade' # NoRow
        /\ \A c \in Chats : tap'[c].kind # "none" => tap'[c].status \in Statuses /\ trade' # NoRow
    BY <1>1 DEF CardsInv, OrderInv
  <2> QED
    BY <2>1, <2>2, <2>3, <2>4, <2>5 DEF OrderInv
<1>9. \A c \in Chats : Book(c)' = cards[c] /\ Book(c) = cards[c]
  BY <1>1, <1>5 DEF Book
<1>10. LagInv'
  <2>1. \A c \in Chats : Caught(c) => Caught(c)'
    <3> SUFFICES ASSUME NEW c \in Chats, Caught(c) PROVE Caught(c)'
      OBVIOUS
    <3>1. queue[Len(queue)].status = trade.status
      BY <1>1 DEF Caught
    <3>2. CASE Len(queue) = 1
      <4>1. queue' = <<>>
        BY <3>2, <1>3
      <4> QED
        BY <4>1, <3>1, <3>2, <1>1, <1>5 DEF Caught
    <3>3. CASE Len(queue) # 1
      <4>1. queue' # <<>> /\ Len(queue') \in DOMAIN queue'
        BY <3>3, <1>2, <1>3
      <4>2. queue'[Len(queue')] = queue[Len(queue)]
        BY <4>1, <1>2, <1>3
      <4> QED
        BY <4>1, <4>2, <3>1, <1>1 DEF Caught
    <3> QED
      BY <3>2, <3>3
  <2> QED
    BY <2>1, <1>1, OwingSame DEF CardsInv, LagInv
<1>11. \A c \in Chats : EditDue(c) => EditDue(c)'
  <2> SUFFICES ASSUME NEW c \in Chats, EditDue(c) PROVE EditDue(c)'
    OBVIOUS
  <2>1. CASE \E r \in Reports :
               /\ Owing(r) /\ TradeStatusOf[position[r]] # Book(c)
               /\ Rank[TradeStatusOf[position[r]]] >= Rank[Book(c)]
    BY <2>1, <1>1, <1>9, OwingSame DEF EditDue
  <2>2. ASSUME NEW i \in DOMAIN queue, queue[i].status # Book(c)
        PROVE  EditDue(c)'
    <3>1. CASE i = 1
      BY <3>1, <2>2, <1>5, <1>9 DEF EditDue
    <3>2. CASE i # 1
      <4>1. i - 1 \in DOMAIN queue' /\ queue'[i - 1] = queue[i]
        BY <3>2, <2>2, <1>2, <1>3
      <4> QED
        BY <4>1, <2>2, <1>9 DEF EditDue
    <3> QED
      BY <3>1, <3>2
  <2> QED
    BY <2>1, <2>2, <1>1 DEF EditDue, Delivering
<1>12. ShownInv'
  BY <1>1, <1>9, <1>11 DEF CardsInv, ShownInv
<1> QED
  BY <1>6, <1>7, <1>8, <1>10, <1>12 DEF CardsInv

\* What a step of the drain task leaves in order when it only moves the task,
\* within an update or to its end.
LEMMA TaskKeepsOrder ==
    ASSUME CardsInv, trade' = trade, UNCHANGED <<queue, cards, shown, tap>>,
           task'.at = "idle" \/ (task.at # "idle" /\ task'.status = task.status)
    PROVE  OrderInv'
  BY DEF CardsInv, OrderInv

\* The cards of the trade are read.
LEMMA ListCardsCards ==
    ASSUME ReportsInv, CardsInv, NEW ok \in BOOLEAN, ListCards(ok)
    PROVE  CardsInv'
<1> DEFINE known == {c \in Chats : cards[c] # None}
           read == IF ok THEN Restrict(cards, known) ELSE <<>>
<1>1. /\ UNCHANGED <<subscribed, queue, cards, shown, tap, raced>> /\ trade' = trade
      /\ position' = position /\ ReportsUntouched
      /\ task.at = "list" /\ task' = [task EXCEPT !.at = "targets", !.existing = read]
      /\ IF ok THEN lossy' = lossy ELSE lossy' = Chats
  BY DEF ListCards, ReportsUntouched, AllLossy
<1>2. lossy \subseteq lossy' /\ lossy' \subseteq Chats
  BY <1>1 DEF CardsInv, CardTypes
<1>3. /\ ok => /\ DOMAIN read = known /\ \A c \in known : read[c] = cards[c]
               /\ read \in [known -> Statuses]
      /\ ~ok => DOMAIN read = {} /\ read \in [{} -> Statuses]
  <2>1. \A c \in known : cards[c] \in Statuses
    BY CardFacts DEF StatusOrNone
  <2> QED
    BY <2>1 DEF Restrict
<1>4. read \in UNION {[C -> Statuses] : C \in SUBSET Chats}
  <2>1. known \in SUBSET Chats /\ {} \in SUBSET Chats
    OBVIOUS
  <2> HIDE DEF known, read
  <2> QED
    BY <2>1, <1>3
<1> HIDE DEF read
<1>5. /\ task' \in TaskType /\ task'.at = "targets" /\ task'.existing = read
      /\ task'.status = task.status
  BY <1>1, <1>4 DEF CardsInv, CardTypes, TaskType
<1>6. CardTypes'
  BY <1>1, <1>2, <1>5 DEF CardsInv, CardTypes
<1>7. OrderInv'
  BY <1>1, <1>5, TaskKeepsOrder
<1>8. TaskInv'
  <2>1. task'.status \in Statuses
    BY <1>1, <1>5 DEF CardsInv, TaskInv
  <2>2. \A c \in DOMAIN read : cards[c] # None
    BY <1>3
  <2>3. \A c \in Chats \ lossy' : cards[c] # None => c \in DOMAIN read /\ read[c] = cards[c]
    BY <1>1, <1>3
  <2> QED
    BY <2>1, <2>2, <2>3, <1>1, <1>5 DEF TaskInv, Delivering
<1>9. CASE ~ok
  BY <1>1, <1>6, <1>7, <1>8, <1>9, LossyForgives DEF CardsInv
<1>10. CASE ok
  <2>1. \A c \in Chats : Book(c)' = Book(c) /\ (Caught(c) => Caught(c)')
    BY <1>1, <1>5 DEF Book, Caught
  <2>2. LagInv'
    BY <2>1, <1>1, <1>10, OwingSame DEF CardsInv, LagInv
  <2>3. \A c \in Chats : EditDue(c) => EditDue(c)'
    BY <2>1, <1>1, <1>5, OwingSame DEF EditDue, Delivering
  <2>4. ShownInv'
    BY <2>1, <2>3, <1>1, <1>10 DEF CardsInv, ShownInv
  <2> QED
    BY <2>2, <2>4, <1>6, <1>7, <1>8 DEF CardsInv
<1> QED
  BY <1>9, <1>10

\* The recipients are read and the update is split into edits and posts.
LEMMA ListTargetsCards ==
    ASSUME ReportsInv, CardsInv, NEW ok \in BOOLEAN, ListTargets(ok)
    PROVE  CardsInv'
<1> DEFINE known == DOMAIN task.existing
           edit == CardsToEdit(task.existing, task.status)
           post == IF ok THEN subscribed \ known ELSE {}
<1>1. /\ UNCHANGED <<subscribed, queue, cards, shown, tap, raced>> /\ trade' = trade
      /\ position' = position /\ ReportsUntouched
      /\ task.at = "targets"
      /\ task' = IF edit \cup post = {} THEN Idle
                 ELSE [task EXCEPT !.at = "deliver", !.refresh = edit, !.post = post]
      /\ IF ok THEN lossy' = lossy ELSE lossy' = Chats
  BY DEF ListTargets, ReportsUntouched, AllLossy
<1>2. lossy \subseteq lossy' /\ lossy' \subseteq Chats
  BY <1>1 DEF CardsInv, CardTypes
<1>3. edit \subseteq Chats /\ post \subseteq Chats
  <2>1. known \subseteq Chats
    <3>1. task.existing \in UNION {[C -> Statuses] : C \in SUBSET Chats}
      BY DEF CardsInv, CardTypes, TaskType
    <3>2. PICK C \in SUBSET Chats : task.existing \in [C -> Statuses]
      BY <3>1
    <3> QED
      BY <3>2
  <2> QED
    BY <2>1 DEF CardsToEdit, CardsInv, CardTypes
<1>4. /\ \A c \in edit : c \in known /\ task.existing[c] # task.status
      /\ \A c \in known : task.existing[c] # task.status => c \in edit
  BY DEF CardsToEdit
<1>5. /\ \A c \in known : cards[c] # None
      /\ \A c \in Chats \ lossy :
                cards[c] # None => c \in known /\ task.existing[c] = cards[c]
      /\ task.status \in Statuses
  BY <1>1 DEF CardsInv, TaskInv
<1> HIDE DEF edit, post, known
<1>6. \/ task' = Idle /\ task'.at = "idle" /\ edit = {}
      \/ task'.at = "deliver" /\ task'.status = task.status /\ task'.refresh = edit
  BY <1>1, IdleType DEF CardsInv, CardTypes, TaskType
<1>7. task' \in TaskType
  BY <1>1, <1>3, IdleType DEF CardsInv, CardTypes, TaskType
<1>8. CardTypes'
  BY <1>1, <1>2, <1>7 DEF CardsInv, CardTypes
<1>9. OrderInv'
  BY <1>1, <1>6, TaskKeepsOrder
<1>10. \A c \in Chats : Book(c)' = cards[c] /\ Book(c) = cards[c]
  BY <1>1, <1>6 DEF Book
<1>11. \A c \in Chats \ lossy : c \in edit \/ cards[c] \in {None, task.status}
  BY <1>4, <1>5
<1>12. TaskInv'
  <2>1. CASE task' = Idle /\ task'.at = "idle"
    BY <2>1 DEF TaskInv, Delivering
  <2>2. CASE task'.at = "deliver" /\ task'.status = task.status /\ task'.refresh = edit
    <3>1. \A c \in edit : cards[c] # None
      BY <1>4, <1>5
    <3>2. \A c \in Chats \ lossy' : c \in edit \/ Book(c)' \in {None, task.status}
      BY <1>2, <1>10, <1>11
    <3> QED
      BY <2>2, <3>1, <3>2, <1>1, <1>5 DEF TaskInv, Delivering
  <2> QED
    BY <2>1, <2>2, <1>6
<1>13. CASE ~ok
  BY <1>1, <1>8, <1>9, <1>12, <1>13, LossyForgives DEF CardsInv
<1>14. CASE ok
  <2>1. \A c \in Chats \ lossy : Caught(c) => Caught(c)'
    BY <1>1, <1>6, <1>11 DEF Caught
  <2>2. LagInv'
    BY <2>1, <1>1, <1>14, OwingSame DEF CardsInv, LagInv
  <2>3. \A c \in Chats \ lossy : shown[c] = Book(c) \/ EditDue(c) => shown[c] = Book(c) \/ EditDue(c)'
    <3> SUFFICES ASSUME NEW c \in Chats \ lossy, EditDue(c)
                 PROVE  shown[c] = Book(c) \/ EditDue(c)'
      BY <1>10
    <3>1. CASE task.status # Book(c)
      <4>1. CASE cards[c] = None
        BY <4>1, <1>10 DEF CardsInv, ShownInv
      <4>2. CASE cards[c] # None
        <5>1. c \in edit
          BY <3>1, <4>2, <1>10, <1>11
        <5> QED
          BY <5>1, <1>6 DEF EditDue, Delivering
      <4> QED
        BY <4>1, <4>2
    <3>2. CASE \E i \in DOMAIN queue : queue[i].status # Book(c)
      BY <3>2, <1>1, <1>10 DEF EditDue
    <3>3. CASE \E r \in Reports :
               /\ Owing(r) /\ TradeStatusOf[position[r]] # Book(c)
               /\ Rank[TradeStatusOf[position[r]]] >= Rank[Book(c)]
      BY <3>3, <1>1, <1>10, OwingSame DEF EditDue
    <3> QED
      BY <3>1, <3>2, <3>3, <1>1 DEF EditDue, Delivering
  <2>4. ShownInv'
    BY <2>3, <1>1, <1>10, <1>14 DEF CardsInv, ShownInv
  <2> QED
    BY <2>2, <2>4, <1>8, <1>9, <1>12 DEF CardsInv
<1> QED
  BY <1>13, <1>14

\* An update that raised is given up, and every card with it.
LEMMA RaisesCards ==
    ASSUME ReportsInv, CardsInv, ApplyRaises
    PROVE  CardsInv'
<1>1. /\ UNCHANGED <<subscribed, queue, cards, shown, tap, raced>> /\ trade' = trade
      /\ task' = Idle /\ task'.at = "idle" /\ lossy' = Chats
  BY IdleType DEF ApplyRaises, ReportsUntouched, AllLossy
<1>2. CardTypes'
  BY <1>1, IdleType DEF CardsInv, CardTypes
<1>3. OrderInv'
  BY <1>1, TaskKeepsOrder
<1>4. TaskInv'
  BY <1>1 DEF TaskInv, Delivering
<1> QED
  BY <1>1, <1>2, <1>3, <1>4, LossyForgives DEF CardsInv

\* The drain task is done with a chat: the update goes on, or is over.
LEMMA ChatDone ==
    ASSUME ReportsInv, CardsInv, ReportsUntouched, task.at \in Delivering,
           UNCHANGED <<subscribed, queue, shown, tap, raced>>,
           lossy \subseteq lossy', lossy' \subseteq Chats,
           NEW t \in TaskType, task' = NextChat(t), t.status = task.status,
           t.refresh \subseteq task.refresh, task.refresh \ t.refresh \subseteq lossy',
           cards' \in [Chats -> StatusOrNone],
           \A c \in Chats \ lossy' : cards'[c] = Book(c),
           \A c \in t.refresh : cards'[c] # None,
           \A c \in Chats : cards'[c] = cards[c] \/ cards'[c] \in {None, task.status}
    PROVE  CardsInv'
<1>1. /\ task' \in TaskType
      /\ \/ task' = Idle /\ task'.at = "idle" /\ t.refresh = {}
         \/ task'.at = "deliver" /\ task'.status = task.status /\ task'.refresh = t.refresh
  BY NextChatType, IdleType
<1>2. trade' = trade /\ position' = position /\ task.at # "idle" /\ task.status \in Statuses
  BY DEF ReportsUntouched, Delivering, CardsInv, TaskInv
<1>3. CardTypes'
  BY <1>1 DEF CardsInv, CardTypes
<1>4. \A c \in Chats : Book(c)' = cards'[c]
  BY <1>1 DEF Book
<1>5. \A c \in Chats \ lossy' : c \in t.refresh \/ cards'[c] \in {None, task.status}
  BY DEF CardsInv, TaskInv
<1>6. TaskInv'
  <2>1. CASE task' = Idle /\ task'.at = "idle"
    BY <2>1 DEF TaskInv, Delivering
  <2>2. CASE task'.at = "deliver" /\ task'.status = task.status /\ task'.refresh = t.refresh
    <3>1. \A c \in Chats \ lossy' : c \in t.refresh \/ Book(c)' \in {None, task.status}
      BY <1>4, <1>5
    <3> QED
      BY <2>2, <3>1, <1>2 DEF TaskInv, Delivering
  <2> QED
    BY <2>1, <2>2, <1>1
<1>7. OrderInv'
  <2>1. ASSUME NEW c \in Chats, cards'[c] # None
        PROVE  /\ trade' # NoRow /\ Rank[cards'[c]] <= Rank[trade'.status]
               /\ task'.at # "idle" => Rank[cards'[c]] <= Rank[task'.status]
               /\ \A i \in DOMAIN queue' : Rank[cards'[c]] <= Rank[queue'[i].status]
    <3>1. CASE cards'[c] = cards[c]
      BY <3>1, <2>1, <1>1, <1>2 DEF CardsInv, OrderInv
    <3>2. CASE cards'[c] = task.status
      <4>1. Rank[task.status] <= Rank[task.status]
        BY <1>2, RankIsInt
      <4> QED
        BY <4>1, <3>2, <1>1, <1>2 DEF CardsInv, OrderInv
    <3> QED
      BY <2>1, <3>1, <3>2
  <2>2. task'.at # "idle" => task'.status = task.status
    BY <1>1
  <2> QED
    BY <2>1, <2>2, <1>2 DEF CardsInv, OrderInv
<1>8. \A c \in Chats \ lossy' : Caught(c) => Caught(c)'
  BY <1>1, <1>2, <1>5 DEF Caught
<1>9. LagInv'
  BY <1>2, <1>8, OwingSame DEF CardsInv, LagInv
<1>10. ASSUME NEW c \in Chats \ lossy', EditDue(c)
       PROVE  EditDue(c)'
  <2>1. Book(c)' = Book(c)
    BY <1>4
  <2>2. CASE c \in task.refresh
    <3>1. c \in t.refresh
      BY <2>2
    <3> QED
      BY <3>1, <1>1 DEF EditDue, Delivering
  <2>3. CASE \E i \in DOMAIN queue : queue[i].status # Book(c)
    BY <2>3, <2>1 DEF EditDue
  <2>4. CASE \E r \in Reports :
               /\ Owing(r) /\ TradeStatusOf[position[r]] # Book(c)
               /\ Rank[TradeStatusOf[position[r]]] >= Rank[Book(c)]
    BY <2>4, <2>1, <1>2, OwingSame DEF EditDue
  <2> QED
    BY <1>10, <2>2, <2>3, <2>4 DEF EditDue, Delivering
<1>11. ShownInv'
  BY <1>4, <1>10 DEF CardsInv, ShownInv
<1> QED
  BY <1>3, <1>6, <1>7, <1>9, <1>11 DEF CardsInv

\* A Telegram call for chat c was accepted: the message has moved and the
\* books are about to follow.
LEMMA Accepted ==
    ASSUME ReportsInv, CardsInv, ReportsUntouched, task.at = "deliver", NEW c \in Chats,
           UNCHANGED <<subscribed, queue, cards, tap, lossy, raced>>,
           task' \in TaskType, task'.at \in {"mark", "forget", "record"}, task'.chat = c,
           task'.status = task.status, task'.refresh = task.refresh \ {c},
           task'.at = "mark" => cards[c] # None,
           shown' = [shown EXCEPT ![c] = IF task'.at = "forget" THEN None ELSE task.status]
    PROVE  CardsInv'
<1>1. trade' = trade /\ position' = position /\ task.status \in Statuses
  BY DEF ReportsUntouched, CardsInv, TaskInv
<1>2. /\ shown' \in [Chats -> StatusOrNone]
      /\ shown'[c] = IF task'.at = "forget" THEN None ELSE task.status
      /\ \A d \in Chats : d # c => shown'[d] = shown[d]
  BY <1>1 DEF CardsInv, CardTypes, StatusOrNone
<1>3. CardTypes'
  BY <1>2 DEF CardsInv, CardTypes
<1>4. /\ \A d \in Chats : Book(d) = cards[d]
      /\ \A d \in Chats : d # c => Book(d)' = cards[d]
      /\ Book(c)' = shown'[c]
  BY <1>1, <1>2 DEF Book
<1>5. TaskInv'
  <2>1. /\ \A d \in task.refresh : cards[d] # None
        /\ \A d \in Chats \ lossy : d \in task.refresh \/ Book(d) \in {None, task.status}
    BY DEF CardsInv, TaskInv, Delivering
  <2>2. \A d \in Chats \ lossy' : d \in task'.refresh \/ Book(d)' \in {None, task.status}
    BY <2>1, <1>2, <1>4
  <2>3. \A d \in task'.refresh : cards'[d] # None
    BY <2>1
  <2> QED
    BY <2>2, <2>3, <1>1 DEF TaskInv, Delivering
<1>6. OrderInv'
  <2>1. trade # NoRow
    BY DEF CardsInv, OrderInv
  <2> QED
    BY <2>1, <1>1, <1>2 DEF CardsInv, OrderInv
<1>7. \A d \in Chats : Caught(d)' = Caught(d)
  BY <1>1 DEF Caught
<1>8. LagInv'
  BY <1>1, <1>7, OwingSame DEF CardsInv, LagInv
<1>9. ASSUME NEW d \in Chats, d # c, EditDue(d)
      PROVE  EditDue(d)'
  <2>1. Book(d)' = Book(d)
    BY <1>4, <1>9
  <2>2. CASE d \in task.refresh
    BY <2>2, <1>9 DEF EditDue, Delivering
  <2>3. CASE \E i \in DOMAIN queue : queue[i].status # Book(d)
    BY <2>3, <2>1 DEF EditDue
  <2>4. CASE \E r \in Reports :
               /\ Owing(r) /\ TradeStatusOf[position[r]] # Book(d)
               /\ Rank[TradeStatusOf[position[r]]] >= Rank[Book(d)]
    BY <2>4, <2>1, <1>1, OwingSame DEF EditDue
  <2> QED
    BY <1>9, <2>2, <2>3, <2>4 DEF EditDue, Delivering
<1>10. ShownInv'
  <2>1. \A d \in Chats \ lossy : shown'[d] = None <=> Book(d)' = None
    BY <1>2, <1>4 DEF CardsInv, ShownInv
  <2>2. \A d \in Chats \ (lossy \cup raced) : shown'[d] = Book(d)' \/ EditDue(d)'
    BY <1>2, <1>4, <1>9 DEF CardsInv, ShownInv
  <2> QED
    BY <2>1, <2>2 DEF ShownInv
<1> QED
  BY <1>3, <1>5, <1>6, <1>8, <1>10 DEF CardsInv

\* edit_message.
LEMMA EditCards ==
    ASSUME ReportsInv, CardsInv, NEW c \in Chats, NEW result \in {"OK", "MISSING", "FAILED"},
           EditCard(c, result)
    PROVE  CardsInv'
<1> DEFINE left == [task EXCEPT !.refresh = @ \ {c}]
<1>1. /\ UNCHANGED <<subscribed, queue, cards, tap, raced>> /\ ReportsUntouched
      /\ task.at = "deliver" /\ c \in task.refresh
  BY DEF EditCard
<1>2. task \in TaskType /\ cards[c] # None
  BY <1>1 DEF CardsInv, CardTypes, TaskInv, Delivering
<1>3. left \in TaskType /\ left.status = task.status /\ left.refresh = task.refresh \ {c}
  BY <1>2 DEF TaskType
<1>4. \A at \in {"mark", "forget"} :
        LET u == [left EXCEPT !.at = at, !.chat = c]
        IN  /\ u \in TaskType /\ u.at = at /\ u.chat = c /\ u.status = left.status
            /\ u.refresh = left.refresh
  <2> HIDE DEF left
  <2> QED
    BY <1>3 DEF TaskType
<1>5. CASE result = "OK"
  <2>1. /\ shown' = [shown EXCEPT ![c] = task.status] /\ lossy' = lossy
        /\ task' = [left EXCEPT !.at = "mark", !.chat = c]
    BY <1>5 DEF EditCard
  <2> HIDE DEF left
  <2>2. /\ task' \in TaskType /\ task'.at = "mark" /\ task'.chat = c /\ task'.status = task.status
        /\ task'.refresh = task.refresh \ {c}
    BY <2>1, <1>3, <1>4
  <2>3. shown' = [shown EXCEPT ![c] = IF task'.at = "forget" THEN None ELSE task.status]
    BY <2>1, <2>2
  <2> QED
    BY <2>1, <2>2, <2>3, <1>1, <1>2, Accepted
<1>6. CASE result = "MISSING"
  <2>1. /\ shown' = [shown EXCEPT ![c] = None] /\ lossy' = lossy
        /\ task' = [left EXCEPT !.at = "forget", !.chat = c]
    BY <1>6 DEF EditCard
  <2> HIDE DEF left
  <2>2. /\ task' \in TaskType /\ task'.at = "forget" /\ task'.chat = c /\ task'.status = task.status
        /\ task'.refresh = task.refresh \ {c}
    BY <2>1, <1>3, <1>4
  <2>3. shown' = [shown EXCEPT ![c] = IF task'.at = "forget" THEN None ELSE task.status]
    BY <2>1, <2>2
  <2> QED
    BY <2>1, <2>2, <2>3, <1>1, <1>2, Accepted
<1>7. CASE result = "FAILED"
  <2>1. task' = NextChat(left) /\ lossy' = lossy \cup {c} /\ shown' = shown
    BY <1>7 DEF EditCard
  <2>2. /\ lossy \subseteq lossy' /\ lossy' \subseteq Chats /\ task.at \in Delivering
        /\ cards' \in [Chats -> StatusOrNone]
    BY <2>1, <1>1 DEF CardsInv, CardTypes, Delivering
  <2>3. /\ \A d \in Chats \ lossy' : cards'[d] = Book(d)
        /\ \A d \in left.refresh : cards'[d] # None
        /\ \A d \in Chats : cards'[d] = cards[d] \/ cards'[d] \in {None, task.status}
    BY <1>1, <1>3 DEF Book, CardsInv, TaskInv, Delivering
  <2>4. left.refresh \subseteq task.refresh /\ task.refresh \ left.refresh \subseteq lossy'
    BY <2>1, <1>3
  <2> HIDE DEF left
  <2> QED
    BY <2>1, <2>2, <2>3, <2>4, <1>1, <1>3, ChatDone
<1> QED
  BY <1>5, <1>6, <1>7

\* send_and_get_message_id.
LEMMA PostCards ==
    ASSUME ReportsInv, CardsInv, NEW c \in Chats, NEW ok \in BOOLEAN, PostCard(c, ok)
    PROVE  CardsInv'
<1> DEFINE left == [task EXCEPT !.post = @ \ {c}]
<1>1. /\ UNCHANGED <<subscribed, queue, cards, tap, raced>> /\ ReportsUntouched
      /\ task.at = "deliver" /\ task.refresh = {}
  BY DEF PostCard
<1>2. task \in TaskType
  BY DEF CardsInv, CardTypes
<1>3. left \in TaskType /\ left.status = task.status /\ left.refresh = {}
  BY <1>1, <1>2 DEF TaskType
<1>4. CASE ok
  <2>1. /\ shown' = [shown EXCEPT ![c] = task.status] /\ lossy' = lossy
        /\ task' = [left EXCEPT !.at = "record", !.chat = c]
    BY <1>4 DEF PostCard
  <2> HIDE DEF left
  <2>2. /\ task' \in TaskType /\ task'.at = "record" /\ task'.chat = c /\ task'.status = task.status
        /\ task'.refresh = task.refresh \ {c}
    BY <2>1, <1>1, <1>3 DEF TaskType
  <2>3. shown' = [shown EXCEPT ![c] = IF task'.at = "forget" THEN None ELSE task.status]
    BY <2>1, <2>2
  <2> QED
    BY <2>1, <2>2, <2>3, <1>1, Accepted
<1>5. CASE ~ok
  <2>1. task' = NextChat(left) /\ lossy' = lossy \cup {c} /\ shown' = shown
    BY <1>5 DEF PostCard
  <2>2. /\ lossy \subseteq lossy' /\ lossy' \subseteq Chats /\ task.at \in Delivering
        /\ cards' \in [Chats -> StatusOrNone]
    BY <2>1, <1>1 DEF CardsInv, CardTypes, Delivering
  <2>3. /\ \A d \in Chats \ lossy' : cards'[d] = Book(d)
        /\ \A d \in left.refresh : cards'[d] # None
        /\ \A d \in Chats : cards'[d] = cards[d] \/ cards'[d] \in {None, task.status}
    BY <1>1, <1>3 DEF Book
  <2>4. left.refresh \subseteq task.refresh /\ task.refresh \ left.refresh \subseteq lossy'
    BY <1>1, <1>3
  <2> HIDE DEF left
  <2> QED
    BY <2>1, <2>2, <2>3, <2>4, <1>1, <1>3, ChatDone
<1> QED
  BY <1>4, <1>5

\* mark_status, delete and record.
LEMMA BooksCards ==
    ASSUME ReportsInv, CardsInv, NEW ok \in BOOLEAN, KeepBooks(ok)
    PROVE  CardsInv'
<1> DEFINE c == task.chat
<1>1. /\ UNCHANGED <<subscribed, queue, shown, tap, raced>> /\ ReportsUntouched
      /\ task.at \in {"mark", "forget", "record"} /\ task' = NextChat(task)
      /\ ok => lossy' = lossy
      /\ ~ok => lossy' = lossy \cup {c} /\ cards' = cards
  BY DEF KeepBooks
<1>2. /\ task \in TaskType /\ c \in Chats /\ c \notin task.refresh /\ task.status \in Statuses
      /\ task.at = "mark" => cards[c] # None
      /\ cards \in [Chats -> StatusOrNone] /\ task.at \in Delivering
  BY <1>1 DEF CardsInv, CardTypes, TaskInv, Delivering
<1>3. ok => cards' = [cards EXCEPT ![c] = IF task.at = "forget" THEN None ELSE task.status]
  <2>1. ASSUME ok PROVE cards' = [cards EXCEPT ![c] = IF task.at = "forget" THEN None ELSE task.status]
    <3>1. CASE task.at = "mark"
      BY <3>1, <2>1, <1>2 DEF KeepBooks
    <3>2. CASE task.at = "forget"
      BY <3>2, <2>1 DEF KeepBooks
    <3>3. CASE task.at = "record"
      BY <3>3, <2>1 DEF KeepBooks
    <3> QED
      BY <3>1, <3>2, <3>3, <1>1
  <2> QED
    BY <2>1
<1>4. /\ cards' \in [Chats -> StatusOrNone]
      /\ \A d \in Chats : d # c => cards'[d] = cards[d]
      /\ ok => cards'[c] = IF task.at = "forget" THEN None ELSE task.status
  BY <1>1, <1>2, <1>3 DEF StatusOrNone
<1>5. lossy \subseteq lossy' /\ lossy' \subseteq Chats /\ (~ok => c \in lossy')
  BY <1>1, <1>2 DEF CardsInv, CardTypes
<1>6. \A d \in Chats \ lossy' : cards'[d] = Book(d)
  BY <1>1, <1>4, <1>5 DEF Book
<1>7. \A d \in task.refresh : cards'[d] # None
  <2>1. \A d \in task.refresh : d \in Chats /\ cards[d] # None /\ d # c
    BY <1>2, CardFacts DEF CardsInv, TaskInv
  <2> QED
    BY <2>1, <1>4
<1>8. \A d \in Chats : cards'[d] = cards[d] \/ cards'[d] \in {None, task.status}
  BY <1>1, <1>4
<1>9. task.refresh \subseteq task.refresh /\ task.refresh \ task.refresh \subseteq lossy'
  OBVIOUS
<1> QED
  BY <1>1, <1>2, <1>4, <1>5, <1>6, <1>7, <1>8, <1>9, ChatDone

-----------------------------------------------------------------------------
(* The cards' invariant is inductive: subscriptions and buttons.           *)

\* A subscription is toggled.
LEMMA ToggleCards ==
    ASSUME ReportsInv, CardsInv, NEW c \in Chats, Toggle(c)
    PROVE  CardsInv'
<1>1. /\ UNCHANGED <<queue, task, cards, shown, tap, lossy, raced>> /\ ReportsUntouched
      /\ subscribed' \subseteq Chats /\ trade' = trade /\ position' = position
  BY DEF Toggle, CardsInv, CardTypes, ReportsUntouched
<1>2. TaskInv' /\ LagInv' /\ ShownInv'
  BY <1>1, OwingSame, StillOwing
<1>3. CardTypes' /\ OrderInv'
  BY <1>1 DEF CardsInv, CardTypes, OrderInv
<1> QED
  BY <1>2, <1>3 DEF CardsInv

\* A button is tapped: the handler fetches the row.
LEMMA TapCards ==
    ASSUME ReportsInv, CardsInv, NEW c \in Chats, NEW kind \in {"view", "exit", "confirm"},
           Tap(c, kind)
    PROVE  CardsInv'
<1>1. /\ UNCHANGED <<subscribed, queue, task, cards, shown, lossy, raced>> /\ ReportsUntouched
      /\ trade' = trade /\ position' = position
      /\ tap' = [tap EXCEPT ![c] = [kind |-> kind, status |-> trade.status]]
  BY DEF Tap, ReportsUntouched
<1>2. trade # NoRow /\ trade.status \in Statuses
  BY CardFacts DEF Tap, CardsInv, OrderInv
<1>3. /\ tap' \in [Chats -> [kind: {"none", "view", "exit", "confirm"}, status: StatusOrNone]]
      /\ tap'[c].status = trade.status
      /\ \A d \in Chats : d # c => tap'[d] = tap[d]
  BY <1>1, <1>2 DEF CardsInv, CardTypes, StatusOrNone
<1>4. TaskInv' /\ LagInv' /\ ShownInv'
  BY <1>1, OwingSame, StillOwing
<1>5. CardTypes'
  BY <1>1, <1>3 DEF CardsInv, CardTypes
<1>6. OrderInv'
  BY <1>1, <1>2, <1>3 DEF CardsInv, OrderInv
<1> QED
  BY <1>4, <1>5, <1>6 DEF CardsInv

\* The exit was asked for: the row is fetched again.
LEMMA ConfirmCards ==
    ASSUME ReportsInv, CardsInv, NEW c \in Chats, ConfirmExit(c)
    PROVE  CardsInv'
<1>1. /\ UNCHANGED <<subscribed, queue, task, cards, shown, lossy, raced>> /\ ReportsUntouched
      /\ trade' = trade /\ position' = position
      /\ tap' = [tap EXCEPT ![c] = [kind |-> "view", status |-> trade.status]]
  BY DEF ConfirmExit, reportVars, ReportsUntouched
<1>2. trade # NoRow /\ trade.status \in Statuses
  BY CardFacts DEF ConfirmExit, CardsInv, OrderInv
<1>3. /\ tap' \in [Chats -> [kind: {"none", "view", "exit", "confirm"}, status: StatusOrNone]]
      /\ tap'[c].status = trade.status
      /\ \A d \in Chats : d # c => tap'[d] = tap[d]
  BY <1>1, <1>2 DEF CardsInv, CardTypes, StatusOrNone
<1>4. TaskInv' /\ LagInv' /\ ShownInv'
  BY <1>1, OwingSame, StillOwing
<1>5. CardTypes'
  BY <1>1, <1>3 DEF CardsInv, CardTypes
<1>6. OrderInv'
  BY <1>1, <1>2, <1>3 DEF CardsInv, OrderInv
<1> QED
  BY <1>4, <1>5, <1>6 DEF CardsInv

\* A message that shows the table's status agrees with the books, or an edit
\* of it is due: what the lag leaves owing is newer than the books.
LEMMA CurrentOrDue ==
    ASSUME ReportsInv, CardsInv, NEW c \in Chats \ lossy, trade # NoRow, shown[c] # None
    PROVE  trade.status = Book(c) \/ EditDue(c)
<1>1. trade.status \in Statuses
  BY CardFacts
<1>2. Book(c) # None /\ (Book(c) = cards[c] \/ (task.at # "idle" /\ Book(c) = task.status))
  BY DEF CardsInv, ShownInv, Book
<1>3. Book(c) \in Statuses /\ Rank[Book(c)] <= Rank[trade.status]
  BY <1>2, CardFacts DEF CardsInv, OrderInv, StatusOrNone, TaskInv
<1>4. CASE Caught(c)
  <2>1. CASE queue # <<>>
    <3>1. Len(queue) \in DOMAIN queue /\ queue[Len(queue)].status = trade.status
      BY <2>1, <1>4, CardFacts DEF Caught
    <3> QED
      BY <3>1 DEF EditDue
  <2>2. CASE queue = <<>> /\ task.at # "idle"
    <3>1. task.status = trade.status
      BY <2>2, <1>4 DEF Caught
    <3>2. CASE task.at \in {"list", "targets"}
      BY <3>1, <3>2 DEF EditDue
    <3>3. CASE task.at \in Delivering
      <4>1. c \in task.refresh \/ Book(c) \in {None, task.status}
        BY <3>3 DEF CardsInv, TaskInv
      <4> QED
        BY <4>1, <3>1, <3>3, <1>2 DEF EditDue
    <3>4. task.at \in {"list", "targets"} \cup Delivering
      BY <2>2 DEF CardsInv, CardTypes, TaskType, Delivering
    <3> QED
      BY <3>2, <3>3, <3>4
  <2>3. CASE queue = <<>> /\ task.at = "idle"
    BY <2>3, <1>2, <1>4 DEF Caught
  <2> QED
    BY <2>1, <2>2, <2>3
<1>5. CASE \E r \in Reports : Owing(r) /\ TradeStatusOf[position[r]] = trade.status
  <2>1. Rank[trade.status] >= Rank[Book(c)]
    BY <1>1, <1>3, RankIsInt
  <2> QED
    BY <2>1, <1>5 DEF EditDue
<1> QED
  BY <1>4, <1>5 DEF CardsInv, LagInv

\* safe_edit_text: the message shows what the handler fetched.
LEMMA RenderCards ==
    ASSUME ReportsInv, CardsInv, NEW c \in Chats, Render(c)
    PROVE  CardsInv'
<1>1. /\ UNCHANGED <<subscribed, queue, task, cards, lossy>> /\ ReportsUntouched
      /\ trade' = trade /\ position' = position
      /\ tap' = [tap EXCEPT ![c] = NoTap] /\ tap[c].kind \in {"view", "exit"}
      /\ raced' = IF tap[c].status = trade.status THEN raced ELSE raced \cup {c}
      /\ shown' = shown \/ (shown[c] # None /\ shown' = [shown EXCEPT ![c] = tap[c].status])
  BY DEF Render, reportVars, ReportsUntouched
<1>2. tap[c].status \in Statuses /\ trade # NoRow
  BY <1>1 DEF CardsInv, OrderInv
<1>3. /\ shown' \in [Chats -> StatusOrNone]
      /\ \A d \in Chats : d # c => shown'[d] = shown[d]
      /\ shown'[c] = shown[c] \/ (shown[c] # None /\ shown'[c] = tap[c].status)
  BY <1>1, <1>2 DEF CardsInv, CardTypes, StatusOrNone
<1>4. /\ raced \subseteq raced' /\ raced' \subseteq Chats
      /\ c \notin raced' => tap[c].status = trade.status
  BY <1>1 DEF CardsInv, CardTypes
<1>5. /\ tap' \in [Chats -> [kind: {"none", "view", "exit", "confirm"}, status: StatusOrNone]]
      /\ tap'[c].kind = "none" /\ \A d \in Chats : d # c => tap'[d] = tap[d]
  BY <1>1 DEF CardsInv, CardTypes, NoTap, StatusOrNone
<1>6. CardTypes'
  BY <1>1, <1>3, <1>4, <1>5 DEF CardsInv, CardTypes
<1>7. OrderInv'
  BY <1>1, <1>2, <1>3, <1>5 DEF CardsInv, OrderInv
<1>8. \A d \in Chats : Book(d)' = Book(d) /\ Caught(d)' = Caught(d)
  BY <1>1 DEF Book, Caught
<1>9. TaskInv'
  BY <1>1, <1>8 DEF CardsInv, TaskInv
<1>10. LagInv'
  BY <1>1, <1>8, OwingSame DEF CardsInv, LagInv
<1>11. \A d \in Chats : EditDue(d) => EditDue(d)'
  BY <1>1, <1>8, OwingSame DEF EditDue
<1>12. \A d \in Chats \ lossy : shown'[d] = None <=> Book(d)' = None
  <2>1. None \notin Statuses
    BY CardFacts
  <2> QED
    BY <2>1, <1>2, <1>3, <1>8 DEF CardsInv, ShownInv
<1>13. ASSUME NEW d \in Chats \ (lossy \cup raced')
       PROVE  shown'[d] = Book(d)' \/ EditDue(d)'
  <2>1. CASE shown'[d] = shown[d]
    BY <2>1, <1>4, <1>8, <1>11 DEF CardsInv, ShownInv
  <2>2. CASE d = c /\ shown[c] # None /\ shown'[c] = trade.status
    BY <2>2, <1>2, <1>8, <1>11, CurrentOrDue
  <2> QED
    BY <2>1, <2>2, <1>3, <1>4
<1>14. ShownInv'
  BY <1>1, <1>12, <1>13 DEF ShownInv
<1> QED
  BY <1>6, <1>7, <1>9, <1>10, <1>14 DEF CardsInv

\* Every step of the composition keeps the cards' invariant.
LEMMA CardsStep ==
    ASSUME ReportsInv, CardsInv, [Next]_vars
    PROVE  CardsInv'
<1>1. CASE ReportStep
  BY <1>1, ReportStepCards
<1>2. CASE \E o \in Outcomes : HandleReport(o)
  BY <1>2, HandleCards
<1>3. CASE \E heard \in BOOLEAN : SettleCard(heard)
  BY <1>3, SettleCards
<1>4. CASE ProcessEnds
  BY <1>4, EndCards
<1>5. CASE DrainStep
  BY <1>5, TakeCards, RaisesCards, ListCardsCards, ListTargetsCards, BooksCards, EditCards, PostCards
     DEF DrainStep
<1>6. CASE BotStep
  BY <1>6, ToggleCards, ConfirmCards, RenderCards, TapCards DEF BotStep
<1>7. CASE UNCHANGED vars
  <2>1. UNCHANGED cardVars /\ ReportsUntouched /\ trade' = trade /\ position' = position
    BY <1>7 DEF vars, reportVars, ReportsUntouched
  <2>2. TaskInv' /\ LagInv' /\ ShownInv'
    BY <2>1, OwingSame, StillOwing DEF cardVars
  <2>3. CardTypes' /\ OrderInv'
    BY <2>1 DEF cardVars, CardsInv, CardTypes, OrderInv
  <2> QED
    BY <2>2, <2>3 DEF CardsInv
<1> QED
  BY <1>1, <1>2, <1>3, <1>4, <1>5, <1>6, <1>7 DEF Next

-----------------------------------------------------------------------------
(* The theorems.                                                           *)

\* The inductive invariant holds in every behaviour.
THEOREM Inductive == Spec => []IInv
<1>1. Init => IInv
  BY ReportsInitInv, CardsInitInv DEF Init, IInv
<1>2. IInv /\ [Next]_vars => IInv'
  BY ReportsStep, CardsStep DEF IInv
<1> QED
  BY <1>1, <1>2, PTL DEF Spec

\* Every variable of the reports and the cards keeps its type, num_delivered
\* its bound included: a report is given up at TRADE_MAX_DELIVERIES unless a
\* fault bought it another delivery.
THEOREM TypeCorrect == Spec => []TypeOK
<1>1. IInv => TypeOK
  BY DEF IInv, ReportsInv, CardsInv, CardTypes, TypeOK
<1> QED
  BY <1>1, Inductive, PTL

\* An acked report is in the table, whatever was redelivered, reordered or
\* rolled back in between.
THEOREM AckedReportsAreApplied == Spec => []AckedIsApplied
<1>1. IInv => AckedIsApplied
  BY DEF IInv, ReportsInv, RowInv
<1> QED
  BY <1>1, Inductive, PTL

\* Once the reports are settled and the updates worked off, every card and
\* every message that missed nothing shows the trade as the table has it.
THEOREM QuietCardsCurrent == Spec => []QuietCardsAreCurrent
<1>1. IInv => QuietCardsAreCurrent
  <2> SUFFICES ASSUME IInv, queue = <<>>, task.at = "idle", \A r \in Reports : ~Unsettled(r),
                      NEW c \in Chats \ lossy
               PROVE  /\ cards[c] \in {None, trade.status}
                      /\ c \notin raced => shown[c] \in {None, trade.status}
    BY DEF QuietCardsAreCurrent
  <2>1. \A r \in Reports : ~Owing(r)
    BY DEF Owing
  <2>2. Book(c) = cards[c]
    BY DEF Book
  <2>3. cards[c] \in {None, trade.status}
    BY <2>1 DEF IInv, CardsInv, LagInv, Caught
  <2>4. ~EditDue(c)
    BY <2>1 DEF EditDue, Delivering
  <2>5. c \notin raced => shown[c] = Book(c)
    BY <2>4 DEF IInv, CardsInv, ShownInv
  <2> QED
    BY <2>2, <2>3, <2>5
<1> QED
  BY <1>1, Inductive, PTL

\* A row that is over stays over: no late, redelivered or reordered report
\* makes a CLOSED or FLAT trade run again.
THEOREM ClosedForGood == Spec => ClosedIsFinal
<1>1. ASSUME IInv, [Next]_vars
      PROVE  [trade.status \in {"CLOSED", "FLAT"} =>
                 trade'.status \in {"CLOSED", "FLAT"} /\ ~trade'.is_running]_reportVars
  <2> SUFFICES ASSUME trade.status \in {"CLOSED", "FLAT"}
               PROVE  trade'.status \in {"CLOSED", "FLAT"} /\ ~trade'.is_running
    OBVIOUS
  <2>1. trade'.status \in {"CLOSED", "FLAT"} => ~trade'.is_running
    BY <1>1, ReportsStep DEF IInv, ReportsInv, RowInv
  <2>2. CASE trade' = trade
    BY <2>1, <2>2
  <2>3. CASE trade' # trade
    <3>1. PICK o \in Outcomes : HandleReport(o)
      BY <1>1, <2>3 DEF Next, ReportStep, Publish, AckWaitExpires, Fetch, StopConsumer, StartConsumer,
         SettleCard, SettleReport, ProcessEnds, ConsumerStopped, CrashConsumer, Down, DrainStep,
         TakeUpdate, ApplyRaises, ListCards, ListTargets, KeepBooks, EditCard, PostCard, BotStep,
         Toggle, ConfirmExit, Render, Tap, ReportsUntouched, reportVars, vars
    <3>2. Known(position[Head(batch)]) /\ trade' = Upsert(trade, position[Head(batch)])
      BY <3>1, <2>3 DEF HandleReport, Handle
    <3>3. trade \in Rows \cup {NoRow} /\ trade # NoRow
      BY <1>1 DEF IInv, ReportsInv, ReportsTypeOK, NoRow
    <3>4. /\ Rank[trade'.status] >= Rank[trade.status] /\ trade'.status \in Statuses
          /\ trade.status \in Statuses
      BY <3>2, <3>3, UpsertRises DEF Rows
    <3>5. Rank[trade'.status] >= 2
      BY <3>4, RankIsInt
    <3> QED
      BY <3>4, <3>5, <2>1, RankIsInt
  <2> QED
    BY <2>2, <2>3
<1> QED
  BY <1>1, Inductive, PTL DEF Spec, ClosedIsFinal

\* A card that was closed is not reopened by the service: what it is marked
\* with is never older than what it shows.
THEOREM CardsStayClosed == Spec => CardStaysClosed
<1>1. ASSUME IInv, [Next]_vars
      PROVE  [\A c \in Chats :
                cards[c] \in {"CLOSED", "FLAT"} => cards'[c] \in {"CLOSED", "FLAT", None}]_vars
  <2> SUFFICES ASSUME NEW c \in Chats, cards[c] \in {"CLOSED", "FLAT"}
               PROVE  cards'[c] \in {"CLOSED", "FLAT", None}
    OBVIOUS
  <2>1. CASE cards' = cards
    BY <2>1
  <2>2. CASE cards' # cards
    <3>1. PICK ok \in BOOLEAN : KeepBooks(ok)
      BY <1>1, <2>2 DEF Next, ReportStep, HandleReport, SettleCard, ProcessEnds, DrainStep,
         TakeUpdate, ApplyRaises, ListCards, ListTargets, EditCard, PostCard, BotStep,
         Toggle, ConfirmExit, Render, Tap, cardVars, vars
    <3>2. /\ task.status \in Statuses /\ cards[c] \in Statuses /\ cards[c] # None
          /\ Rank[cards[c]] <= Rank[task.status] /\ cards \in [Chats -> StatusOrNone]
          /\ task.chat \in Chats
      BY <1>1, <3>1, StatusSet DEF KeepBooks, IInv, CardsInv, CardTypes, TaskInv, OrderInv, None
    <3>3. task.status \in {"CLOSED", "FLAT"}
      BY <3>2, RankIsInt
    <3>4. cards'[c] \in {cards[c], task.status, None}
      BY <3>1, <3>2 DEF KeepBooks
    <3> QED
      BY <3>3, <3>4
  <2> QED
    BY <2>1, <2>2
<1> QED
  BY <1>1, Inductive, PTL DEF Spec, CardStaysClosed

=============================================================================
