----------------------- MODULE DeferredEnqueueProofs -----------------------
(***************************************************************************)
(* Proofs about the way into the stream, for any set of alerts, any queue  *)
(* size, number of attempts and duplicate window.                          *)
(***************************************************************************)
EXTENDS DeferredEnqueue, SequenceTheorems, TLAPS

-----------------------------------------------------------------------------
(* The inductive invariant.                                                *)

IdsOf(s) == {s[i].id : i \in DOMAIN s}
Distinct(s) == \A i, j \in DOMAIN s : s[i].id = s[j].id => i = j
Unspent(s) == \A i \in DOMAIN s : s[i].attempts < MaxAttempts

\* The alerts somebody in the process still owes the stream.
Backlog == IdsOf(in_flight) \cup IdsOf(queue) \cup IdsOf(leftovers)

\* Where envelopes can be while the loop stands somewhere, and that a queued
\* or sleeping one has an attempt left.
PlaceInv ==
    /\ loop \in {"publish", "sleep"} <=> in_flight # <<>>
    /\ Running => leftovers = <<>>
    /\ ~Running => in_flight = <<>> /\ queue = <<>>
    /\ loop = "stopped" => leftovers = <<>>
    /\ Unspent(queue)
    /\ loop = "sleep" => Unspent(in_flight)

\* Each owed alert is owed once, was answered "deferred", and is not reported
\* lost.
OwnerInv ==
    /\ Distinct(queue) /\ Distinct(leftovers)
    /\ IdsOf(in_flight) \cap IdsOf(queue) = {}
    /\ \A a \in Backlog \cup lost : a \in Alerts /\ reply[a] = "deferred"
    /\ Backlog \cap lost = {}

\* The stream remembers only what it stored.
MemoryInv == \A a \in Alerts : memory[a] > 0 => copies[a] > 0

AnsweredInv ==
    \A a \in Alerts :
        /\ reply[a] = "queued" => copies[a] > 0
        /\ reply[a] = "deferred" => copies[a] > 0 \/ a \in Backlog \cup lost \cup killed

IInv == TypeOK /\ PlaceInv /\ OwnerInv /\ MemoryInv /\ AnsweredInv
-----------------------------------------------------------------------------
(* Sequences of deferred envelopes.                                        *)

\* Nothing is owed by an empty sequence.
LEMMA EmptyOwes == IdsOf(<<>>) = {} /\ Distinct(<<>>) /\ Unspent(<<>>)
  BY DEF IdsOf, Distinct, Unspent

\* One envelope owes its alert.
LEMMA SingleOwes ==
    ASSUME NEW e \in Deferred
    PROVE  /\ <<e>> \in Seq(Deferred) /\ Len(<<e>>) = 1 /\ <<e>> # <<>>
           /\ IdsOf(<<e>>) = {e.id}
           /\ Unspent(<<e>>) <=> e.attempts < MaxAttempts
<1>1. <<e>> \in Seq(Deferred) /\ Len(<<e>>) = 1 /\ <<e>> # <<>> /\ <<e>>[1] = e
      /\ DOMAIN <<e>> = {1}
  OBVIOUS
<1> HIDE DEF Deferred
<1> QED
  BY <1>1 DEF IdsOf, Unspent

\* A nonempty sequence of at most one.
LEMMA SingleForm ==
    ASSUME NEW s \in Seq(Deferred), Len(s) <= 1, s # <<>>
    PROVE  s[1] \in Deferred /\ s[1].id \in Alerts /\ s = <<s[1]>> /\ IdsOf(s) = {s[1].id}
<1>1. Len(s) = 1 /\ s[1] \in Deferred
  BY EmptySeq
<1>2. s = <<s[1]>>
  BY <1>1
<1>3. s[1].id \in Alerts
  BY <1>1 DEF Deferred
<1> QED
  BY <1>1, <1>2, <1>3, SingleOwes

\* What put_nowait does to what is owed.
LEMMA AppendOwes ==
    ASSUME NEW s \in Seq(Deferred), NEW e \in Deferred
    PROVE  /\ Append(s, e) \in Seq(Deferred) /\ Len(Append(s, e)) = Len(s) + 1
           /\ IdsOf(Append(s, e)) = IdsOf(s) \cup {e.id}
           /\ Distinct(s) /\ e.id \notin IdsOf(s) => Distinct(Append(s, e))
           /\ Unspent(s) /\ e.attempts < MaxAttempts => Unspent(Append(s, e))
<1> DEFINE t == Append(s, e)
<1>1. /\ t \in Seq(Deferred) /\ Len(t) = Len(s) + 1 /\ Len(s) \in Nat
      /\ DOMAIN s = 1..Len(s) /\ DOMAIN t = 1..(Len(s) + 1)
      /\ \A i \in 1..Len(s) : t[i] = s[i]
      /\ t[Len(s) + 1] = e
  BY AppendProperties, LenProperties
<1> HIDE DEF t
<1>2. IdsOf(t) = IdsOf(s) \cup {e.id}
  BY <1>1 DEF IdsOf
<1>3. Distinct(s) /\ e.id \notin IdsOf(s) => Distinct(t)
  BY <1>1 DEF IdsOf, Distinct
<1>4. Unspent(s) /\ e.attempts < MaxAttempts => Unspent(t)
  BY <1>1 DEF Unspent
<1> QED
  BY <1>1, <1>2, <1>3, <1>4 DEF t

\* What taking the head does.
LEMMA TailOwes ==
    ASSUME NEW s \in Seq(Deferred), s # <<>>
    PROVE  /\ Head(s) \in Deferred /\ Tail(s) \in Seq(Deferred) /\ Len(Tail(s)) = Len(s) - 1
           /\ Len(s) \in Nat
           /\ IdsOf(s) = IdsOf(Tail(s)) \cup {Head(s).id}
           /\ Distinct(s) => Distinct(Tail(s)) /\ Head(s).id \notin IdsOf(Tail(s))
           /\ Unspent(s) => Unspent(Tail(s)) /\ Head(s).attempts < MaxAttempts
<1> DEFINE t == Tail(s)
           h == Head(s)
<1>1. /\ t \in Seq(Deferred) /\ h \in Deferred /\ Len(s) \in Nat /\ Len(s) > 0
      /\ Len(t) = Len(s) - 1 /\ h = s[1]
      /\ DOMAIN s = 1..Len(s) /\ DOMAIN t = 1..(Len(s) - 1)
      /\ \A i \in 1..(Len(s) - 1) : t[i] = s[i + 1]
  BY HeadTailProperties, LenProperties, EmptySeq
<1> HIDE DEF t, h
<1>2. IdsOf(s) = IdsOf(t) \cup {h.id}
  <2>1. ASSUME NEW i \in DOMAIN s PROVE s[i].id \in IdsOf(t) \cup {h.id}
    <3>1. CASE i = 1
      BY <1>1, <3>1
    <3>2. CASE i # 1
      <4>1. i - 1 \in DOMAIN t /\ t[i - 1] = s[i]
        BY <1>1, <3>2
      <4> QED BY <4>1 DEF IdsOf
    <3> QED BY <3>1, <3>2
  <2>2. ASSUME NEW i \in DOMAIN t PROVE t[i].id \in IdsOf(s)
    <3>1. i + 1 \in DOMAIN s /\ t[i] = s[i + 1]
      BY <1>1
    <3> QED BY <3>1 DEF IdsOf
  <2>3. h.id \in IdsOf(s)
    BY <1>1 DEF IdsOf
  <2> QED BY <2>1, <2>2, <2>3 DEF IdsOf
<1>3. ASSUME Distinct(s) PROVE Distinct(t) /\ h.id \notin IdsOf(t)
  <2>1. \A i \in DOMAIN t : i \in Nat /\ i > 0 /\ i + 1 \in DOMAIN s /\ t[i] = s[i + 1]
    BY <1>1
  <2>2. 1 \in DOMAIN s /\ h = s[1]
    BY <1>1
  <2>3. Distinct(t)
    BY <1>3, <2>1 DEF Distinct
  <2>4. ASSUME NEW i \in DOMAIN t, t[i].id = h.id PROVE FALSE
    <3>1. i + 1 = 1
      BY <1>3, <2>1, <2>2, <2>4 DEF Distinct
    <3> QED BY <2>1, <3>1
  <2> QED BY <2>3, <2>4 DEF IdsOf
<1>4. Unspent(s) => Unspent(t) /\ h.attempts < MaxAttempts
  BY <1>1 DEF Unspent
<1> QED
  BY <1>1, <1>2, <1>3, <1>4 DEF t, h

\* What draining two sequences one after the other does.
LEMMA ConcatOwes ==
    ASSUME NEW s \in Seq(Deferred), NEW t \in Seq(Deferred)
    PROVE  /\ s \o t \in Seq(Deferred)
           /\ IdsOf(s \o t) = IdsOf(s) \cup IdsOf(t)
           /\ Distinct(s) /\ Distinct(t) /\ IdsOf(s) \cap IdsOf(t) = {} => Distinct(s \o t)
<1> DEFINE u == s \o t
<1>1. /\ u \in Seq(Deferred) /\ Len(s) \in Nat /\ Len(t) \in Nat
      /\ DOMAIN s = 1..Len(s) /\ DOMAIN t = 1..Len(t) /\ DOMAIN u = 1..(Len(s) + Len(t))
      /\ \A i \in 1..(Len(s) + Len(t)) : u[i] = IF i <= Len(s) THEN s[i] ELSE t[i - Len(s)]
  BY ConcatProperties, LenProperties
<1> HIDE DEF u
<1>2. \A i \in DOMAIN u : \/ i \in DOMAIN s /\ u[i] = s[i]
                          \/ i - Len(s) \in DOMAIN t /\ u[i] = t[i - Len(s)] /\ i > Len(s)
  BY <1>1
<1>3. IdsOf(u) = IdsOf(s) \cup IdsOf(t)
  <2>1. ASSUME NEW i \in DOMAIN s PROVE s[i].id \in IdsOf(u)
    BY <1>1 DEF IdsOf
  <2>2. ASSUME NEW i \in DOMAIN t PROVE t[i].id \in IdsOf(u)
    <3>1. i + Len(s) \in DOMAIN u /\ u[i + Len(s)] = t[i]
      BY <1>1
    <3> QED BY <3>1 DEF IdsOf
  <2> QED BY <1>2, <2>1, <2>2 DEF IdsOf
<1>4. ASSUME Distinct(s), Distinct(t), IdsOf(s) \cap IdsOf(t) = {}
      PROVE  Distinct(u)
  <2> SUFFICES ASSUME NEW i \in DOMAIN u, NEW j \in DOMAIN u, u[i].id = u[j].id
               PROVE  i = j
    BY DEF Distinct
  <2>1. i \in Nat /\ j \in Nat
    BY <1>1
  <2>2. CASE i \in DOMAIN s /\ u[i] = s[i] /\ j \in DOMAIN s /\ u[j] = s[j]
    BY <1>4, <2>2 DEF Distinct
  <2>3. CASE /\ i - Len(s) \in DOMAIN t /\ u[i] = t[i - Len(s)]
             /\ j - Len(s) \in DOMAIN t /\ u[j] = t[j - Len(s)]
    <3>1. i - Len(s) = j - Len(s)
      BY <1>4, <2>3 DEF Distinct
    <3> QED BY <1>1, <2>1, <3>1
  <2>4. ASSUME NEW k \in DOMAIN s, NEW l \in DOMAIN t, s[k].id = t[l].id PROVE FALSE
    BY <1>4, <2>4 DEF IdsOf
  <2> QED
    BY <1>2, <2>2, <2>3, <2>4
<1> QED
  BY <1>1, <1>3, <1>4 DEF u

\* Owed, the order stop() drains in, owes exactly the backlog.
LEMMA OwedIsBacklog ==
    ASSUME TypeOK
    PROVE  /\ OwedIds = Backlog
           /\ in_flight \o queue \in Seq(Deferred)
<1>1. /\ in_flight \in Seq(Deferred) /\ queue \in Seq(Deferred) /\ leftovers \in Seq(Deferred)
  BY DEF TypeOK
<1>2. in_flight \o queue \in Seq(Deferred)
      /\ IdsOf(in_flight \o queue) = IdsOf(in_flight) \cup IdsOf(queue)
  BY <1>1, ConcatOwes
<1>3. IdsOf((in_flight \o queue) \o leftovers) = IdsOf(in_flight \o queue) \cup IdsOf(leftovers)
  BY <1>1, <1>2, ConcatOwes
<1>4. OwedIds = IdsOf(Owed)
  BY DEF OwedIds, IdsOf
<1> QED
  BY <1>2, <1>3, <1>4 DEF Owed, Backlog
-----------------------------------------------------------------------------
(* One lemma per action.                                                   *)

\* A publish adds copies, never takes one; an acked one is in the stream.
LEMMA StoredStep ==
    ASSUME TypeOK, MemoryInv, NEW a \in Alerts, NEW o \in Outcomes, Stored(a, o)
    PROVE  /\ copies' \in [Alerts -> Nat] /\ memory' \in [Alerts -> 0..Window]
           /\ \A b \in Alerts : copies'[b] >= copies[b]
           /\ o = "acked" => copies'[a] > 0
           /\ MemoryInv'
<1>1. copies \in [Alerts -> Nat] /\ memory \in [Alerts -> 0..Window] /\ Window \in Nat
      /\ \A b \in Alerts : copies[b] \in Nat /\ memory[b] \in Nat
  BY EnqueueAssumption DEF TypeOK
<1>2. CASE o # "not_stored" /\ memory[a] = 0
  <2>1. copies' = [copies EXCEPT ![a] = copies[a] + 1] /\ memory' = [memory EXCEPT ![a] = Window]
    BY <1>2 DEF Stored
  <2> QED BY <1>1, <2>1 DEF MemoryInv
<1>3. CASE ~(o # "not_stored" /\ memory[a] = 0)
  <2>1. copies' = copies /\ memory' = memory
    BY <1>3 DEF Stored
  <2>2. o = "acked" => memory[a] > 0
    BY <1>1, <1>3
  <2> QED BY <1>1, <2>1, <2>2 DEF MemoryInv
<1> QED
  BY <1>2, <1>3

\* A publish that is not made changes nothing.
LEMMA NotStoredStep ==
    ASSUME TypeOK, MemoryInv, UNCHANGED <<copies, memory>>
    PROVE  /\ copies' \in [Alerts -> Nat] /\ memory' \in [Alerts -> 0..Window]
           /\ \A b \in Alerts : copies'[b] >= copies[b]
           /\ MemoryInv'
  BY DEF TypeOK, MemoryInv

\* Answers stay kept while copies stay and nobody vanishes.
LEMMA AnsweredFrame ==
    ASSUME TypeOK, AnsweredInv, copies' \in [Alerts -> Nat],
           \A b \in Alerts : copies'[b] >= copies[b],
           reply' = reply,
           \A b \in Backlog \cup lost \cup killed :
              b \in Backlog' \cup lost' \cup killed' \/ (b \in Alerts /\ copies'[b] > 0)
    PROVE  AnsweredInv'
<1> SUFFICES ASSUME NEW a \in Alerts
             PROVE  /\ reply[a] = "queued" => copies'[a] > 0
                    /\ reply[a] = "deferred"
                         => copies'[a] > 0 \/ a \in Backlog' \cup lost' \cup killed'
  BY DEF AnsweredInv
<1>1. copies[a] \in Nat /\ copies'[a] \in Nat /\ copies'[a] >= copies[a]
  BY DEF TypeOK
<1>2. copies[a] > 0 => copies'[a] > 0
  BY <1>1
<1> QED
  BY <1>2 DEF AnsweredInv

\* A refused token is answered and that is all.
LEMMA UnauthorizedStep ==
    ASSUME IInv, NEW a \in Alerts, Unauthorized(a)
    PROVE  IInv'
<1> USE DEF IInv
<1>1. UNCHANGED <<copies, memory, queue, in_flight, leftovers, loop, lost, killed>>
      /\ reply[a] = "none" /\ reply' = [reply EXCEPT ![a] = "401"]
  BY DEF Unauthorized
<1>2. TypeOK'
  BY <1>1 DEF TypeOK
<1>3. PlaceInv' /\ MemoryInv' /\ Backlog' = Backlog
  BY <1>1 DEF PlaceInv, MemoryInv, Running, Unspent, Backlog, IdsOf
<1>4. OwnerInv'
  <2>1. \A b \in Backlog \cup lost : b \in Alerts /\ reply'[b] = "deferred"
    BY <1>1 DEF OwnerInv, TypeOK
  <2> QED BY <1>1, <1>3, <2>1 DEF OwnerInv
<1>5. AnsweredInv'
  BY <1>1, <1>3 DEF AnsweredInv, TypeOK
<1> QED
  BY <1>2, <1>3, <1>4, <1>5

\* The webhook's publish, and what it defers.
LEMMA EnqueueStep ==
    ASSUME IInv, NEW a \in Alerts, NEW o \in Outcomes, Enqueue(a, o)
    PROVE  IInv'
<1> USE DEF IInv
<1> DEFINE e == [id |-> a, attempts |-> 0]
<1>0. e \in Deferred /\ e.id = a /\ e.attempts < MaxAttempts
  BY EnqueueAssumption DEF Deferred
<1> HIDE DEF e
<1>1. UNCHANGED <<in_flight, leftovers, loop, lost, killed>> /\ Running /\ reply[a] = "none"
      /\ Stored(a, o)
  BY DEF Enqueue
<1>2. /\ copies' \in [Alerts -> Nat] /\ memory' \in [Alerts -> 0..Window]
      /\ \A b \in Alerts : copies'[b] >= copies[b] /\ copies[b] \in Nat /\ copies'[b] \in Nat
      /\ o = "acked" => copies'[a] > 0
      /\ MemoryInv'
  BY <1>1, StoredStep DEF TypeOK
<1>3. a \notin Backlog \cup lost
  BY <1>1 DEF OwnerInv
<1>4. CASE o = "acked" \/ ~(Len(queue) < QueueSize)
  <2>1. queue' = queue /\ \E r \in {"queued", "503"} :
            reply' = [reply EXCEPT ![a] = r] /\ (r = "queued" => copies'[a] > 0)
    BY <1>2, <1>4 DEF Enqueue, Submit
  <2>2. PICK r \in {"queued", "503"} :
            reply' = [reply EXCEPT ![a] = r] /\ (r = "queued" => copies'[a] > 0)
    BY <2>1
  <2>3. TypeOK'
    BY <1>1, <1>2, <2>1, <2>2 DEF TypeOK
  <2>4. PlaceInv' /\ Backlog' = Backlog
    BY <1>1, <2>1 DEF PlaceInv, Running, Unspent, Backlog, IdsOf
  <2>5. OwnerInv'
    <3>1. \A b \in Backlog \cup lost : b \in Alerts /\ reply'[b] = "deferred"
      BY <1>3, <2>2 DEF OwnerInv, TypeOK
    <3> QED BY <1>1, <2>1, <2>4, <3>1 DEF OwnerInv
  <2>6. AnsweredInv'
    <3>1. \A b \in Alerts : reply'[b] = IF b = a THEN r ELSE reply[b]
      BY <2>2 DEF TypeOK
    <3> QED BY <1>1, <1>2, <2>2, <2>4, <3>1 DEF AnsweredInv
  <2> QED BY <1>2, <2>3, <2>4, <2>5, <2>6
<1>5. CASE o # "acked" /\ Len(queue) < QueueSize
  <2>1. queue' = Append(queue, e) /\ reply' = [reply EXCEPT ![a] = "deferred"]
    BY <1>5 DEF Enqueue, Submit, e
  <2>2. queue \in Seq(Deferred) /\ Len(queue) \in Nat /\ QueueSize \in Nat
    BY EnqueueAssumption DEF TypeOK
  <2>3. /\ queue' \in Seq(Deferred) /\ Len(queue') = Len(queue) + 1
        /\ IdsOf(queue') = IdsOf(queue) \cup {a}
        /\ Distinct(queue) /\ a \notin IdsOf(queue) => Distinct(queue')
        /\ Unspent(queue) => Unspent(queue')
    BY <1>0, <2>1, <2>2, AppendOwes
  <2>4. TypeOK'
    BY <1>1, <1>2, <1>5, <2>1, <2>2, <2>3 DEF TypeOK
  <2>5. PlaceInv'
    BY <1>1, <2>3 DEF PlaceInv, Running, Unspent
  <2>6. Backlog' = Backlog \cup {a}
    BY <1>1, <2>3 DEF Backlog, IdsOf
  <2>7. \A b \in Alerts : reply'[b] = IF b = a THEN "deferred" ELSE reply[b]
    BY <2>1 DEF TypeOK
  <2>8. OwnerInv'
    <3>1. Distinct(queue') /\ Distinct(leftovers')
      BY <1>1, <1>3, <2>3 DEF OwnerInv, Backlog, Distinct
    <3>2. IdsOf(in_flight') \cap IdsOf(queue') = {}
      BY <1>1, <1>3, <2>3 DEF OwnerInv, Backlog
    <3>3. \A b \in Backlog' \cup lost' : b \in Alerts /\ reply'[b] = "deferred"
      BY <1>1, <2>6, <2>7 DEF OwnerInv
    <3>4. Backlog' \cap lost' = {}
      BY <1>1, <1>3, <2>6 DEF OwnerInv
    <3> QED BY <3>1, <3>2, <3>3, <3>4 DEF OwnerInv
  <2>9. AnsweredInv'
    BY <1>1, <1>2, <2>6, <2>7 DEF AnsweredInv
  <2> QED BY <1>2, <2>4, <2>5, <2>8, <2>9
<1> QED
  BY <1>4, <1>5

\* The loop takes an envelope with an attempt left and counts the attempt.
LEMMA GetStep ==
    ASSUME IInv, Get
    PROVE  IInv'
<1> USE DEF IInv
<1> DEFINE h == Head(queue)
           e == Attempted(h)
<1>1. /\ loop = "get" /\ queue # <<>> /\ queue' = Tail(queue) /\ in_flight' = <<e>>
      /\ loop' = "publish" /\ UNCHANGED <<reply, copies, memory, leftovers, lost, killed>>
  BY DEF Get
<1>2. queue \in Seq(Deferred) /\ in_flight = <<>>
  BY <1>1 DEF TypeOK, PlaceInv
<1>3. /\ h \in Deferred /\ queue' \in Seq(Deferred) /\ Len(queue') = Len(queue) - 1
      /\ Len(queue) \in Nat
      /\ IdsOf(queue) = IdsOf(queue') \cup {h.id}
      /\ Distinct(queue') /\ h.id \notin IdsOf(queue')
      /\ Unspent(queue') /\ h.attempts < MaxAttempts
  BY <1>1, <1>2, TailOwes DEF OwnerInv, PlaceInv
<1>4. e \in Deferred /\ e.id = h.id
  <2>1. h.attempts \in Nat /\ h.attempts + 1 \in 0..MaxAttempts /\ h.id \in Alerts
    BY <1>3, EnqueueAssumption DEF Deferred
  <2> HIDE DEF h
  <2> QED BY <1>3, <2>1 DEF Attempted, Deferred
<1> HIDE DEF e, h
<1>5. in_flight' \in Seq(Deferred) /\ Len(in_flight') = 1 /\ in_flight' # <<>>
      /\ IdsOf(in_flight') = {h.id}
  BY <1>1, <1>4, SingleOwes
<1>6. TypeOK'
  BY <1>1, <1>3, <1>5, EnqueueAssumption DEF TypeOK
<1>7. PlaceInv'
  BY <1>1, <1>3, <1>5 DEF PlaceInv, Running
<1>8. Backlog' = Backlog
  BY <1>1, <1>2, <1>3, <1>5, EmptyOwes DEF Backlog
<1>9. OwnerInv'
  BY <1>1, <1>3, <1>5, <1>8 DEF OwnerInv, Distinct
<1>10. MemoryInv' /\ AnsweredInv'
  BY <1>1, <1>8 DEF MemoryInv, AnsweredInv
<1> QED
  BY <1>6, <1>7, <1>9, <1>10

\* An attempt ends: acked, given up, or kept for another one.
LEMMA AttemptStep ==
    ASSUME IInv, NEW o \in Outcomes, Attempt(o)
    PROVE  IInv'
<1> USE DEF IInv
<1> DEFINE e == in_flight[1]
<1>1. /\ loop = "publish" /\ Stored(e.id, o)
      /\ UNCHANGED <<reply, queue, leftovers, killed>>
  BY DEF Attempt
<1>2. in_flight \in Seq(Deferred) /\ Len(in_flight) <= 1 /\ in_flight # <<>>
  BY <1>1 DEF TypeOK, PlaceInv
<1>3. e \in Deferred /\ e.id \in Alerts /\ in_flight = <<e>> /\ IdsOf(in_flight) = {e.id}
  BY <1>2, SingleForm
<1> HIDE DEF e
<1>4. /\ copies' \in [Alerts -> Nat] /\ memory' \in [Alerts -> 0..Window]
      /\ \A b \in Alerts : copies'[b] >= copies[b]
      /\ o = "acked" => copies'[e.id] > 0
      /\ MemoryInv'
  BY <1>1, <1>3, StoredStep
<1>5. CASE in_flight' = <<>>
  <2>1. /\ loop' = "get"
        /\ \/ lost' = lost /\ copies'[e.id] > 0
           \/ lost' = lost \cup {e.id}
    BY <1>2, <1>4, <1>5 DEF Attempt, e
  <2>2. TypeOK'
    BY <1>1, <1>3, <1>4, <1>5, <2>1 DEF TypeOK
  <2>3. PlaceInv'
    BY <1>1, <1>5, <2>1 DEF PlaceInv, Running
  <2>4. Backlog = Backlog' \cup {e.id} /\ e.id \notin Backlog'
    <3>1. leftovers = <<>> /\ IdsOf(leftovers) = {} /\ IdsOf(in_flight') = {}
      BY <1>1, <1>5, EmptyOwes DEF PlaceInv, Running
    <3> QED BY <1>1, <1>3, <3>1 DEF Backlog, OwnerInv
  <2>5. OwnerInv'
    <3>1. IdsOf(in_flight') = {}
      BY <1>5, EmptyOwes
    <3> QED BY <1>1, <2>1, <2>4, <3>1 DEF OwnerInv
  <2>6. AnsweredInv'
    BY <1>1, <1>3, <1>4, <2>1, <2>4, AnsweredFrame
  <2> QED BY <1>4, <2>2, <2>3, <2>5, <2>6
<1>6. CASE in_flight' # <<>>
  <2>1. in_flight' = in_flight /\ lost' = lost /\ loop' = "sleep" /\ ~Exhausted(e)
    BY <1>6 DEF Attempt, e
  <2>2. Unspent(in_flight)
    <3>1. e.attempts < MaxAttempts
      BY <1>3, <2>1, EnqueueAssumption DEF Exhausted, Deferred
    <3> QED BY <1>3, <3>1, SingleOwes
  <2>3. TypeOK'
    BY <1>1, <1>4, <2>1 DEF TypeOK
  <2>4. PlaceInv' /\ Backlog' = Backlog
    BY <1>1, <1>2, <2>1, <2>2 DEF PlaceInv, Running, Backlog
  <2>5. OwnerInv'
    BY <1>1, <2>1, <2>4 DEF OwnerInv
  <2>6. AnsweredInv'
    BY <1>1, <1>4, <2>1, <2>4, AnsweredFrame
  <2> QED BY <1>4, <2>3, <2>4, <2>5, <2>6
<1> QED
  BY <1>5, <1>6

\* A tick forgets, and forgets nothing that was stored.
LEMMA TickStep ==
    ASSUME TypeOK, MemoryInv, Tick, copies' = copies
    PROVE  memory' \in [Alerts -> 0..Window] /\ MemoryInv'
<1>1. \A a \in Alerts : memory[a] \in 0..Window /\ memory'[a] = IF memory[a] = 0 THEN 0 ELSE memory[a] - 1
  BY DEF TypeOK, Tick
<1>2. \A a \in Alerts : memory'[a] \in 0..Window /\ memory'[a] <= memory[a]
  BY <1>1, EnqueueAssumption
<1>3. memory' = [a \in Alerts |-> memory'[a]]
  BY DEF Tick
<1>4. memory' \in [Alerts -> 0..Window]
  BY <1>2, <1>3
<1>5. \A a \in Alerts : memory'[a] > 0 => memory[a] > 0
  BY <1>1, <1>2, EnqueueAssumption
<1> QED
  BY <1>4, <1>5 DEF MemoryInv

\* The interval is over: back into the queue, or reported lost.
LEMMA RequeueStep ==
    ASSUME IInv, Requeue
    PROVE  IInv'
<1> USE DEF IInv
<1> DEFINE e == in_flight[1]
<1>1. /\ loop = "sleep" /\ loop' = "get" /\ Tick /\ in_flight' = <<>>
      /\ UNCHANGED <<reply, copies, leftovers, killed>>
  BY DEF Requeue, Requeued
<1>2. /\ in_flight \in Seq(Deferred) /\ Len(in_flight) <= 1 /\ in_flight # <<>>
      /\ Unspent(in_flight) /\ leftovers = <<>> /\ queue \in Seq(Deferred)
  BY <1>1 DEF TypeOK, PlaceInv, Running
<1>3. e \in Deferred /\ e.id \in Alerts /\ in_flight = <<e>> /\ IdsOf(in_flight) = {e.id}
  BY <1>2, SingleForm
<1>4. e.attempts < MaxAttempts
  <2> HIDE DEF e
  <2> QED BY <1>2, <1>3, SingleOwes
<1>5. memory' \in [Alerts -> 0..Window] /\ MemoryInv'
  BY <1>1, TickStep
<1>6. IdsOf(in_flight') = {} /\ IdsOf(leftovers) = {}
  BY <1>1, <1>2, EmptyOwes
<1>7. \/ /\ queue' = Append(queue, e) /\ Len(queue) < QueueSize /\ lost' = lost
      \/ /\ queue' = queue /\ lost' = lost \cup {e.id}
  BY DEF Requeue, Requeued
<1> HIDE DEF e
<1>8. CASE queue' = Append(queue, e) /\ Len(queue) < QueueSize /\ lost' = lost
  <2>1. /\ queue' \in Seq(Deferred) /\ Len(queue') = Len(queue) + 1
        /\ IdsOf(queue') = IdsOf(queue) \cup {e.id}
        /\ Distinct(queue) /\ e.id \notin IdsOf(queue) => Distinct(queue')
        /\ Unspent(queue')
    BY <1>2, <1>3, <1>4, <1>8, AppendOwes DEF PlaceInv
  <2>2. TypeOK'
    <3>1. Len(queue') <= QueueSize
      BY <1>2, <1>8, <2>1, EnqueueAssumption
    <3> QED BY <1>1, <1>5, <1>8, <2>1, <3>1 DEF TypeOK
  <2>3. PlaceInv'
    BY <1>1, <1>2, <2>1 DEF PlaceInv, Running
  <2>4. Backlog' = Backlog
    BY <1>1, <1>3, <1>6, <2>1 DEF Backlog
  <2>5. OwnerInv'
    BY <1>1, <1>3, <1>6, <1>8, <2>1, <2>4 DEF OwnerInv
  <2>6. AnsweredInv'
    BY <1>1, <1>8, <2>4 DEF AnsweredInv
  <2> QED BY <1>5, <2>2, <2>3, <2>5, <2>6
<1>9. CASE queue' = queue /\ lost' = lost \cup {e.id}
  <2>1. TypeOK'
    BY <1>1, <1>3, <1>5, <1>9 DEF TypeOK
  <2>2. PlaceInv'
    BY <1>1, <1>2, <1>9 DEF PlaceInv, Running
  <2>3. Backlog = Backlog' \cup {e.id} /\ e.id \notin Backlog'
    BY <1>1, <1>3, <1>6, <1>9 DEF Backlog, OwnerInv
  <2>4. OwnerInv'
    BY <1>1, <1>6, <1>9, <2>3 DEF OwnerInv
  <2>5. AnsweredInv'
    BY <1>1, <1>9, <2>3 DEF AnsweredInv
  <2> QED BY <1>5, <2>1, <2>2, <2>4, <2>5
<1> QED
  BY <1>7, <1>8, <1>9

\* A publish cut off by a cancellation may have landed; nothing is taken away.
LEMMA CutOffStep ==
    ASSUME IInv, NEW b \in BOOLEAN, CutOff(b)
    PROVE  /\ copies' \in [Alerts -> Nat] /\ memory' \in [Alerts -> 0..Window]
           /\ \A c \in Alerts : copies'[c] >= copies[c]
           /\ MemoryInv'
<1>1. CASE b
  <2>1. loop = "publish" /\ Stored(in_flight[1].id, "unacked")
    BY <1>1 DEF CutOff
  <2>2. in_flight \in Seq(Deferred) /\ Len(in_flight) <= 1 /\ in_flight # <<>>
    BY <2>1 DEF IInv, TypeOK, PlaceInv
  <2>3. in_flight[1].id \in Alerts
    BY <2>2, SingleForm
  <2>4. "unacked" \in Outcomes /\ TypeOK /\ MemoryInv
    BY DEF Outcomes, IInv
  <2> QED BY <2>1, <2>3, <2>4, StoredStep
<1>2. CASE ~b
  BY <1>2, NotStoredStep DEF CutOff, IInv
<1> QED
  BY <1>1, <1>2

\* stop() hands the envelope in flight and the queue over to the drain.
LEMMA StopLemma ==
    ASSUME IInv, NEW b \in BOOLEAN, Stop(b)
    PROVE  IInv'
<1> USE DEF IInv
<1>1. /\ Running /\ CutOff(b) /\ leftovers' = in_flight \o queue /\ in_flight' = <<>>
      /\ queue' = <<>> /\ loop' = "drain" /\ UNCHANGED <<reply, lost, killed>>
  BY DEF Stop, Leftovers
<1>2. /\ copies' \in [Alerts -> Nat] /\ memory' \in [Alerts -> 0..Window]
      /\ \A c \in Alerts : copies'[c] >= copies[c]
      /\ MemoryInv'
  BY <1>1, CutOffStep
<1>3. in_flight \in Seq(Deferred) /\ queue \in Seq(Deferred) /\ leftovers = <<>>
      /\ Len(in_flight) <= 1
  BY <1>1 DEF TypeOK, PlaceInv
<1>4. Distinct(in_flight)
  BY <1>3 DEF Distinct
<1>5. /\ leftovers' \in Seq(Deferred)
      /\ IdsOf(leftovers') = IdsOf(in_flight) \cup IdsOf(queue)
      /\ Distinct(leftovers')
  BY <1>1, <1>3, <1>4, ConcatOwes DEF OwnerInv
<1>6. IdsOf(in_flight') = {} /\ IdsOf(queue') = {} /\ IdsOf(leftovers) = {}
      /\ Distinct(queue') /\ Unspent(queue')
  BY <1>1, <1>3, EmptyOwes
<1>7. TypeOK'
  BY <1>1, <1>2, <1>5, EnqueueAssumption DEF TypeOK
<1>8. PlaceInv'
  BY <1>1, <1>6 DEF PlaceInv, Running
<1>9. Backlog' = Backlog
  BY <1>5, <1>6 DEF Backlog
<1>10. OwnerInv'
  BY <1>1, <1>5, <1>6, <1>9 DEF OwnerInv
<1>11. AnsweredInv'
  BY <1>1, <1>2, <1>9, AnsweredFrame
<1> QED
  BY <1>2, <1>7, <1>8, <1>10, <1>11

\* One item of the drain: in the stream, or reported lost.
LEMMA DrainStep ==
    ASSUME IInv, NEW o \in Outcomes, NEW b \in BOOLEAN, Drain(o, b)
    PROVE  IInv'
<1> USE DEF IInv
<1> DEFINE h == Head(leftovers)
<1>1. /\ loop = "drain" /\ leftovers # <<>> /\ leftovers' = Tail(leftovers)
      /\ UNCHANGED <<reply, queue, in_flight, loop, killed>>
  BY DEF Drain
<1>2. leftovers \in Seq(Deferred) /\ in_flight = <<>> /\ queue = <<>>
  BY <1>1 DEF TypeOK, PlaceInv, Running
<1>3. /\ h \in Deferred /\ leftovers' \in Seq(Deferred)
      /\ IdsOf(leftovers) = IdsOf(leftovers') \cup {h.id}
      /\ Distinct(leftovers') /\ h.id \notin IdsOf(leftovers')
  BY <1>1, <1>2, TailOwes DEF OwnerInv
<1>4. h.id \in Alerts
  BY <1>3 DEF Deferred
<1>5. /\ (b /\ UNCHANGED <<copies, memory>>) \/ (~b /\ Stored(h.id, o))
      /\ lost' = IF b \/ o # "acked" THEN lost \cup {h.id} ELSE lost
  BY DEF Drain
<1> HIDE DEF h
<1>6. /\ copies' \in [Alerts -> Nat] /\ memory' \in [Alerts -> 0..Window]
      /\ \A c \in Alerts : copies'[c] >= copies[c]
      /\ MemoryInv'
      /\ lost' = lost \cup {h.id} \/ (lost' = lost /\ copies'[h.id] > 0)
  BY <1>4, <1>5, StoredStep, NotStoredStep
<1>7. TypeOK'
  BY <1>1, <1>3, <1>4, <1>6 DEF TypeOK
<1>8. PlaceInv'
  BY <1>1, <1>2 DEF PlaceInv, Running
<1>9. Backlog = Backlog' \cup {h.id} /\ h.id \notin Backlog'
  <2>1. IdsOf(in_flight) = {} /\ IdsOf(queue) = {}
    BY <1>2, EmptyOwes
  <2> QED BY <1>1, <1>3, <2>1 DEF Backlog
<1>10. OwnerInv'
  BY <1>1, <1>3, <1>6, <1>9 DEF OwnerInv
<1>11. AnsweredInv'
  BY <1>1, <1>4, <1>6, <1>9, AnsweredFrame
<1> QED
  BY <1>6, <1>7, <1>8, <1>10, <1>11

\* The end of the drain, and the next start.
LEMMA StoppedStartStep ==
    ASSUME IInv, Stopped \/ Start
    PROVE  IInv'
<1> USE DEF IInv
<1>1. UNCHANGED <<reply, copies, memory, queue, in_flight, leftovers, lost, killed>>
      /\ \/ loop = "drain" /\ leftovers = <<>> /\ loop' = "stopped"
         \/ loop = "stopped" /\ loop' = "get"
  BY DEF Stopped, Start
<1>2. TypeOK'
  BY <1>1 DEF TypeOK
<1>3. PlaceInv' /\ MemoryInv' /\ Backlog' = Backlog
  BY <1>1 DEF PlaceInv, MemoryInv, Running, Backlog
<1>4. OwnerInv' /\ AnsweredInv'
  BY <1>1, <1>3 DEF OwnerInv, AnsweredInv
<1> QED
  BY <1>2, <1>3, <1>4

\* The process dies and the backlog with it.
LEMMA CrashStep ==
    ASSUME IInv, NEW b \in BOOLEAN, Crash(b)
    PROVE  IInv'
<1> USE DEF IInv
<1>1. /\ CutOff(b) /\ killed' = killed \cup OwedIds /\ queue' = <<>> /\ in_flight' = <<>>
      /\ leftovers' = <<>> /\ loop' = "stopped" /\ UNCHANGED <<reply, lost>>
  BY DEF Crash
<1>2. /\ copies' \in [Alerts -> Nat] /\ memory' \in [Alerts -> 0..Window]
      /\ \A c \in Alerts : copies'[c] >= copies[c]
      /\ MemoryInv'
  BY <1>1, CutOffStep
<1>3. killed' = killed \cup Backlog
  BY <1>1, OwedIsBacklog
<1>4. IdsOf(in_flight') = {} /\ IdsOf(queue') = {} /\ IdsOf(leftovers') = {} /\ Backlog' = {}
      /\ Distinct(queue') /\ Unspent(queue') /\ Distinct(leftovers')
  BY <1>1, EmptyOwes DEF Backlog
<1>5. TypeOK'
  <2>1. killed' \subseteq Alerts
    BY <1>3 DEF TypeOK, OwnerInv
  <2> QED BY <1>1, <1>2, <2>1, EnqueueAssumption DEF TypeOK
<1>6. PlaceInv'
  BY <1>1, <1>4 DEF PlaceInv, Running
<1>7. OwnerInv'
  BY <1>1, <1>4 DEF OwnerInv
<1>8. AnsweredInv'
  BY <1>1, <1>2, <1>3, AnsweredFrame
<1> QED
  BY <1>2, <1>5, <1>6, <1>7, <1>8
-----------------------------------------------------------------------------
(* Theorems.                                                               *)

\* Nothing is owed at the start.
LEMMA InitIInv == Init => IInv
<1> SUFFICES ASSUME Init PROVE IInv
  OBVIOUS
<1>1. TypeOK
  BY EnqueueAssumption DEF Init, TypeOK
<1>2. PlaceInv /\ Backlog = {}
  BY EmptyOwes DEF Init, PlaceInv, Running, Backlog
<1>3. OwnerInv
  BY <1>2, EmptyOwes DEF Init, OwnerInv
<1>4. MemoryInv /\ AnsweredInv
  BY DEF Init, MemoryInv, AnsweredInv
<1> QED
  BY <1>1, <1>2, <1>3, <1>4 DEF IInv

\* Every step keeps the invariant.
LEMMA NextIInv == IInv /\ [Next]_vars => IInv'
<1> SUFFICES ASSUME IInv, [Next]_vars PROVE IInv'
  OBVIOUS
<1>1. CASE Next
  BY <1>1, UnauthorizedStep, EnqueueStep, GetStep, AttemptStep, RequeueStep, StopLemma,
     CrashStep, DrainStep, StoppedStartStep DEF Next, LoopStep, StopStep
<1>2. CASE UNCHANGED vars
  <2>1. Backlog' = Backlog
    BY <1>2 DEF vars, Backlog
  <2> QED
    BY <1>2, <2>1 DEF vars, IInv, TypeOK, PlaceInv, OwnerInv, MemoryInv, AnsweredInv, Running
<1> QED
  BY <1>1, <1>2

\* The inductive invariant holds throughout every behaviour.
THEOREM Inductive == Spec => []IInv
  BY InitIInv, NextIInv, PTL DEF Spec

\* The variables keep their types: the queue never outgrows its bound and no
\* envelope is tried more often than configured.
THEOREM TypeCorrect == Spec => []TypeOK
<1>1. IInv => TypeOK
  BY DEF IInv
<1> QED
  BY <1>1, Inductive, PTL

\* Every 202 is kept: the alert is in the stream, owed, reported lost, or died
\* with a killed process; an orderly shutdown loses none in silence.
THEOREM Accounted == Spec => []AcceptedIsAccounted
<1>1. IInv => AcceptedIsAccounted
  BY OwedIsBacklog DEF IInv, AnsweredInv, AcceptedIsAccounted
<1> QED
  BY <1>1, Inductive, PTL

\* No alert is owed in two places, and none that was reported lost is still
\* tried.
THEOREM SingleDebt == Spec => []OwedOnce
<1>1. ASSUME IInv PROVE OwedOnce
  <2>1. OwedIds = Backlog /\ in_flight \o queue \in Seq(Deferred)
    BY <1>1, OwedIsBacklog DEF IInv
  <2>2. OwedIds \cap lost = {}
    BY <1>1, <2>1 DEF IInv, OwnerInv
  <2>3. /\ in_flight \in Seq(Deferred) /\ queue \in Seq(Deferred) /\ leftovers \in Seq(Deferred)
        /\ Len(in_flight) <= 1
    BY <1>1 DEF IInv, TypeOK
  <2>4. Distinct(in_flight) /\ Distinct(queue) /\ Distinct(leftovers)
        /\ IdsOf(in_flight) \cap IdsOf(queue) = {}
    BY <1>1, <2>3 DEF IInv, OwnerInv, Distinct
  <2>5. /\ Distinct(in_flight \o queue)
        /\ IdsOf(in_flight \o queue) = IdsOf(in_flight) \cup IdsOf(queue)
    BY <2>3, <2>4, ConcatOwes
  <2>6. IdsOf(in_flight \o queue) \cap IdsOf(leftovers) = {}
    <3>1. CASE Running
      <4>1. leftovers = <<>>
        BY <1>1, <3>1 DEF IInv, PlaceInv
      <4> QED BY <4>1, EmptyOwes
    <3>2. CASE ~Running
      <4>1. in_flight = <<>> /\ queue = <<>>
        BY <1>1, <3>2 DEF IInv, PlaceInv
      <4> QED BY <2>5, <4>1, EmptyOwes
    <3> QED BY <3>1, <3>2
  <2>7. Distinct(Owed)
    <3>1. Distinct((in_flight \o queue) \o leftovers)
      BY <2>1, <2>3, <2>4, <2>5, <2>6, ConcatOwes
    <3> QED BY <3>1 DEF Owed
  <2>8. IsInjective([i \in DOMAIN Owed |-> Owed[i].id])
    BY <2>7 DEF Distinct, IsInjective
  <2> QED BY <2>2, <2>8 DEF OwedOnce
<1> QED
  BY <1>1, Inductive, PTL
=============================================================================
