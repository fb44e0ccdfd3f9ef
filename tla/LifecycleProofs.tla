-------------------------- MODULE LifecycleProofs --------------------------
(***************************************************************************)
(* Proofs about the order in which the broker's services start and stop,   *)
(* for any size of queue and batch and any number of events.               *)
(***************************************************************************)
EXTENDS Lifecycle, SequenceTheorems, TLAPS

-----------------------------------------------------------------------------
(* The start order, spelled out.                                           *)

\* Where each service stands in Order.
Pos == [log |-> 1, db |-> 2, nats_notifier |-> 3, nats |-> 4, cards |-> 5,
        signals_notifier |-> 6, deferred |-> 7, demo_notifier |-> 8, dispatcher |-> 9,
        trade |-> 10, system |-> 11, demo |-> 12, worker |-> 13, retry |-> 14]

Services ==
    {"log", "db", "nats_notifier", "nats", "cards", "signals_notifier", "deferred",
     "demo_notifier", "dispatcher", "trade", "system", "demo", "worker", "retry"}

\* The calls the handlers of a producer make.
Calls(p) == UNION {Range(s) : s \in Scripts[p]}

\* Order and Pos are inverse to each other.
LEMMA OrderFacts ==
    /\ Len(Order) = 14
    /\ \A s \in Services : Pos[s] \in 1..14 /\ Order[Pos[s]] = s
    /\ \A i \in 1..14 : Order[i] \in Services /\ Pos[Order[i]] = i
<1>1. Len(Order) = 14
  BY DEF Order
<1>2. \A s \in Services : Pos[s] \in 1..14 /\ Order[Pos[s]] = s
  BY DEF Order, Pos, Services
<1>3. \A i \in 1..14 : Order[i] \in Services /\ Pos[Order[i]] = i
  <2>1. \A i \in 1..14 : \/ i = 1 \/ i = 2 \/ i = 3 \/ i = 4 \/ i = 5 \/ i = 6 \/ i = 7 \/ i = 8
                         \/ i = 9 \/ i = 10 \/ i = 11 \/ i = 12 \/ i = 13 \/ i = 14
    OBVIOUS
  <2> QED
    BY <2>1 DEF Order, Pos, Services
<1> QED
  BY <1>1, <1>2, <1>3

\* The calls of each producer, from its scripts.
LEMMA CallSets ==
    /\ Calls("trade") = {"db", "cards", "row", "nats"}
    /\ Calls("system") = {"db", "nats"}
    /\ Calls("demo") = {"row", "demo_notifier"}
    /\ Calls("worker") = {"db", "nats", "row", "signals_notifier"}
    /\ Calls("retry") = {"db", "nats", "row"}
    /\ Calls("api") = {"nats", "deferred"}
<1>1. /\ Range(<<"db", "cards", "row", "nats">>) = {"db", "cards", "row", "nats"}
      /\ Range(<<"db", "nats">>) = {"db", "nats"}
      /\ Range(<<"row", "demo_notifier">>) = {"row", "demo_notifier"}
      /\ Range(<<"db", "nats", "row", "db", "nats">>) = {"db", "nats", "row"}
      /\ Range(<<"db", "signals_notifier", "nats">>) = {"db", "signals_notifier", "nats"}
      /\ Range(<<"db", "nats", "row", "db">>) = {"db", "nats", "row"}
      /\ Range(<<"nats">>) = {"nats"}
      /\ Range(<<"nats", "deferred">>) = {"nats", "deferred"}
  BY DEF Range
<1> QED
  BY <1>1 DEF Calls, Scripts

\* A handler of a consumer only calls services that start before it, and so
\* does a drain task.
LEMMA NeedsEarlier ==
    /\ \A p \in Producers \ {"api"} : \A c \in Calls(p) : \A n \in Needed(c) :
          n \in Services /\ Pos[n] < Pos[p]
    /\ \A c \in Calls("api") : \A n \in Needed(c) : n \in Services
    /\ \A q \in Queues : \A n \in Needs[q] : n \in Services /\ Pos[n] < Pos[q]
    /\ Producers \ {"api"} \subseteq Services /\ Queues \subseteq Services
<1>1. \A p \in Producers \ {"api"} : \A c \in Calls(p) : \A n \in Needed(c) :
          n \in Services /\ Pos[n] < Pos[p]
  <2> TAKE p \in Producers \ {"api"}
  <2>1. p \in {"trade", "worker", "retry", "system", "demo"}
    BY DEF Producers, Loops, Subscriptions
  <2>2. CASE p = "trade"
    BY <2>2, CallSets DEF Needed, Pos, Services
  <2>3. CASE p = "worker"
    BY <2>3, CallSets DEF Needed, Pos, Services
  <2>4. CASE p = "retry"
    BY <2>4, CallSets DEF Needed, Pos, Services
  <2>5. CASE p = "system"
    BY <2>5, CallSets DEF Needed, Pos, Services
  <2>6. CASE p = "demo"
    BY <2>6, CallSets DEF Needed, Pos, Services
  <2> QED
    BY <2>1, <2>2, <2>3, <2>4, <2>5, <2>6
<1>2. \A c \in Calls("api") : \A n \in Needed(c) : n \in Services
  BY CallSets DEF Needed, Services
<1>3. \A q \in Queues : \A n \in Needs[q] : n \in Services /\ Pos[n] < Pos[q]
  BY DEF Needs, Queues, Flushed, Services, Pos
<1>4. Producers \ {"api"} \subseteq Services /\ Queues \subseteq Services
  BY DEF Producers, Loops, Subscriptions, Queues, Flushed, Services
<1> QED
  BY <1>1, <1>2, <1>3, <1>4

\* A script is a sequence of its producer's calls.
LEMMA ScriptSeq ==
    ASSUME NEW p \in Producers, NEW s \in Scripts[p]
    PROVE  s \in Seq(Calls(p)) /\ s # <<>>
<1>1. s \in Seq(Range(s)) /\ s # <<>>
  <2>1. p \in {"trade", "worker", "retry", "system", "demo", "api"}
    BY DEF Producers, Loops, Subscriptions
  <2>2. \/ s = <<"db", "cards", "row", "nats">> \/ s = <<"db", "nats">>
        \/ s = <<"row", "demo_notifier">> \/ s = <<"db", "nats", "row", "db", "nats">>
        \/ s = <<"db", "signals_notifier", "nats">> \/ s = <<"db", "nats", "row", "db">>
        \/ s = <<"nats">> \/ s = <<"nats", "deferred">>
    BY <2>1 DEF Scripts
  <2> QED
    BY <2>2 DEF Range
<1>2. Range(s) \subseteq Calls(p)
  BY DEF Calls
<1> QED
  BY <1>1, <1>2, SeqMonotonic

-----------------------------------------------------------------------------
(* The inductive invariant.                                                *)

\* Handlers make calls of their scripts.
ScriptInv == \A p \in Producers : left[p] \in Seq(Calls(p))

\* A connection lifespan still has to close.
Held == socket \in {"open", "lost"}

\* Whatever runs is on the exit stack, and nothing works without running.
StackInv ==
    /\ \A p \in live : Pos[p] <= up
    /\ \A q \in drains : Pos[q] <= up
    /\ \A p \in Producers : Busy(p) => p \in live \/ (p = "api" /\ phase = "running")
    /\ \A p \in Loops : batch[p] # 0 => p \in live
    /\ core => batch["trade"] = 0
    /\ phase = "running" => up = 14
    /\ phase = "down" => up = 0
    /\ Held => up >= 4 \/ (phase = "starting" /\ up = 3)
    /\ listener # "off" => up >= 9

\* A queue that is not on the stack holds nothing, its grace period and the
\* alerts of a client nobody closed aside.
QueueInv ==
    \A q \in Flushed \cup {"deferred"} :
        Pos[q] > up => queue[q] = 0 \/ q \in abandoned \/ Strays(q)

IInv == TypeOK /\ ScriptInv /\ StackInv /\ QueueInv

-----------------------------------------------------------------------------
(* Lemmas shared by the actions.                                           *)

\* What is left of a script after a call, or after an error, is a suffix.
LEMMA SuffixTail ==
    ASSUME NEW p \in Producers,
           NEW t \in UNION {Suffixes(s) : s \in Scripts[p]}, t \in Seq(Calls(p))
    PROVE  /\ <<>> \in UNION {Suffixes(s) : s \in Scripts[p]}
           /\ t # <<>> => Tail(t) \in UNION {Suffixes(s) : s \in Scripts[p]}
<1>1. PICK s \in Scripts[p] : t \in Suffixes(s)
  OBVIOUS
<1>2. PICK i \in 1..(Len(s) + 1) : t = SubSeq(s, i, Len(s))
  BY <1>1 DEF Suffixes
<1>3. s \in Seq(Calls(p)) /\ Len(s) \in Nat
  BY ScriptSeq
<1>4. <<>> \in Suffixes(s)
  <2>1. SubSeq(s, Len(s) + 1, Len(s)) = <<>>
    BY <1>3, SubSeqEmpty
  <2> QED
    BY <2>1, <1>3 DEF Suffixes
<1>5. ASSUME t # <<>> PROVE Tail(t) \in Suffixes(s)
  <2>1. i # Len(s) + 1
    <3>1. SubSeq(s, Len(s) + 1, Len(s)) = <<>>
      BY <1>3, SubSeqEmpty
    <3> QED
      BY <3>1, <1>2, <1>5
  <2>2. i \in 1..Len(s) /\ Len(s) \in i..Len(s)
    BY <2>1, <1>3
  <2>3. Tail(t) = SubSeq(s, i + 1, Len(s))
    BY <2>2, <1>2, <1>3, HeadTailOfSubSeq
  <2>4. i + 1 \in 1..(Len(s) + 1)
    BY <2>2, <1>3
  <2> QED
    BY <2>3, <2>4 DEF Suffixes
<1> QED
  BY <1>4, <1>5

\* A whole script is a suffix of itself.
LEMMA ScriptSuffix ==
    ASSUME NEW p \in Producers, NEW s \in Scripts[p]
    PROVE  s \in UNION {Suffixes(t) : t \in Scripts[p]}
<1>1. s \in Seq(Calls(p)) /\ Len(s) \in Nat
  BY ScriptSeq
<1>2. s = SubSeq(s, 1, Len(s)) /\ 1 \in 1..(Len(s) + 1)
  BY <1>1, SubSeqFull
<1>3. s \in Suffixes(s)
  BY <1>2 DEF Suffixes
<1> QED
  BY <1>3

\* put_nowait keeps a queue within its bound and touches no other.
LEMMA PutBounded ==
    ASSUME queue \in [Queues -> 0..QueueSize], NEW q \in Queues, NEW n \in Nat
    PROVE  /\ Put(q, n) \in [Queues -> 0..QueueSize]
           /\ \A r \in Queues : r # q => Put(q, n)[r] = queue[r]
<1> DEFINE m == IF n < QueueSize - queue[q] THEN queue[q] + n ELSE QueueSize
<1>1. m \in 0..QueueSize
  BY LifecycleAssumption
<1>2. Put(q, n) = [queue EXCEPT ![q] = m]
  BY DEF Put
<1> HIDE DEF m
<1> QED
  BY <1>1, <1>2

\* The call a busy handler is about to make is on a standing service.
LEMMA CallStanding ==
    ASSUME IInv, NEW p \in Producers, Busy(p)
    PROVE  /\ Head(left[p]) \in Calls(p)
           /\ \A c \in Calls(p) : \A n \in Needed(c) : n \in Services /\ Pos[n] <= up
<1>1. Head(left[p]) \in Calls(p)
  BY HeadTailProperties DEF IInv, ScriptInv, Busy
<1>2. up \in Int
  BY OrderFacts DEF IInv, TypeOK
<1>3. CASE p \in live /\ p # "api"
  <2>1. p \in Services /\ Pos[p] <= up /\ Pos[p] \in Int
    BY <1>3, NeedsEarlier, OrderFacts DEF IInv, StackInv
  <2>2. \A c \in Calls(p) : \A n \in Needed(c) : n \in Services /\ Pos[n] < Pos[p] /\ Pos[n] \in Int
    BY <1>3, NeedsEarlier, OrderFacts
  <2> QED
    BY <2>1, <2>2, <1>1, <1>2
<1>4. CASE p = "api" /\ phase = "running"
  <2>1. up = 14
    BY <1>4 DEF IInv, StackInv
  <2> QED
    BY <2>1, <1>1, <1>4, NeedsEarlier, OrderFacts
<1>5. (p \in live /\ p # "api") \/ (p = "api" /\ phase = "running")
  <2>1. "api" \notin live
    BY DEF IInv, TypeOK, Loops, Subscriptions
  <2> QED
    BY <2>1 DEF IInv, StackInv
<1> QED
  BY <1>3, <1>4, <1>5

-----------------------------------------------------------------------------
(* The invariant is inductive: steps that leave the stack alone.           *)

\* Before the first start.
LEMMA InitInv == Init => IInv
<1> SUFFICES ASSUME Init PROVE IInv
  OBVIOUS
<1> USE LifecycleAssumption DEF Init
<1>1. \A p \in Producers : <<>> \in UNION {Suffixes(s) : s \in Scripts[p]}
  <2> TAKE p \in Producers
  <2>1. PICK s : s \in Scripts[p]
    <3>1. p \in {"trade", "worker", "retry", "system", "demo", "api"}
      BY DEF Producers, Loops, Subscriptions
    <3>2. /\ <<"db", "cards", "row", "nats">> \in Scripts["trade"] /\ <<"db", "nats">> \in Scripts["system"]
          /\ <<"row", "demo_notifier">> \in Scripts["demo"] /\ <<"nats">> \in Scripts["api"]
          /\ <<"db", "nats", "row", "db">> \in Scripts["retry"]
          /\ <<"db", "signals_notifier", "nats">> \in Scripts["worker"]
      BY DEF Scripts
    <3> QED
      BY <3>1, <3>2, Zenon
  <2> QED
    BY <2>1, ScriptSeq, ScriptSuffix, SuffixTail
<1>2. TypeOK
  <2>1. up \in 0..Len(Order)
    BY OrderFacts
  <2>2. DOMAIN left = Producers /\ \A p \in Producers : left[p] \in UNION {Suffixes(s) : s \in Scripts[p]}
    BY <1>1
  <2>3. batch \in [Loops -> 0..MaxBatch] /\ queue \in [Queues -> 0..QueueSize] /\ budget \in 0..MaxEvents
    OBVIOUS
  <2> QED
    BY <2>1, <2>2, <2>3 DEF TypeOK
<1>3. ScriptInv
  BY DEF ScriptInv
<1>4. StackInv
  BY DEF StackInv, Busy, Held
<1>5. QueueInv
  BY DEF QueueInv, Queues
<1> QED
  BY <1>2, <1>3, <1>4, <1>5 DEF IInv

\* A step of the queues, the log handler or a connection.
LEMMA QueueStep ==
    ASSUME IInv, UNCHANGED <<phase, up, consumers, drains, abandoned>>,
           socket' = socket \/ (Held /\ Held'),
           sending' \subseteq drains, queue' \in [Queues -> 0..QueueSize],
           \A q \in Flushed \cup {"deferred"} :
               Pos[q] <= up \/ queue'[q] = queue[q] \/ Strays(q),
           listener' \in {"off", "lost", "listening"}, listener' # "off" => listener # "off",
           recent' \subseteq {"program", "send"}, budget' \in 0..MaxEvents
    PROVE  IInv'
<1>1. TypeOK'
  BY DEF IInv, TypeOK, consumers, Held
<1>2. ScriptInv'
  BY DEF IInv, ScriptInv, consumers
<1>3. StackInv'
  BY DEF IInv, StackInv, consumers, Busy, Held
<1>4. QueueInv'
  <2>0. \A q \in Queues : Strays(q) => Strays(q)'
    BY DEF Strays, Held
  <2> SUFFICES ASSUME NEW q \in Flushed \cup {"deferred"}, Pos[q] > up
               PROVE  queue'[q] = 0 \/ q \in abandoned \/ Strays(q)
    BY <2>0 DEF QueueInv, Flushed, Queues
  <2>1. Pos[q] \in Int /\ up \in Int
    BY OrderFacts DEF IInv, TypeOK, Flushed, Services
  <2>2. ~(Pos[q] <= up)
    BY <2>1
  <2> QED
    BY <2>2 DEF IInv, QueueInv
<1> QED
  BY <1>1, <1>2, <1>3, <1>4 DEF IInv

\* emit only touches the log's own queue.
LEMMA EmitLog ==
    ASSUME IInv, NEW source \in {"program", "send"}, Emit(source)
    PROVE  /\ recent' \subseteq {"program", "send"} /\ queue' \in [Queues -> 0..QueueSize]
           /\ \A q \in Flushed \cup {"deferred"} : queue'[q] = queue[q]
<1>1. queue \in [Queues -> 0..QueueSize] /\ "log" \in Queues
  BY DEF IInv, TypeOK, Queues
<1>2. \A q \in Flushed \cup {"deferred"} : q \in Queues /\ q # "log"
  BY DEF Flushed, Queues
<1>3. queue' = queue \/ queue' = Put("log", 1)
  BY DEF Emit
<1>4. recent' \subseteq {"program", "send"}
  BY DEF Emit, IInv, TypeOK
<1> QED
  BY <1>1, <1>2, <1>3, <1>4, PutBounded

\* The drain tasks at work.
LEMMA DrainInv ==
    ASSUME IInv, NEW q \in Queues, Take(q) \/ Sent(q) \/ SendFails(q)
    PROVE  IInv'
<1>1. /\ queue \in [Queues -> 0..QueueSize] /\ sending \subseteq drains /\ QueueSize \in Nat
      /\ listener \in {"off", "lost", "listening"} /\ recent \subseteq {"program", "send"}
      /\ budget \in 0..MaxEvents
  BY LifecycleAssumption DEF IInv, TypeOK
<1>2. \A r \in drains : Pos[r] <= up
  BY DEF IInv, StackInv
<1>3. \A r \in Flushed \cup {"deferred"} : r \in Queues
  BY DEF Flushed, Queues
<1>4. CASE Take(q)
  <2>1. /\ queue' = [queue EXCEPT ![q] = @ - 1] /\ queue[q] > 0 /\ q \in drains
        /\ sending' = sending \cup {q}
        /\ UNCHANGED <<phase, up, socket, consumers, drains, abandoned, listener, recent, budget>>
    BY <1>4 DEF Take
  <2>2. queue' \in [Queues -> 0..QueueSize] /\ \A r \in Queues : r # q => queue'[r] = queue[r]
    BY <2>1, <1>1
  <2>3. sending' \subseteq drains
    BY <2>1, <1>1
  <2> QED
    BY <2>1, <2>2, <2>3, <1>1, <1>2, <1>3, QueueStep
<1>5. CASE Sent(q)
  <2>1. /\ queue' = queue /\ sending' = sending \ {q}
        /\ UNCHANGED <<phase, up, socket, consumers, drains, abandoned, listener, recent, budget>>
    BY <1>5 DEF Sent
  <2> QED
    BY <2>1, <1>1, QueueStep
<1>6. CASE SendFails(q)
  <2>1. /\ sending' = sending \ {q} /\ q \in sending
        /\ UNCHANGED <<phase, up, socket, consumers, drains, abandoned, listener, budget>>
    BY <1>6 DEF SendFails
  <2>2. CASE Emit("send")
    BY <2>1, <2>2, <1>1, EmitLog, QueueStep
  <2>3. CASE q = "deferred" /\ queue' \in {queue, Put(q, 1)} /\ recent' = recent
    <3>1. queue' \in [Queues -> 0..QueueSize] /\ \A r \in Queues : r # q => queue'[r] = queue[r]
      BY <2>3, <1>1, PutBounded
    <3>2. Pos[q] <= up
      BY <2>1, <1>1, <1>2
    <3> QED
      BY <2>1, <2>3, <3>1, <3>2, <1>1, <1>3, QueueStep
  <2> QED
    BY <1>6, <2>2, <2>3 DEF SendFails
<1> QED
  BY <1>4, <1>5, <1>6

\* Errors are logged and forgotten, connections lost and found again.
LEMMA EventInv ==
    ASSUME IInv, LogError \/ ForgetRecent \/ NatsDisconnects \/ NatsReconnects \/ ListenerLoses \/ Supervise
    PROVE  IInv'
<1>1. /\ queue \in [Queues -> 0..QueueSize] /\ sending \subseteq drains
      /\ listener \in {"off", "lost", "listening"} /\ recent \subseteq {"program", "send"}
      /\ budget \in 0..MaxEvents /\ MaxEvents \in Nat
  BY LifecycleAssumption DEF IInv, TypeOK
<1>2. \A r \in Flushed \cup {"deferred"} : r \in Queues
  BY DEF Flushed, Queues
<1>3. CASE LogError
  <2>1. /\ budget' = budget - 1 /\ budget > 0 /\ Emit("program")
        /\ UNCHANGED <<phase, up, socket, consumers, drains, sending, abandoned, listener>>
    BY <1>3 DEF LogError
  <2>2. budget' \in 0..MaxEvents
    BY <2>1, <1>1
  <2> QED
    BY <2>1, <2>2, <1>1, EmitLog, QueueStep
<1>4. CASE ForgetRecent
  <2>1. /\ recent' = {}
        /\ UNCHANGED <<phase, up, socket, consumers, queue, drains, sending, abandoned, listener, budget>>
    BY <1>4 DEF ForgetRecent, queues
  <2> QED
    BY <2>1, <1>1, QueueStep
<1>5. CASE NatsDisconnects \/ NatsReconnects
  <2>1. /\ queue' = Put("nats_notifier", 1) /\ budget' \in {budget, budget - 1}
        /\ budget' = budget \/ budget > 0
        /\ (Held /\ Held') \/ (socket = "stray" /\ socket' = socket)
        /\ UNCHANGED <<phase, up, consumers, drains, sending, abandoned, listener, recent>>
    BY <1>5 DEF NatsDisconnects, NatsReconnects, Held
  <2>2. budget' \in 0..MaxEvents
    BY <2>1, <1>1
  <2>3. /\ queue' \in [Queues -> 0..QueueSize]
        /\ \A r \in Queues : r # "nats_notifier" => queue'[r] = queue[r]
    BY <2>1, <1>1, PutBounded DEF Queues, Flushed
  <2>4. Pos["nats_notifier"] <= up \/ Strays("nats_notifier")
    BY <2>1, OrderFacts DEF IInv, StackInv, TypeOK, Pos, Strays
  <2> QED
    BY <2>1, <2>2, <2>3, <2>4, <1>1, <1>2, QueueStep
<1>6. CASE ListenerLoses
  <2>1. /\ budget' = budget - 1 /\ budget > 0 /\ listener = "listening" /\ listener' = "lost"
        /\ UNCHANGED <<phase, up, socket, consumers, queue, drains, sending, abandoned, recent>>
    BY <1>6 DEF ListenerLoses, queues
  <2>2. budget' \in 0..MaxEvents
    BY <2>1, <1>1
  <2> QED
    BY <2>1, <2>2, <1>1, QueueStep
<1>7. CASE Supervise
  <2>1. /\ listener = "lost" /\ listener' = "listening"
        /\ UNCHANGED <<phase, up, socket, consumers, queue, drains, sending, abandoned, recent, budget>>
    BY <1>7 DEF Supervise, queues
  <2> QED
    BY <2>1, <1>1, QueueStep
<1> QED
  BY <1>3, <1>4, <1>5, <1>6, <1>7

\* A step of a handler.
LEMMA HandlerStep ==
    ASSUME IInv,
           UNCHANGED <<phase, up, socket, live, stopSet, core, drains, sending, abandoned,
                       listener, recent>>,
           DOMAIN left' = Producers,
           \A p \in Producers : /\ left'[p] \in UNION {Suffixes(s) : s \in Scripts[p]}
                                /\ left'[p] \in Seq(Calls(p))
                                /\ left'[p] # <<>> =>
                                     Busy(p) \/ p \in live \/ (p = "api" /\ phase = "running"),
           batch' \in [Loops -> 0..MaxBatch],
           \A p \in Loops : batch'[p] # 0 => batch[p] # 0 \/ p \in live,
           core => batch'["trade"] = 0,
           queue' \in [Queues -> 0..QueueSize],
           \A q \in Flushed \cup {"deferred"} : Pos[q] <= up \/ queue'[q] = queue[q],
           budget' \in 0..MaxEvents
    PROVE  IInv'
<1>1. TypeOK'
  BY DEF IInv, TypeOK
<1>2. ScriptInv'
  BY DEF ScriptInv
<1>3. StackInv'
  BY DEF IInv, StackInv, Busy, Held
<1>4. QueueInv'
  <2> SUFFICES ASSUME NEW q \in Flushed \cup {"deferred"}, Pos[q] > up
               PROVE  queue'[q] = 0 \/ q \in abandoned \/ Strays(q)
    BY DEF QueueInv, Strays
  <2>1. Pos[q] \in Int /\ up \in Int
    <3>1. up \in Int
      BY OrderFacts DEF IInv, TypeOK
    <3>2. q \in Services
      BY DEF Flushed, Services
    <3> QED
      BY <3>1, <3>2, OrderFacts
  <2>2. ~(Pos[q] <= up)
    BY <2>1
  <2> QED
    BY <2>2 DEF IInv, QueueInv
<1> QED
  BY <1>1, <1>2, <1>3, <1>4 DEF IInv

\* A handler starts on a script.
LEMMA ScriptStarts ==
    ASSUME IInv, NEW p \in Producers, NEW s \in Scripts[p], left' = [left EXCEPT ![p] = s]
    PROVE  /\ DOMAIN left' = Producers
           /\ \A r \in Producers : /\ left'[r] \in UNION {Suffixes(t) : t \in Scripts[r]}
                                   /\ left'[r] \in Seq(Calls(r))
                                   /\ left'[r] # <<>> => Busy(r) \/ r = p
<1>1. DOMAIN left = Producers
  BY DEF IInv, TypeOK
<1>2. DOMAIN left' = Producers /\ left'[p] = s /\ \A r \in Producers : r # p => left'[r] = left[r]
  BY <1>1
<1>3. s \in UNION {Suffixes(t) : t \in Scripts[p]} /\ s \in Seq(Calls(p))
  BY ScriptSuffix, ScriptSeq
<1>4. \A r \in Producers : left[r] \in UNION {Suffixes(t) : t \in Scripts[r]} /\ left[r] \in Seq(Calls(r))
  BY DEF IInv, TypeOK, ScriptInv
<1> QED
  BY <1>2, <1>3, <1>4 DEF Busy

\* A loop fetches, and starts on the next message; a callback or the API
\* receives one.
LEMMA ReceiveInv ==
    ASSUME IInv, NEW p \in Producers, (p \in Loops /\ (Fetch(p) \/ Handle(p))) \/ Receive(p)
    PROVE  IInv'
<1>1. /\ queue \in [Queues -> 0..QueueSize] /\ budget \in 0..MaxEvents /\ MaxEvents \in Nat
      /\ batch \in [Loops -> 0..MaxBatch] /\ MaxBatch \in Nat /\ DOMAIN left = Producers
  BY LifecycleAssumption DEF IInv, TypeOK
<1>2. \A r \in Producers : left[r] \in UNION {Suffixes(t) : t \in Scripts[r]} /\ left[r] \in Seq(Calls(r))
  BY DEF IInv, TypeOK, ScriptInv
<1>3. core => batch["trade"] = 0
  BY DEF IInv, StackInv
<1>4. CASE p \in Loops /\ Fetch(p)
  <2>1. PICK n \in 1..MaxBatch : /\ n <= budget /\ batch' = [batch EXCEPT ![p] = n]
                                 /\ budget' = budget - n
    BY <1>4 DEF Fetch
  <2>2. /\ p \in live /\ ~(p = "trade" /\ core) /\ left' = left /\ queue' = queue
        /\ UNCHANGED <<phase, up, socket, live, stopSet, core, drains, sending, abandoned,
                       listener, recent>>
    BY <1>4 DEF Fetch, queues
  <2>3. budget' \in 0..MaxEvents
    BY <2>1, <1>1
  <2>4. /\ batch' \in [Loops -> 0..MaxBatch] /\ \A r \in Loops : r # p => batch'[r] = batch[r]
    BY <2>1, <1>1, <1>4
  <2>5. core => batch'["trade"] = 0
    BY <2>2, <2>4, <1>3 DEF Loops
  <2>6. \A r \in Loops : batch'[r] # 0 => batch[r] # 0 \/ r \in live
    BY <2>2, <2>4
  <2>7. \A r \in Producers : left'[r] # <<>> => Busy(r)
    BY <2>2 DEF Busy
  <2>8. DOMAIN left' = Producers
        /\ \A r \in Producers : left'[r] \in UNION {Suffixes(t) : t \in Scripts[r]} /\ left'[r] \in Seq(Calls(r))
    BY <2>2, <1>1, <1>2
  <2> QED
    BY <2>2, <2>3, <2>4, <2>5, <2>6, <2>7, <2>8, <1>1, HandlerStep
<1>5. CASE p \in Loops /\ Handle(p)
  <2>1. PICK s \in Scripts[p] : left' = [left EXCEPT ![p] = s]
    BY <1>5 DEF Handle
  <2>2. /\ p \in live /\ batch[p] > 0 /\ batch' = [batch EXCEPT ![p] = @ - 1] /\ queue' = queue
        /\ UNCHANGED <<phase, up, socket, live, stopSet, core, drains, sending, abandoned,
                       listener, recent, budget>>
    BY <1>5 DEF Handle, queues
  <2>3. /\ batch' \in [Loops -> 0..MaxBatch] /\ \A r \in Loops : r # p => batch'[r] = batch[r]
    BY <2>2, <1>1, <1>5
  <2>4. core => batch'["trade"] = 0
    <3>1. core => p # "trade"
      BY <2>2, <1>3
    <3> QED
      BY <3>1, <2>3, <1>3 DEF Loops
  <2>5. /\ DOMAIN left' = Producers
        /\ \A r \in Producers : /\ left'[r] \in UNION {Suffixes(t) : t \in Scripts[r]}
                                /\ left'[r] \in Seq(Calls(r))
                                /\ left'[r] # <<>> => Busy(r) \/ r = p
    BY <2>1, ScriptStarts
  <2>6. \A r \in Producers : left'[r] # <<>> => Busy(r) \/ r \in live
    BY <2>2, <2>5
  <2>7. \A r \in Loops : batch'[r] # 0 => batch[r] # 0 \/ r \in live
    BY <2>2, <2>3
  <2> QED
    BY <2>2, <2>3, <2>4, <2>5, <2>6, <2>7, <1>1, HandlerStep
<1>6. CASE Receive(p)
  <2>1. PICK s \in Scripts[p] : left' = [left EXCEPT ![p] = s]
    BY <1>6 DEF Receive
  <2>2. /\ p \in live \/ (p = "api" /\ phase = "running")
        /\ budget > 0 /\ budget' = budget - 1 /\ queue' = queue /\ batch' = batch
        /\ UNCHANGED <<phase, up, socket, live, stopSet, core, drains, sending, abandoned,
                       listener, recent>>
    BY <1>6 DEF Receive, queues
  <2>3. budget' \in 0..MaxEvents
    BY <2>2, <1>1
  <2>4. /\ DOMAIN left' = Producers
        /\ \A r \in Producers : /\ left'[r] \in UNION {Suffixes(t) : t \in Scripts[r]}
                                /\ left'[r] \in Seq(Calls(r))
                                /\ left'[r] # <<>> => Busy(r) \/ r = p
    BY <2>1, ScriptStarts
  <2>5. \A r \in Producers : left'[r] # <<>> => Busy(r) \/ r \in live \/ (r = "api" /\ phase = "running")
    BY <2>2, <2>4
  <2> QED
    BY <2>2, <2>3, <2>4, <2>5, <1>1, <1>3, HandlerStep
<1> QED
  BY <1>4, <1>5, <1>6

\* A handler makes its next call, or ends on an error.
LEMMA CallInv ==
    ASSUME IInv, NEW p \in Producers, Call(p)
    PROVE  IInv'
<1>1. /\ queue \in [Queues -> 0..QueueSize] /\ budget \in 0..MaxEvents
      /\ batch \in [Loops -> 0..MaxBatch] /\ DOMAIN left = Producers
  BY DEF IInv, TypeOK
<1>2. \A r \in Producers : left[r] \in UNION {Suffixes(t) : t \in Scripts[r]} /\ left[r] \in Seq(Calls(r))
  BY DEF IInv, TypeOK, ScriptInv
<1>3. core => batch["trade"] = 0
  BY DEF IInv, StackInv
<1>4. /\ Busy(p) /\ batch' = batch
      /\ UNCHANGED <<phase, up, socket, live, stopSet, core, drains, sending, abandoned,
                     listener, recent, budget>>
  BY DEF Call
<1> DEFINE c == Head(left[p])
<1>5. c \in Calls(p) /\ \A n \in Needed(c) : Pos[n] <= up
  BY <1>4, CallStanding
<1>6. queue' = queue \/ queue' = Queued(c)
  BY DEF Call
<1>7. /\ queue' \in [Queues -> 0..QueueSize]
      /\ \A q \in Flushed \cup {"deferred"} : Pos[q] <= up \/ queue'[q] = queue[q]
  <2> HIDE DEF c
  <2>1. \A q \in Flushed \cup {"deferred"} : q \in Queues /\ q # "dispatcher"
    BY DEF Flushed, Queues
  <2>2. "dispatcher" \in Queues /\ "row" \notin Queues
    BY DEF Queues, Flushed
  <2>3. CASE queue' = queue
    BY <2>3, <1>1
  <2>4. CASE c \in Queues /\ queue' = Put(c, 1)
    <3>1. Pos[c] <= up
      BY <2>2, <2>4, <1>5 DEF Needed
    <3> QED
      BY <3>1, <2>1, <2>4, <1>1, PutBounded
  <2>5. CASE queue' = Put("dispatcher", 1)
    BY <2>1, <2>2, <2>5, <1>1, PutBounded
  <2> QED
    BY <2>3, <2>4, <2>5, <1>6 DEF Queued
<1>8. /\ DOMAIN left' = Producers /\ left'[p] \in {Tail(left[p]), <<>>}
      /\ \A r \in Producers : r # p => left'[r] = left[r]
  BY <1>1 DEF Call
<1>9. \A t \in {Tail(left[p]), <<>>} :
        t \in UNION {Suffixes(s) : s \in Scripts[p]} /\ t \in Seq(Calls(p))
  <2>1. left[p] \in Seq(Calls(p)) /\ left[p] # <<>> /\ left[p] \in UNION {Suffixes(s) : s \in Scripts[p]}
    BY <1>2, <1>4 DEF Busy
  <2>2. Tail(left[p]) \in Seq(Calls(p)) /\ <<>> \in Seq(Calls(p))
    BY <2>1, HeadTailProperties
  <2> QED
    BY <2>1, <2>2, SuffixTail
<1>10. \A r \in Producers : /\ left'[r] \in UNION {Suffixes(s) : s \in Scripts[r]}
                            /\ left'[r] \in Seq(Calls(r))
                            /\ left'[r] # <<>> => Busy(r)
  <2> TAKE r \in Producers
  <2>1. CASE r = p
    BY <2>1, <1>4, <1>8, <1>9
  <2>2. CASE r # p
    BY <2>2, <1>2, <1>8 DEF Busy
  <2> QED
    BY <2>1, <2>2
<1> QED
  BY <1>1, <1>3, <1>4, <1>7, <1>8, <1>10, HandlerStep

-----------------------------------------------------------------------------
(* The invariant is inductive: steps that move lifespan.                   *)

\* Only lifespan itself moves on.
LEMMA PhaseStep ==
    ASSUME IInv, UNCHANGED <<up, socket, consumers, queues, listener, recent, budget>>,
           phase' \in {"running", "stopping", "down"},
           phase' = "running" => up = 14, phase' = "down" => up = 0,
           phase = "running" => ~Busy("api"), ~(Held /\ up = 3)
    PROVE  IInv'
<1>1. TypeOK'
  BY DEF IInv, TypeOK, consumers, queues
<1>2. ScriptInv'
  BY DEF IInv, ScriptInv, consumers
<1>3. StackInv'
  <2>1. \A p \in Producers : Busy(p)' => p \in live
    BY DEF IInv, StackInv, Busy, consumers
  <2>2. Held' => up' >= 4
    BY DEF IInv, StackInv, TypeOK, Held
  <2> QED
    BY <2>1, <2>2 DEF IInv, StackInv, consumers, queues
<1>4. QueueInv'
  BY DEF IInv, QueueInv, queues, Strays
<1> QED
  BY <1>1, <1>2, <1>3, <1>4 DEF IInv

\* The next service is started and its stop goes on the stack.
LEMMA StartStep ==
    ASSUME IInv, NEW s \in Services, Starts(s), Registered,
           UNCHANGED <<socket, stopSet, batch, left, queue, sending, abandoned, recent, budget>>,
           live \subseteq live', live' \subseteq live \cup {s}, live' \subseteq Loops \cup Subscriptions,
           drains \subseteq drains', drains' \subseteq drains \cup {s}, drains' \subseteq Queues,
           core' \in BOOLEAN, core' => batch["trade"] = 0,
           listener' \in {"off", "lost", "listening"},
           listener' # "off" => listener # "off" \/ s = "dispatcher"
    PROVE  IInv'
<1>1. /\ up \in 0..13 /\ Pos[s] = up + 1 /\ up' = up + 1 /\ phase = "starting" /\ phase' = "starting"
  BY OrderFacts DEF IInv, TypeOK, Starts, Registered, NextService
<1>2. TypeOK'
  <2>1. up' \in 0..Len(Order)
    BY <1>1, OrderFacts
  <2>2. DOMAIN left' = Producers
        /\ \A p \in Producers : left'[p] \in UNION {Suffixes(t) : t \in Scripts[p]}
    BY DEF IInv, TypeOK
  <2> QED
    BY <2>1, <2>2, <1>1 DEF IInv, TypeOK
<1>3. ScriptInv'
  BY DEF IInv, ScriptInv
<1>4. \A r \in Services : Pos[r] <= up => Pos[r] <= up'
  BY <1>1, OrderFacts
<1>5. live \subseteq Services /\ drains \subseteq Services
  BY NeedsEarlier DEF IInv, TypeOK, Producers, Loops, Subscriptions
<1>6. StackInv'
  <2>1. \A p \in live' : Pos[p] <= up'
    BY <1>1, <1>4, <1>5 DEF IInv, StackInv
  <2>2. \A q \in drains' : Pos[q] <= up'
    BY <1>1, <1>4, <1>5 DEF IInv, StackInv
  <2>3. \A p \in Producers : Busy(p)' => p \in live'
    BY <1>1 DEF IInv, StackInv, Busy
  <2>4. \A p \in Loops : batch'[p] # 0 => p \in live'
    BY DEF IInv, StackInv
  <2>5. Held' => up' >= 4
    BY <1>1 DEF IInv, StackInv, Held
  <2>6. listener' # "off" => up' >= 9
    BY <1>1 DEF IInv, StackInv, Pos
  <2> QED
    BY <2>1, <2>2, <2>3, <2>4, <2>5, <2>6, <1>1 DEF StackInv
<1>7. QueueInv'
  <2> SUFFICES ASSUME NEW q \in Flushed \cup {"deferred"}, Pos[q] > up'
               PROVE  queue'[q] = 0 \/ q \in abandoned' \/ Strays(q)'
    BY DEF QueueInv
  <2>1. q \in Services /\ Pos[q] \in Int
    BY OrderFacts DEF Flushed, Services
  <2>2. Pos[q] > up
    BY <2>1, <1>1
  <2> QED
    BY <2>2 DEF IInv, QueueInv, Strays
<1> QED
  BY <1>2, <1>3, <1>6, <1>7 DEF IInv

\* The service on top of the stack has stopped.
LEMMA StopStep ==
    ASSUME IInv, NEW s \in Services, Stops(s), Popped,
           UNCHANGED <<stopSet, core, batch, recent, budget>>,
           live' \subseteq live \ {s}, drains' \subseteq drains \ {s}, sending' \subseteq drains',
           DOMAIN left' = Producers,
           \A p \in Producers : left'[p] = left[p] \/ left'[p] = <<>>,
           \A p \in Producers : left'[p] # <<>> /\ p \in live => p \in live',
           \A p \in Loops : batch[p] # 0 /\ p \in live => p \in live',
           socket' = socket \/ s = "nats",
           socket' \in {"none", "open", "lost", "stray"}, Held' => s # "nats",
           listener' \in {"off", "lost", "listening"},
           listener' # "off" => listener # "off" /\ s # "dispatcher",
           queue' \in [Queues -> 0..QueueSize],
           abandoned \subseteq abandoned', abandoned' \subseteq Flushed,
           \A q \in Flushed \cup {"deferred"} :
                 /\ q # s => queue'[q] = queue[q] \/ Pos[q] < up
                 /\ q = s => queue'[q] = 0 \/ q \in abandoned'
    PROVE  IInv'
<1>1. /\ up \in 1..14 /\ up' = up - 1 /\ Order[up] = s /\ phase = "stopping" /\ phase' = "stopping"
  BY OrderFacts DEF IInv, TypeOK, Stops, Popped, Top
<1>2. \A r \in Services : r # s /\ Pos[r] <= up => Pos[r] <= up'
  <2> TAKE r \in Services
  <2>1. Pos[r] \in 1..14 /\ Order[Pos[r]] = r
    BY OrderFacts
  <2>2. r # s => Pos[r] # up
    BY <2>1, <1>1
  <2> QED
    BY <2>1, <2>2, <1>1
<1>3. live \subseteq Services /\ drains \subseteq Services
  BY NeedsEarlier DEF IInv, TypeOK, Producers, Loops, Subscriptions
<1>4. \A p \in Producers : left'[p] \in UNION {Suffixes(t) : t \in Scripts[p]} /\ left'[p] \in Seq(Calls(p))
  <2> TAKE p \in Producers
  <2>1. left[p] \in UNION {Suffixes(t) : t \in Scripts[p]} /\ left[p] \in Seq(Calls(p))
    BY DEF IInv, TypeOK, ScriptInv
  <2>2. <<>> \in UNION {Suffixes(t) : t \in Scripts[p]} /\ <<>> \in Seq(Calls(p))
    BY <2>1, SuffixTail
  <2> QED
    BY <2>1, <2>2
<1>5. TypeOK'
  <2>1. up' \in 0..Len(Order)
    BY <1>1, OrderFacts
  <2>2. live' \subseteq Loops \cup Subscriptions /\ drains' \subseteq Queues
    BY DEF IInv, TypeOK
  <2> QED
    BY <2>1, <2>2, <1>1, <1>4 DEF IInv, TypeOK
<1>6. ScriptInv'
  BY <1>4 DEF ScriptInv
<1>7. StackInv'
  <2>1. \A p \in live' : Pos[p] <= up'
    BY <1>2, <1>3 DEF IInv, StackInv
  <2>2. \A q \in drains' : Pos[q] <= up'
    BY <1>2, <1>3 DEF IInv, StackInv
  <2>3. \A p \in Producers : Busy(p)' => p \in live'
    BY <1>1 DEF IInv, StackInv, Busy
  <2>4. \A p \in Loops : batch'[p] # 0 => p \in live'
    BY DEF IInv, StackInv
  <2>5. Held' => up' >= 4
    <3>1. Held' => up >= 4 /\ s # "nats"
      BY <1>1 DEF IInv, StackInv, Held
    <3>2. "nats" \in Services /\ Pos["nats"] = 4
      BY DEF Services, Pos
    <3> QED
      BY <3>1, <3>2, <1>1, <1>2
  <2>6. listener' # "off" => up' >= 9
    <3>1. listener' # "off" => up >= 9 /\ s # "dispatcher"
      BY <1>1 DEF IInv, StackInv
    <3>2. "dispatcher" \in Services /\ Pos["dispatcher"] = 9
      BY DEF Services, Pos
    <3> QED
      BY <3>1, <3>2, <1>1, <1>2
  <2>7. core' => batch'["trade"] = 0
    BY DEF IInv, StackInv
  <2> QED
    BY <2>1, <2>2, <2>3, <2>4, <2>5, <2>6, <2>7, <1>1 DEF StackInv
<1>8. QueueInv'
  <2> SUFFICES ASSUME NEW q \in Flushed \cup {"deferred"}, Pos[q] > up', q # s
               PROVE  queue'[q] = 0 \/ q \in abandoned' \/ Strays(q)'
    BY DEF QueueInv
  <2>1. q \in Services /\ Pos[q] \in Int
    BY OrderFacts DEF Flushed, Services
  <2>2. Pos[q] > up /\ ~(Pos[q] < up)
    BY <2>1, <1>1, <1>2
  <2>3. Strays(q) => Strays(q)'
    <3>1. s = "nats" => Pos[s] = up /\ Pos["nats_notifier"] < Pos["nats"]
      BY <1>1, OrderFacts DEF Pos
    <3> QED
      BY <3>1, <2>2 DEF Strays
  <2> QED
    BY <2>2, <2>3 DEF IInv, QueueInv
<1> QED
  BY <1>5, <1>6, <1>7, <1>8 DEF IInv

\* The services start one after the other.
LEMMA StartInv ==
    ASSUME IInv, Start
    PROVE  IInv'
<1>1. /\ live \subseteq Loops \cup Subscriptions /\ drains \subseteq Queues /\ core \in BOOLEAN
      /\ listener \in {"off", "lost", "listening"} /\ queue \in [Queues -> 0..QueueSize]
      /\ sending \subseteq drains /\ up \in 0..14
  BY OrderFacts DEF IInv, TypeOK
<1>2. core => batch["trade"] = 0
  BY DEF IInv, StackInv
<1>3. ASSUME NEW q \in Queues, StartQueue(q) PROVE IInv'
  <2>1. /\ Starts(q) /\ Registered /\ drains' = drains \cup {q}
        /\ UNCHANGED <<socket, live, stopSet, core, batch, left, queue, sending, abandoned,
                       listener, recent, budget>>
    BY <1>3 DEF StartQueue, consumers
  <2>2. q \in Services
    BY NeedsEarlier
  <2> QED
    BY <2>1, <2>2, <1>1, <1>2, StartStep
<1>4. ASSUME NEW s \in {"db", "nats"}, Starts(s), Registered,
             UNCHANGED <<socket, consumers, queues, listener, recent, budget>>
      PROVE  IInv'
  <2>1. UNCHANGED <<socket, live, stopSet, core, batch, left, queue, drains, sending, abandoned,
                    listener, recent, budget>>
    BY <1>4 DEF consumers, queues
  <2>2. s \in Services
    BY DEF Services
  <2> QED
    BY <2>1, <2>2, <1>1, <1>2, <1>4, StartStep
<1>5. CASE InitDb
  BY <1>4, <1>5 DEF InitDb
<1>6. CASE StreamsEnsured
  BY <1>4, <1>6 DEF StreamsEnsured
<1>7. ASSUME NatsConnects PROVE IInv'
  <2>1. /\ Starts("nats") /\ socket = "none" /\ socket' = "open"
        /\ UNCHANGED <<phase, up, live, stopSet, core, batch, left, queue, drains, sending,
                       abandoned, listener, recent, budget>>
    BY <1>7 DEF NatsConnects, consumers, queues
  <2>2. phase = "starting" /\ up = 3
    BY <2>1, OrderFacts, <1>1 DEF Starts, NextService, Pos
  <2>3. TypeOK'
    BY <2>1 DEF IInv, TypeOK
  <2>4. ScriptInv' /\ QueueInv'
    BY <2>1 DEF IInv, ScriptInv, QueueInv, Strays
  <2>5. StackInv'
    BY <2>1, <2>2 DEF IInv, StackInv, Busy
  <2> QED
    BY <2>3, <2>4, <2>5 DEF IInv
<1>8. ASSUME StreamsFail PROVE IInv'
  <2>1. /\ Starts("nats") /\ socket' = "none" /\ queue' = Put("nats_notifier", 1)
        /\ phase' = "stopping"
        /\ UNCHANGED <<up, live, stopSet, core, batch, left, drains, sending, abandoned, listener,
                       recent, budget>>
    BY <1>8 DEF StreamsFail, Closes, Unwind, consumers
  <2>2. phase = "starting" /\ up = 3
    BY <2>1, OrderFacts, <1>1 DEF Starts, NextService, Pos
  <2>3. /\ queue' \in [Queues -> 0..QueueSize]
        /\ \A r \in Queues : r # "nats_notifier" => queue'[r] = queue[r]
    BY <2>1, <1>1, PutBounded DEF Queues, Flushed
  <2>4. TypeOK'
    BY <2>1, <2>3 DEF IInv, TypeOK
  <2>5. ScriptInv'
    BY <2>1 DEF IInv, ScriptInv
  <2>6. StackInv'
    BY <2>1, <2>2 DEF IInv, StackInv, Busy, Held
  <2>7. QueueInv'
    <3>1. Pos["nats_notifier"] = 3
      BY DEF Pos
    <3>2. \A r \in Flushed \cup {"deferred"} : r \in Queues
      BY DEF Flushed, Queues
    <3> QED
      BY <2>1, <2>2, <2>3, <3>1, <3>2 DEF IInv, QueueInv, Strays
  <2> QED
    BY <2>4, <2>5, <2>6, <2>7 DEF IInv
<1>9. ASSUME StartDispatcher PROVE IInv'
  <2>1. /\ Starts("dispatcher") /\ Registered /\ drains' = drains \cup {"dispatcher"}
        /\ listener' \in {"lost", "listening"}
        /\ UNCHANGED <<socket, live, stopSet, core, batch, left, queue, sending, abandoned,
                       recent, budget>>
    BY <1>9 DEF StartDispatcher, consumers
  <2>2. "dispatcher" \in Services /\ "dispatcher" \in Queues
    BY DEF Services, Queues
  <2> QED
    BY <2>1, <2>2, <1>1, <1>2, StartStep
<1>10. ASSUME NEW p \in Producers, StartConsumer(p) PROVE IInv'
  <2>1. /\ p \in Loops \cup Subscriptions /\ Starts(p) /\ Registered /\ live' = live \cup {p}
        /\ core' \in IF p = "trade" THEN {TRUE, socket # "open"} ELSE {core}
        /\ UNCHANGED <<socket, stopSet, batch, left, queue, drains, sending, abandoned, listener,
                       recent, budget>>
    BY <1>10 DEF StartConsumer, queues
  <2>2. p \in Services
    BY <2>1, NeedsEarlier DEF Loops, Subscriptions, Services
  <2>3. core' \in BOOLEAN
    BY <2>1, <1>1
  <2>4. core' => batch["trade"] = 0
    <3>1. CASE p = "trade"
      <4>1. Pos["trade"] = up + 1
        BY <3>1, <2>1, OrderFacts, <1>1 DEF Starts, NextService
      <4>2. "trade" \notin live
        BY <4>1, <1>1 DEF IInv, StackInv
      <4> QED
        BY <4>2 DEF IInv, StackInv, Loops
    <3>2. CASE p # "trade"
      BY <3>2, <2>1, <1>2
    <3> QED
      BY <3>1, <3>2
  <2> QED
    BY <2>1, <2>2, <2>3, <2>4, <1>1, StartStep
<1>11. ASSUME StartFails PROVE IInv'
  <2>1. /\ phase = "starting" /\ phase' = "stopping" /\ up < 14 /\ ~(Order[up + 1] = "nats" /\ socket # "none")
        /\ UNCHANGED <<up, socket, consumers, queues, listener, recent, budget>>
    BY <1>11, OrderFacts DEF StartFails, Starts, Unwind, NextService
  <2>2. ~(Held /\ up = 3)
    BY <2>1, OrderFacts DEF Order, Held
  <2> QED
    BY <2>1, <2>2, PhaseStep
<1>12. ASSUME Yield PROVE IInv'
  BY <1>12, OrderFacts, PhaseStep DEF Yield
<1> QED
  BY <1>3, <1>5, <1>6, <1>7, <1>8, <1>9, <1>10, <1>11, <1>12 DEF Start

\* The exit stack unwinds.
LEMMA StopInv ==
    ASSUME IInv, Stop
    PROVE  IInv'
<1>1. /\ live \subseteq Loops \cup Subscriptions /\ drains \subseteq Queues /\ core \in BOOLEAN
      /\ socket \in {"none", "open", "lost", "stray"} /\ abandoned \subseteq Flushed /\ DOMAIN left = Producers
      /\ listener \in {"off", "lost", "listening"} /\ queue \in [Queues -> 0..QueueSize]
      /\ sending \subseteq drains /\ up \in 0..14
  BY OrderFacts DEF IInv, TypeOK
<1>2. \A q \in Flushed \cup {"deferred"} : q \in Queues /\ q \in Services
  BY DEF Flushed, Queues, Services
<1>3. Queues \cap (Loops \cup Subscriptions) = {}
  BY DEF Flushed, Queues, Loops, Subscriptions
\* The stop of a service that runs no consumer.
<1>4. ASSUME NEW s \in Services, s \notin Loops \cup Subscriptions, Stops(s), Popped,
             UNCHANGED <<consumers, recent, budget>>,
             drains' \subseteq drains \ {s}, sending' \subseteq drains',
             socket' = socket \/ s = "nats",
           socket' \in {"none", "open", "lost", "stray"}, Held' => s # "nats",
             listener' \in {"off", "lost", "listening"},
             listener' # "off" => listener # "off" /\ s # "dispatcher",
             queue' \in [Queues -> 0..QueueSize],
             abandoned \subseteq abandoned', abandoned' \subseteq Flushed,
             \A q \in Flushed \cup {"deferred"} :
                 /\ q # s => queue'[q] = queue[q] \/ Pos[q] < up
                 /\ q = s => queue'[q] = 0 \/ q \in abandoned'
      PROVE  IInv'
  <2>1. UNCHANGED <<live, stopSet, core, batch, left>>
    BY <1>4 DEF consumers
  <2>2. live' \subseteq live \ {s}
    BY <2>1, <1>1, <1>4
  <2>3. DOMAIN left' = Producers /\ \A p \in Producers : left'[p] = left[p]
    BY <2>1, <1>1
  <2> QED
    BY <1>4, <2>1, <2>2, <2>3, StopStep
<1>5. ASSUME NEW p \in Loops, StopLoop(p) PROVE IInv'
  <2>1. /\ stopSet' = stopSet \cup {p}
        /\ UNCHANGED <<phase, up, socket, live, core, batch, left, queue, drains, sending,
                       abandoned, listener, recent, budget>>
    BY <1>5 DEF StopLoop, StopFlag, queues
  <2>2. TypeOK'
    BY <2>1 DEF IInv, TypeOK
  <2>3. ScriptInv' /\ StackInv' /\ QueueInv'
    BY <2>1 DEF IInv, ScriptInv, StackInv, QueueInv, Busy, Held, Strays
  <2> QED
    BY <2>2, <2>3 DEF IInv
<1>6. ASSUME NEW p \in Loops, LoopEnds(p) PROVE IInv'
  <2>1. /\ Stops(p) /\ Popped /\ live' = live \ {p} /\ batch[p] = 0 /\ left[p] = <<>>
        /\ UNCHANGED <<socket, stopSet, core, batch, left, queue, drains, sending, abandoned,
                       listener, recent, budget>>
    BY <1>6 DEF LoopEnds, LoopIsOver, Busy, queues
  <2>2. p \in Services /\ p \notin Queues /\ p # "nats" /\ p # "dispatcher"
    BY DEF Loops, Services, Queues, Flushed
  <2>3. DOMAIN left' = Producers /\ (\A r \in Producers : left'[r] = left[r])
        /\ \A r \in Producers : left'[r] # <<>> /\ r \in live => r \in live'
    BY <2>1, <1>1
  <2>4. drains' \subseteq drains \ {p} /\ sending' \subseteq drains'
    BY <2>1, <2>2, <1>1
  <2>5. \A r \in Loops : batch[r] # 0 /\ r \in live => r \in live'
    BY <2>1
  <2>6. \A q \in Flushed \cup {"deferred"} : q # p /\ queue'[q] = queue[q]
    BY <2>1, <2>2, <1>2
  <2> QED
    BY <2>1, <2>2, <2>3, <2>4, <2>5, <2>6, <1>1, StopStep
<1>7. ASSUME NEW p \in Producers, StopSubscription(p) PROVE IInv'
  <2>1. /\ p \in Subscriptions \/ (p = "trade" /\ core)
        /\ Stops(p) /\ Popped /\ live' = live \ {p} /\ left' = [left EXCEPT ![p] = <<>>]
        /\ UNCHANGED <<socket, stopSet, core, batch, queue, drains, sending, abandoned, listener,
                       recent, budget>>
    BY <1>7 DEF StopSubscription, queues
  <2>2. p \in Services /\ p \notin Queues /\ p # "nats" /\ p # "dispatcher"
    BY <2>1 DEF Subscriptions, Services, Queues, Flushed
  <2>3. DOMAIN left' = Producers /\ left'[p] = <<>> /\ \A r \in Producers : r # p => left'[r] = left[r]
    BY <2>1, <1>1
  <2>4. \A r \in Producers : left'[r] = left[r] \/ left'[r] = <<>>
    BY <2>3
  <2>5. \A r \in Producers : left'[r] # <<>> /\ r \in live => r \in live'
    BY <2>1, <2>3
  <2>6. \A r \in Loops : batch[r] # 0 /\ r \in live => r \in live'
    <3>1. p \in Loops => batch[p] = 0
      BY <2>1 DEF Subscriptions, Loops, IInv, StackInv
    <3> QED
      BY <3>1, <2>1
  <2>7. drains' \subseteq drains \ {p} /\ sending' \subseteq drains'
    BY <2>1, <2>2, <1>1
  <2>8. \A q \in Flushed \cup {"deferred"} : q # p /\ queue'[q] = queue[q]
    BY <2>1, <2>2, <1>2
  <2> QED
    BY <2>1, <2>2, <2>3, <2>4, <2>5, <2>6, <2>7, <2>8, <1>1, StopStep
<1>8. ASSUME NEW q \in Flushed, FlushQueue(q) PROVE IInv'
  <2>1. /\ Stops(q) /\ Popped /\ queue[q] = 0 /\ q \notin sending /\ drains' = drains \ {q}
        /\ UNCHANGED <<socket, consumers, queue, sending, abandoned, listener, recent, budget>>
    BY <1>8 DEF FlushQueue
  <2>2. q \in Services /\ q \notin Loops \cup Subscriptions /\ q # "nats" /\ q # "dispatcher"
    BY DEF Services, Flushed, Loops, Subscriptions
  <2>3. sending' \subseteq drains'
    BY <2>1, <1>1
  <2> QED
    BY <2>1, <2>2, <2>3, <1>1, <1>4
<1>9. ASSUME NEW q \in Flushed, AbandonQueue(q) PROVE IInv'
  <2>1. /\ Stops(q) /\ Popped /\ drains' = drains \ {q} /\ sending' = sending \ {q}
        /\ abandoned' = abandoned \cup {q}
        /\ UNCHANGED <<socket, consumers, queue, listener, recent, budget>>
    BY <1>9 DEF AbandonQueue
  <2>2. q \in Services /\ q \notin Loops \cup Subscriptions /\ q # "nats" /\ q # "dispatcher"
    BY DEF Services, Flushed, Loops, Subscriptions
  <2>3. sending' \subseteq drains' /\ abandoned \subseteq abandoned' /\ abandoned' \subseteq Flushed
    BY <2>1, <1>1
  <2> QED
    BY <2>1, <2>2, <2>3, <1>1, <1>4
<1>10. ASSUME StopDeferred PROVE IInv'
  <2>1. /\ Stops("deferred") /\ Popped /\ drains' = drains \ {"deferred"}
        /\ sending' = sending \ {"deferred"} /\ queue' = [queue EXCEPT !["deferred"] = 0]
        /\ UNCHANGED <<socket, consumers, abandoned, listener, recent, budget>>
    BY <1>10 DEF StopDeferred
  <2>2. "deferred" \in Services /\ "deferred" \notin Loops \cup Subscriptions /\ "deferred" \in Queues
    BY DEF Services, Queues, Loops, Subscriptions
  <2>3. sending' \subseteq drains'
    BY <2>1, <1>1
  <2>4. /\ queue' \in [Queues -> 0..QueueSize] /\ queue'["deferred"] = 0
        /\ \A r \in Queues : r # "deferred" => queue'[r] = queue[r]
    BY <2>1, <2>2, <1>1, LifecycleAssumption
  <2> QED
    BY <2>1, <2>2, <2>3, <2>4, <1>1, <1>2, <1>4
<1>11. ASSUME StopDispatcher PROVE IInv'
  <2>1. /\ Stops("dispatcher") /\ Popped /\ drains' = drains \ {"dispatcher"}
        /\ sending' = sending \ {"dispatcher"} /\ listener' = "off"
        /\ UNCHANGED <<socket, consumers, queue, abandoned, recent, budget>>
    BY <1>11 DEF StopDispatcher
  <2>2. "dispatcher" \in Services /\ "dispatcher" \notin Loops \cup Subscriptions
    BY DEF Services, Loops, Subscriptions
  <2>3. sending' \subseteq drains'
    BY <2>1, <1>1
  <2>4. \A q \in Flushed \cup {"deferred"} : q # "dispatcher"
    BY DEF Flushed
  <2> QED
    BY <2>1, <2>2, <2>3, <2>4, <1>1, <1>4
<1>12. ASSUME CloseNats PROVE IInv'
  <2>1. /\ Stops("nats") /\ Popped /\ socket' \in {"none", "stray"}
        /\ queue' \in {queue, Put("nats_notifier", 1)}
        /\ UNCHANGED <<consumers, drains, sending, abandoned, listener, recent, budget>>
    BY <1>12 DEF CloseNats, Closes
  <2>2. "nats" \in Services /\ "nats" \notin Loops \cup Subscriptions /\ "nats" \notin Queues
    BY DEF Services, Loops, Subscriptions, Queues, Flushed
  <2>3. drains' \subseteq drains \ {"nats"} /\ sending' \subseteq drains'
    BY <2>1, <2>2, <1>1
  <2>4. /\ queue' \in [Queues -> 0..QueueSize]
        /\ \A r \in Queues : r # "nats_notifier" => queue'[r] = queue[r]
    <3>1. CASE queue' = queue
      BY <3>1, <1>1
    <3>2. CASE queue' = Put("nats_notifier", 1)
      BY <3>2, <1>1, PutBounded DEF Queues, Flushed
    <3> QED
      BY <2>1, <3>1, <3>2
  <2>5. up = 4 /\ Pos["nats_notifier"] = 3
    BY <2>1, <1>1, OrderFacts DEF Stops, Top, Pos
  <2>6. \A q \in Flushed \cup {"deferred"} : q # "nats" /\ (queue'[q] = queue[q] \/ Pos[q] < up)
    BY <2>2, <2>4, <2>5, <1>2
  <2>7. ~Held'
    BY <2>1 DEF Held
  <2> QED
    BY <2>1, <2>2, <2>3, <2>4, <2>6, <2>7, <1>1, <1>4
<1>13. ASSUME CloseDb PROVE IInv'
  <2>1. /\ Stops("db") /\ Popped
        /\ UNCHANGED <<socket, consumers, queue, drains, sending, abandoned, listener, recent, budget>>
    BY <1>13 DEF CloseDb, queues
  <2>2. "db" \in Services /\ "db" \notin Loops \cup Subscriptions /\ "db" \notin Queues
    BY DEF Services, Loops, Subscriptions, Queues, Flushed
  <2>3. drains' \subseteq drains \ {"db"} /\ sending' \subseteq drains'
    BY <2>1, <2>2, <1>1
  <2> QED
    BY <2>1, <2>2, <2>3, <1>1, <1>2, <1>4
<1>14. ASSUME StopLog PROVE IInv'
  <2>1. /\ Stops("log") /\ Popped /\ drains' = drains \ {"log"} /\ sending' = sending \ {"log"}
        /\ UNCHANGED <<socket, consumers, queue, abandoned, listener, recent, budget>>
    BY <1>14 DEF StopLog
  <2>2. "log" \in Services /\ "log" \notin Loops \cup Subscriptions
    BY DEF Services, Loops, Subscriptions
  <2>3. sending' \subseteq drains'
    BY <2>1, <1>1
  <2>4. \A q \in Flushed \cup {"deferred"} : q # "log"
    BY DEF Flushed
  <2> QED
    BY <2>1, <2>2, <2>3, <2>4, <1>1, <1>4
<1>15. ASSUME Exit PROVE IInv'
  BY <1>15, PhaseStep DEF Exit
<1> QED
  BY <1>5, <1>6, <1>7, <1>8, <1>9, <1>10, <1>11, <1>12, <1>13, <1>14, <1>15 DEF Stop

-----------------------------------------------------------------------------
(* The theorems.                                                           *)

\* IInv holds in every state of the process's life: whatever runs has its
\* stop on the exit stack, whatever works runs, and what has left the stack
\* left no item behind that was not given up.
THEOREM Inductive == Spec => []IInv
<1>1. Init => IInv
  BY InitInv
<1>2. IInv /\ [Next]_vars => IInv'
  <2> SUFFICES ASSUME IInv, [Next]_vars PROVE IInv'
    OBVIOUS
  <2>1. CASE UNCHANGED vars
    <3>1. TypeOK'
      BY <2>1 DEF IInv, TypeOK, vars, consumers, queues
    <3>2. ScriptInv' /\ StackInv' /\ QueueInv'
      BY <2>1 DEF IInv, ScriptInv, StackInv, QueueInv, Busy, Held, Strays, vars, consumers, queues
    <3> QED
      BY <3>1, <3>2 DEF IInv
  <2>2. CASE ServerStops
    <3>1. ~(Held /\ up = 3)
      BY <2>2 DEF ServerStops, IInv, StackInv
    <3> QED
      BY <2>2, <3>1, PhaseStep DEF ServerStops, Unwind
  <2>3. CASE Next /\ ~ServerStops
    <3>1. Loops \subseteq Producers
      BY DEF Producers
    <3> QED
      BY <2>3, <3>1, StartInv, StopInv, DrainInv, ReceiveInv, CallInv, EventInv DEF Next
  <2> QED
    BY <2>1, <2>2, <2>3
<1> QED
  BY <1>1, <1>2, PTL DEF Spec

\* The state of the process has its type: the queues stay within their bound
\* and every handler in progress is somewhere in one of its scripts.
THEOREM TypeCorrect == Spec => []TypeOK
<1>1. IInv => TypeOK
  BY DEF IInv
<1> QED
  BY <1>1, Inductive, PTL

\* Services are stopped in an order in which no handler and no drain task
\* still has a call to make on a service whose stop has begun.
THEOREM FoundationsStand == Spec => []RunsOnItsFoundations
<1>1. ASSUME IInv PROVE RunsOnItsFoundations
  <2>1. up \in 0..14
    BY <1>1, OrderFacts DEF IInv, TypeOK
  <2> DEFINE high == IF phase = "stopping" THEN up - 1 ELSE up
  <2>2. ASSUME NEW n \in Services, Pos[n] <= high PROVE n \in Standing
    BY <2>2, OrderFacts DEF Standing
  <2>3. ASSUME NEW p \in Producers, NEW c \in Range(left[p]), NEW n \in Needed(c)
        PROVE  n \in Standing
    <3>1. Busy(p)
      BY DEF Busy, Range
    <3>2. c \in Calls(p)
      <4>1. left[p] \in Seq(Calls(p))
        BY <1>1 DEF IInv, ScriptInv
      <4> QED
        BY <4>1 DEF Range
    <3>3. n \in Services /\ Pos[n] <= up
      BY <1>1, <3>1, <3>2, CallStanding
    <3>4. CASE phase = "stopping"
      <4>1. p \in live /\ p # "api"
        BY <1>1, <3>1, <3>4 DEF IInv, StackInv, TypeOK, Loops, Subscriptions
      <4>2. Pos[p] <= up /\ Pos[n] < Pos[p] /\ Pos[p] \in Int /\ Pos[n] \in Int
        BY <1>1, <3>2, <4>1, NeedsEarlier, OrderFacts DEF IInv, StackInv
      <4> QED
        BY <2>1, <2>2, <3>3, <3>4, <4>2
    <3> QED
      BY <2>2, <3>3, <3>4
  <2>4. ASSUME NEW q \in sending, NEW n \in Needs[q]
        PROVE  n \in Standing
    <3>1. q \in Queues /\ Pos[q] <= up
      BY <1>1 DEF IInv, TypeOK, StackInv
    <3>2. n \in Services /\ Pos[n] < Pos[q] /\ Pos[q] \in Int /\ Pos[n] \in Int
      BY <3>1, NeedsEarlier, OrderFacts
    <3> QED
      BY <2>1, <2>2, <3>1, <3>2
  <2>5. \A n \in InUse : \/ \E p \in Producers : \E c \in Range(left[p]) : n \in Needed(c)
                        \/ \E q \in sending : n \in Needs[q]
    <3> DEFINE calls == UNION {Range(left[p]) : p \in Producers}
               ofCalls == UNION {Needed(call) : call \in calls}
               ofDrains == UNION {Needs[q] : q \in sending}
    <3>1. \A c \in calls : \E p \in Producers : c \in Range(left[p])
      OBVIOUS
    <3>2. InUse = ofCalls \cup ofDrains
      BY DEF InUse
    <3> HIDE DEF calls
    <3>3. \A n \in ofCalls : \E c \in calls : n \in Needed(c)
      OBVIOUS
    <3>4. \A n \in ofDrains : \E q \in sending : n \in Needs[q]
      OBVIOUS
    <3> HIDE DEF ofCalls, ofDrains
    <3> QED
      BY <3>1, <3>2, <3>3, <3>4
  <2> QED
    BY <2>3, <2>4, <2>5 DEF RunsOnItsFoundations
<1>2. IInv => RunsOnItsFoundations
  BY <1>1
<1> QED
  BY <1>2, Inductive, PTL

\* A process that has gone down, after a full run or after a failed start,
\* left no connection, no task, no unhandled message and no queued item that
\* was not given up when its grace period ran out; after a shutdown that
\* reached close() during a NATS outage, the NATS client and its alerts are
\* all it left.
THEOREM DownClean == Spec => []DownIsClean
<1>1. ASSUME IInv, phase = "down"
      PROVE  /\ socket \in {"none", "stray"} /\ listener = "off"
             /\ live = {} /\ drains = {}
             /\ \A p \in Producers : ~Busy(p)
             /\ \A p \in Loops : batch[p] = 0
             /\ \A q \in Flushed \cup {"deferred"} : queue[q] = 0 \/ q \in abandoned \/ Strays(q)
  <2>1. up = 0
    BY <1>1 DEF IInv, StackInv
  <2>2. live \subseteq Services /\ drains \subseteq Services
    BY <1>1, NeedsEarlier DEF IInv, TypeOK, Producers, Loops, Subscriptions
  <2>3. live = {} /\ drains = {}
    BY <1>1, <2>1, <2>2, OrderFacts DEF IInv, StackInv
  <2>4. socket \in {"none", "stray"} /\ listener = "off"
    BY <1>1, <2>1 DEF IInv, StackInv, TypeOK, Held
  <2>5. \A p \in Producers : ~Busy(p)
    BY <1>1, <2>3 DEF IInv, StackInv
  <2>6. \A p \in Loops : batch[p] = 0
    BY <1>1, <2>3 DEF IInv, StackInv
  <2>7. \A q \in Flushed \cup {"deferred"} : queue[q] = 0 \/ q \in abandoned \/ Strays(q)
    <3>1. \A q \in Flushed \cup {"deferred"} : q \in Services
      BY DEF Flushed, Services
    <3>2. \A q \in Flushed \cup {"deferred"} : Pos[q] > up
      BY <2>1, <3>1, OrderFacts
    <3> QED
      BY <1>1, <3>2 DEF IInv, QueueInv
  <2> QED
    BY <2>3, <2>4, <2>5, <2>6, <2>7
<1>2. IInv => DownIsClean
  BY <1>1 DEF DownIsClean
<1> QED
  BY <1>2, Inductive, PTL

=============================================================================
