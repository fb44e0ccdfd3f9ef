------------------------ MODULE BroadcastCycleProofs ------------------------
(***************************************************************************)
(* Proofs about one broadcast cycle, for any number of chats, dispatching  *)
(* tasks, changes and attempts.  What a dispatch promises depends on what  *)
(* may go wrong, so two of the theorems name the faults they exclude.      *)
(***************************************************************************)
EXTENDS BroadcastCycle, SequenceTheorems, TLAPS

-----------------------------------------------------------------------------
(* The inductive invariants.                                               *)

View == [seq: Nat, events: Nat, rows: [Chats -> ChatRow]]

Job == [pc: Steps, claimed: SUBSET Nat, view: View, left: SUBSET Chats, ok: BOOLEAN,
        chat: SUBSET Chats, put: ChatRow]

\* The steps at which a dispatch works on one chat, and those at which it
\* works from the cycle it loaded.
InHand == {"edit", "notify", "send", "upsert"}
Loaded == {"settings", "park", "defer", "deliver"} \cup InHand

\* What holds of a dispatch j while the log has n entries, the cycle e events
\* and the chats show the bodies b: nothing newer than what it loaded.
JobOK(j, n, e, b) ==
    /\ j \in Job /\ j.claimed \subseteq 1..n /\ j.view.seq <= n /\ j.view.events <= e
    /\ j.pc \in Loaded => \A c \in Chats : b[c] <= j.view.seq
    /\ j.pc \in InHand => \E c \in Chats : /\ j.chat = {c} /\ c \notin j.left
                                           /\ j.view.rows[c].seq < j.view.seq
    /\ j.pc \notin InHand => j.chat = {}

\* The lock: one dispatch at a time.
Mutex == \A t, u \in Tasks : job[t].pc # "idle" /\ job[u].pc # "idle" => t = u

BaseInv ==
    /\ TypeOK
    /\ job \in [Tasks -> Job]
    /\ Mutex
    /\ \A t \in Tasks : JobOK(job[t], Len(logs), events, body)

\* The entries of the log that are closed as DELIVERED.
Delivered == {s \in DOMAIN logs : logs[s].status = "DELIVERED"}

\* The steps of a dispatch that ends in finish_logs.
Closing == {"deliver", "finish"} \cup InHand

\* What holds of a dispatch j while the entries d are DELIVERED, the chats' rows
\* are r and they show the bodies b: the chats j has dealt with show what it
\* loaded, as long as all went well.
ShownJob(j, d, r, b) ==
    /\ j.pc \in Loaded \cup {"finish"} =>
          /\ j.claimed \subseteq 1..j.view.seq
          /\ \A s \in d : s <= j.view.seq
          /\ \A c \in Chats : j.view.rows[c].seq <= b[c]
    /\ j.pc = "settings" => \A c \in Chats : r[c].id => j.view.rows[c].id
    /\ j.pc \in Closing /\ j.ok =>
          \A c \in Chats : c \notin j.left /\ c \notin j.chat /\ r[c].id => b[c] >= j.view.seq
    /\ j.pc = "finish" => j.left = {}
    /\ j.pc = "notify" =>
          \A c \in j.chat : j.put.seq <= b[c] /\ b[c] >= j.view.seq /\ ~j.put.id
    /\ j.pc = "upsert" =>
          \A c \in j.chat : j.put.seq <= b[c] /\ (j.put.id \/ j.ok => b[c] >= j.view.seq)

\* delivered_seq is a body the chat has reached.
ShownInv ==
    /\ \A c \in Chats : row[c].seq <= body[c]
    /\ \A s \in Delivered : \A c \in Chats : row[c].id => body[c] >= s
    /\ \A t \in Tasks : ShownJob(job[t], Delivered, row, body)

\* The rows r of the chats a dispatch still has to deal with are as it loaded
\* them.
OnceJob(j, r) ==
    /\ j.pc = "settings" => \A c \in Chats : r[c].seq <= j.view.rows[c].seq
    /\ j.pc \in {"deliver"} \cup InHand =>
          \A c \in Chats : c \in j.left \/ c \in j.chat => r[c].seq <= j.view.rows[c].seq

\* A posted body is recorded, or about to be.
Recorded(c, n) ==
    \/ n <= row[c].seq
    \/ \E t \in Tasks : job[t].pc = "upsert" /\ c \in job[t].chat /\ n <= job[t].put.seq

OnceInv ==
    /\ \A c \in Chats : \A i \in DOMAIN posted[c] : Recorded(c, posted[c][i])
    /\ SameBodyPostedOnce
    /\ \A t \in Tasks : OnceJob(job[t], row)

-----------------------------------------------------------------------------
(* Lemmas shared by the actions.                                           *)

\* Only task t's dispatch moves.
Moves(t) == job' = [job EXCEPT ![t] = job'[t]]

\* What a step Goto(t, j) does.
LEMMA GotoMoves ==
    ASSUME job \in [Tasks -> Job], NEW t \in Tasks, NEW j, Goto(t, j)
    PROVE  Moves(t) /\ job'[t] = j
BY DEF Goto, Moves

\* The records a dispatch starts from.
LEMMA Blanks ==
    /\ NoRow \in ChatRow /\ NoRow.id = FALSE /\ NoRow.seq = 0 /\ NoRow.told = 0
    /\ NoView \in View /\ NoView.seq = 0 /\ NoView.events = 0
    /\ NoJob \in Job /\ NoJob.pc = "idle" /\ NoJob.claimed = {} /\ NoJob.left = {}
    /\ NoJob.chat = {} /\ NoJob.view = NoView /\ NoJob.put = NoRow /\ NoJob.ok = TRUE
<1>1. NoRow \in ChatRow /\ NoRow.id = FALSE /\ NoRow.seq = 0 /\ NoRow.told = 0
  BY DEF NoRow, ChatRow
<1>2. NoView \in View /\ NoView.seq = 0 /\ NoView.events = 0
  BY <1>1 DEF NoView, View
<1>3. /\ NoJob \in Job /\ NoJob.pc = "idle" /\ NoJob.claimed = {} /\ NoJob.left = {}
      /\ NoJob.chat = {} /\ NoJob.view = NoView /\ NoJob.put = NoRow /\ NoJob.ok = TRUE
  BY <1>1, <1>2 DEF NoJob, Job, Steps
<1> QED
  BY <1>1, <1>2, <1>3

\* An idle dispatch satisfies JobOK.
LEMMA IdleOK ==
    ASSUME NEW n \in Nat, NEW e \in Nat, NEW b
    PROVE  JobOK(NoJob, n, e, b)
BY Blanks DEF JobOK, Loaded, InHand

\* The type of each part of the state.
LEMMA Types ==
    ASSUME BaseInv
    PROVE  /\ logs \in Seq(Entry) /\ Len(logs) \in Nat /\ DOMAIN logs = 1..Len(logs)
           /\ \A s \in DOMAIN logs : logs[s] \in Entry
           /\ events \in Nat /\ events <= Len(logs)
           /\ row \in [Chats -> ChatRow] /\ \A c \in Chats : row[c] \in ChatRow
           /\ body \in [Chats -> 0..Len(logs)] /\ \A c \in Chats : body[c] \in Nat
           /\ job \in [Tasks -> Job] /\ \A t \in Tasks : job[t] \in Job
<1>1. logs \in Seq(Entry) /\ Len(logs) \in Nat /\ DOMAIN logs = 1..Len(logs)
  BY DEF BaseInv, TypeOK
<1>2. \A s \in DOMAIN logs : logs[s] \in Entry
  BY <1>1
<1>3. events \in 0..Len(logs) /\ row \in [Chats -> ChatRow] /\ body \in [Chats -> 0..Len(logs)]
  BY DEF BaseInv, TypeOK
<1>4. job \in [Tasks -> Job]
  BY DEF BaseInv
<1> QED
  BY <1>1, <1>2, <1>3, <1>4

\* The parts of a dispatch.
LEMMA JobParts ==
    ASSUME NEW j \in Job
    PROVE  /\ j.pc \in Steps /\ j.claimed \in SUBSET Nat /\ j.view \in View
           /\ j.left \in SUBSET Chats /\ j.ok \in BOOLEAN /\ j.chat \in SUBSET Chats
           /\ j.put \in ChatRow
           /\ j.view.seq \in Nat /\ j.view.events \in Nat
           /\ \A c \in Chats : /\ j.view.rows[c].id \in BOOLEAN /\ j.view.rows[c].seq \in Nat
                               /\ j.view.rows[c].told \in Nat
           /\ j.put.id \in BOOLEAN /\ j.put.seq \in Nat /\ j.put.told \in Nat
BY DEF Job, View, ChatRow

\* A step of the dispatch of task t keeps BaseInv if the dispatch it leaves
\* behind is sound and the data has its type.
LEMMA BaseFrame ==
    ASSUME BaseInv, NEW t \in Tasks, Moves(t), job[t].pc # "idle" \/ CanEnter(t),
           JobOK(job'[t], Len(logs), events, body'),
           logs' \in Seq(Entry), Len(logs') = Len(logs), events' = events, paused' = paused,
           row' \in [Chats -> ChatRow], body' \in [Chats -> 0..Len(logs)],
           posted' \in [Chats -> Seq(DOMAIN logs)], notices' \in [Chats -> Seq(1..events)],
           present' \in [Chats -> BOOLEAN]
    PROVE  BaseInv'
<1> USE Types
<1>1. \A u \in Tasks : u # t => job'[u] = job[u] /\ job[u].pc = "idle"
  <2>1. \A u \in Tasks : u # t => job[u].pc = "idle"
    BY DEF BaseInv, Mutex, CanEnter
  <2> QED
    BY <2>1 DEF Moves
<1>2. \A u \in Tasks : JobOK(job'[u], Len(logs), events, body')
  <2> TAKE u \in Tasks
  <2>1. CASE u # t
    <3>1. JobOK(job[u], Len(logs), events, body) /\ job'[u] = job[u] /\ job[u].pc = "idle"
      BY <1>1, <2>1 DEF BaseInv
    <3> QED
      BY <3>1 DEF JobOK, Loaded, InHand
  <2> QED
    BY <2>1
<1>3. job' \in [Tasks -> Job]
  <2>1. job'[t] \in Job
    BY DEF JobOK
  <2> QED
    BY <2>1 DEF Moves
<1>4. Mutex'
  BY <1>1 DEF Mutex
<1>5. TypeOK'
  <2>1. DOMAIN logs' = DOMAIN logs
    OBVIOUS
  <2>2. DOMAIN job' = Tasks
    BY <1>3
  <2>3. \A u \in Tasks : /\ job'[u].pc \in Steps /\ job'[u].claimed \subseteq DOMAIN logs'
                         /\ job'[u].view.seq <= Len(logs') /\ job'[u].left \subseteq Chats
    BY <1>2, <1>3, <2>1, JobParts DEF JobOK
  <2>4. events' \in 0..Len(logs') /\ paused' \in BOOLEAN
    BY DEF BaseInv, TypeOK
  <2> QED
    BY <2>1, <2>2, <2>3, <2>4 DEF TypeOK
<1> QED
  BY <1>2, <1>3, <1>4, <1>5 DEF BaseInv

-----------------------------------------------------------------------------
(* What each step of a dispatch does to the log, the job and the chats.    *)

\* Rewriting entries in place keeps the log a log of the same length.
LEMMA Rewritten ==
    ASSUME BaseInv, logs' = [s \in DOMAIN logs |-> logs'[s]],
           \A s \in DOMAIN logs : logs'[s] \in Entry
    PROVE  logs' \in Seq(Entry) /\ Len(logs') = Len(logs) /\ DOMAIN logs' = DOMAIN logs
<1>1. logs' \in [1..Len(logs) -> Entry] /\ Len(logs) \in Nat
  BY Types
<1>2. logs' \in Seq(Entry)
  BY <1>1
<1> QED
  BY <1>1, <1>2, LenProperties, Types

\* No entry becomes DELIVERED.
NoneDelivered == \A s \in DOMAIN logs : logs'[s].status = "DELIVERED" => logs[s].status = "DELIVERED"

\* claim_pending_logs
LEMMA ClaimEffect ==
    ASSUME BaseInv, NEW t \in Tasks, NEW o \in WriteOutcomes, Claim(t, o)
    PROVE  /\ CanEnter(t) /\ job[t].pc = "idle" /\ Moves(t)
           /\ UNCHANGED <<events, row, paused, body, posted, notices, present>>
           /\ logs' \in Seq(Entry) /\ Len(logs') = Len(logs) /\ NoneDelivered
           /\ \/ job'[t] = job[t]
              \/ /\ job'[t] \in Job /\ job'[t].pc = "load" /\ job'[t].claimed \subseteq DOMAIN logs
                 /\ job'[t].view = NoView /\ job'[t].left = {} /\ job'[t].chat = {}
                 /\ job'[t].ok = TRUE
<1> DEFINE e(s) == [status |-> "SENDING", attempts |-> logs[s].attempts + 1]
<1>1. /\ CanEnter(t) /\ job[t].pc = "idle" /\ UNCHANGED <<events, row, paused, tgVars>>
      /\ logs' = [s \in DOMAIN logs |-> IF s \in Claimable THEN e(s) ELSE logs[s]]
      /\ \/ Goto(t, [NoJob EXCEPT !.pc = "load", !.claimed = Claimable])
         \/ job' = job
  BY DEF Claim
<1>2. \A s \in Claimable : e(s) \in Entry /\ e(s).status = "SENDING"
  <2> TAKE s \in Claimable
  <2>1. s \in DOMAIN logs /\ logs[s] \in Entry /\ logs[s].attempts < MaxAttempts
    BY Types DEF Claimable
  <2>2. logs[s].attempts + 1 \in 0..MaxAttempts
    BY <2>1, BroadcastAssumption DEF Entry
  <2> QED
    BY <2>2 DEF Entry
<1> HIDE DEF e
<1>3. \A s \in DOMAIN logs : (s \in Claimable /\ logs'[s] = e(s)) \/ logs'[s] = logs[s]
  BY <1>1
<1>4. NoneDelivered
  BY <1>2, <1>3 DEF NoneDelivered
<1>5. logs' \in Seq(Entry) /\ Len(logs') = Len(logs)
  <2>1. logs' = [s \in DOMAIN logs |-> logs'[s]]
    BY <1>1
  <2>2. \A s \in DOMAIN logs : logs'[s] \in Entry
    BY <1>2, <1>3, Types
  <2> QED
    BY <2>1, <2>2, Rewritten
<1>6. CASE job' = job
  <2>1. Moves(t)
    BY <1>6, Types DEF Moves
  <2> QED
    BY <2>1, <1>1, <1>4, <1>5, <1>6 DEF tgVars
<1>7. CASE Goto(t, [NoJob EXCEPT !.pc = "load", !.claimed = Claimable])
  <2> DEFINE j == [NoJob EXCEPT !.pc = "load", !.claimed = Claimable]
  <2>1. Claimable \subseteq DOMAIN logs /\ Claimable \in SUBSET Nat
    BY Types DEF Claimable
  <2>2. /\ j \in Job /\ j.pc = "load" /\ j.claimed = Claimable /\ j.view = NoView /\ j.left = {}
        /\ j.chat = {} /\ j.ok = TRUE
    BY <2>1, Blanks DEF Job, Steps
  <2> HIDE DEF j
  <2>3. Moves(t) /\ job'[t] = j
    BY <1>7, Types, GotoMoves DEF j
  <2> QED
    BY <2>1, <2>2, <2>3, <1>1, <1>4, <1>5 DEF tgVars
<1> QED
  BY <1>1, <1>6, <1>7

\* load_cycle
LEMMA LoadEffect ==
    ASSUME BaseInv, NEW t \in Tasks, NEW a \in ReadOutcomes, LoadCycle(t, a)
    PROVE  /\ job[t].pc = "load" /\ Moves(t)
           /\ UNCHANGED <<logs, events, row, paused, body, posted, notices, present>>
           /\ job'[t] \in Job /\ job'[t].claimed = job[t].claimed /\ job'[t].left = job[t].left
           /\ job'[t].chat = job[t].chat /\ job'[t].ok = job[t].ok
           /\ \/ /\ job'[t].pc = "settings" /\ job'[t].view.seq = Len(logs)
                 /\ job'[t].view.events = events /\ job'[t].view.rows = row
              \/ a = FALSE /\ job'[t].pc = "finish" /\ job'[t].view = job[t].view
<1> DEFINE v == [seq |-> Len(logs), events |-> events, rows |-> row]
           j == [job[t] EXCEPT !.pc = "settings", !.view = v]
           k == [job[t] EXCEPT !.pc = "finish"]
<1>1. /\ job[t].pc = "load" /\ UNCHANGED <<logs, events, row, paused, body, posted, notices, present>>
      /\ Goto(t, IF a THEN j ELSE k)
  BY DEF LoadCycle, dbVars, tgVars
<1>2. v \in View /\ v.seq = Len(logs) /\ v.events = events /\ v.rows = row
  BY Types DEF View
<1>3. job[t] \in Job
  BY Types
<1>4. /\ j \in Job /\ j.pc = "settings" /\ j.view = v /\ j.claimed = job[t].claimed
      /\ j.left = job[t].left /\ j.chat = job[t].chat /\ j.ok = job[t].ok
  <2> HIDE DEF v
  <2> QED
    BY <1>2, <1>3 DEF Job, Steps
<1>5. /\ k \in Job /\ k.pc = "finish" /\ k.view = job[t].view /\ k.claimed = job[t].claimed
      /\ k.left = job[t].left /\ k.chat = job[t].chat /\ k.ok = job[t].ok
  BY <1>3 DEF Job, Steps
<1>6. a \in BOOLEAN
  BY DEF ReadOutcomes
<1> HIDE DEF v, j, k
<1>7. CASE a = TRUE
  <2>1. Moves(t) /\ job'[t] = j
    BY <1>1, <1>7, Types, GotoMoves
  <2> QED
    BY <2>1, <1>1, <1>2, <1>4
<1>8. CASE a = FALSE
  <2>1. Moves(t) /\ job'[t] = k
    BY <1>1, <1>8, Types, GotoMoves
  <2> QED
    BY <2>1, <1>1, <1>5, <1>8
<1> QED
  BY <1>6, <1>7, <1>8

\* get_many and the choice it decides
LEMMA SettingsEffect ==
    ASSUME BaseInv, NEW t \in Tasks, NEW a \in ReadOutcomes, ReadSettings(t, a)
    PROVE  /\ job[t].pc = "settings" /\ Moves(t)
           /\ UNCHANGED <<logs, events, row, paused, body, posted, notices, present>>
           /\ job'[t] \in Job /\ job'[t].claimed = job[t].claimed /\ job'[t].view = job[t].view
           /\ job'[t].chat = job[t].chat /\ job'[t].ok = job[t].ok
           /\ \/ job'[t].pc = "park"
              \/ job'[t].pc = "finish" /\ job'[t].left = {} /\ ChatsBehind(job[t].view) = {}
              \/ job'[t].pc = "deliver" /\ (a => job'[t].left = Chats)
<1> DEFINE behind == ChatsBehind(job[t].view)
           targets == IF a THEN Chats ELSE Private
           j == [job[t] EXCEPT !.pc = IF behind = {} THEN "finish" ELSE "park", !.left = behind]
           k == [job[t] EXCEPT !.pc = "deliver", !.left = targets]
<1>1. /\ job[t].pc = "settings"
      /\ UNCHANGED <<logs, events, row, paused, body, posted, notices, present>>
      /\ Goto(t, j) \/ Goto(t, k)
  BY DEF ReadSettings, dbVars, tgVars
<1>2. behind \in SUBSET Chats /\ targets \in SUBSET Chats /\ (a => targets = Chats)
  BY BroadcastAssumption DEF ChatsBehind, ReadOutcomes
<1>3. job[t] \in Job
  BY Types
<1> HIDE DEF behind, targets
<1>4. /\ j \in Job /\ j.claimed = job[t].claimed /\ j.view = job[t].view /\ j.left = behind
      /\ j.chat = job[t].chat /\ j.ok = job[t].ok
      /\ j.pc = IF behind = {} THEN "finish" ELSE "park"
  BY <1>2, <1>3 DEF Job, Steps
<1>5. /\ k \in Job /\ k.claimed = job[t].claimed /\ k.view = job[t].view /\ k.left = targets
      /\ k.chat = job[t].chat /\ k.ok = job[t].ok /\ k.pc = "deliver"
  BY <1>2, <1>3 DEF Job, Steps
<1> HIDE DEF j, k
<1>6. CASE Goto(t, j)
  <2>1. Moves(t) /\ job'[t] = j
    BY <1>6, Types, GotoMoves
  <2> QED
    BY <2>1, <1>1, <1>4 DEF behind
<1>7. CASE Goto(t, k)
  <2>1. Moves(t) /\ job'[t] = k
    BY <1>7, Types, GotoMoves
  <2> QED
    BY <2>1, <1>1, <1>2, <1>5
<1> QED
  BY <1>1, <1>6, <1>7

\* upsert_chat keeps the higher counters and any id.
LEMMA UpsertedRow ==
    ASSUME NEW r \in ChatRow, NEW p \in ChatRow
    PROVE  /\ Upserted(r, p) \in ChatRow /\ Upserted(r, p).id = (r.id \/ p.id)
           /\ Upserted(r, p).seq = IF p.seq > r.seq THEN p.seq ELSE r.seq
BY DEF Upserted, ChatRow

\* _park
LEMMA ParkEffect ==
    ASSUME BaseInv, NEW t \in Tasks, NEW c \in Chats, NEW o \in WriteOutcomes, Park(t, c, o)
    PROVE  /\ job[t].pc = "park" /\ Moves(t)
           /\ UNCHANGED <<logs, events, paused, body, posted, notices, present>>
           /\ row' \in [Chats -> ChatRow]
           /\ \A d \in Chats : row'[d].id = row[d].id /\ row'[d].seq = row[d].seq
           /\ job'[t] \in Job /\ job'[t].claimed = job[t].claimed /\ job'[t].view = job[t].view
           /\ job'[t].chat = job[t].chat /\ job'[t].pc \in {"park", "defer"}
<1> DEFINE p == [NoRow EXCEPT !.told = job[t].view.events]
           j == [job[t] EXCEPT !.left = @ \ {c},
                               !.pc = IF job[t].left = {c} THEN "defer" ELSE "park"]
<1>1. /\ job[t].pc = "park" /\ UNCHANGED <<logs, events, paused, body, posted, notices, present>>
      /\ row' = row \/ row' = [row EXCEPT ![c] = Upserted(@, p)]
      /\ Goto(t, j)
  BY DEF Park, tgVars
<1>2. job[t] \in Job /\ job[t].view.events \in Nat /\ row \in [Chats -> ChatRow] /\ row[c] \in ChatRow
  BY Types, JobParts
<1>3. p \in ChatRow /\ p.id = FALSE /\ p.seq = 0
  BY <1>2, Blanks DEF ChatRow
<1>4. /\ j \in Job /\ j.claimed = job[t].claimed /\ j.view = job[t].view
      /\ j.chat = job[t].chat /\ j.pc \in {"park", "defer"}
  BY <1>2 DEF Job, Steps
<1> HIDE DEF p, j
<1>5. /\ row' \in [Chats -> ChatRow]
      /\ \A d \in Chats : row'[d].id = row[d].id /\ row'[d].seq = row[d].seq
  <2>1. CASE row' = row
    BY <2>1, <1>2
  <2>2. CASE row' = [row EXCEPT ![c] = Upserted(@, p)]
    <3> DEFINE r == Upserted(row[c], p)
    <3>1. r \in ChatRow /\ r.id = (row[c].id \/ p.id) /\ r.seq = IF p.seq > row[c].seq THEN p.seq ELSE row[c].seq
      BY <1>2, <1>3, UpsertedRow
    <3>2. row' = [row EXCEPT ![c] = r]
      BY <2>2
    <3> HIDE DEF r
    <3>3. r.id = row[c].id /\ r.seq = row[c].seq
      BY <3>1, <1>2, <1>3 DEF ChatRow
    <3> QED
      BY <3>1, <3>2, <3>3, <1>2
  <2> QED
    BY <1>1, <2>1, <2>2
<1>6. Moves(t) /\ job'[t] = j
  BY <1>1, Types, GotoMoves
<1> QED
  BY <1>1, <1>4, <1>5, <1>6

\* defer_logs
LEMMA DeferEffect ==
    ASSUME BaseInv, NEW t \in Tasks, NEW o \in WriteOutcomes, Defer(t, o)
    PROVE  /\ job[t].pc = "defer" /\ Moves(t) /\ job'[t] = NoJob
           /\ UNCHANGED <<events, row, paused, body, posted, notices, present>>
           /\ logs' \in Seq(Entry) /\ Len(logs') = Len(logs) /\ NoneDelivered
<1> DEFINE e(s) == [status |-> "PENDING",
                    attempts |-> IF logs[s].attempts = 0 THEN 0 ELSE logs[s].attempts - 1]
<1>1. /\ job[t].pc = "defer" /\ UNCHANGED <<events, row, paused, body, posted, notices, present>>
      /\ Goto(t, NoJob)
      /\ \/ logs' = logs
         \/ logs' = [s \in DOMAIN logs |-> IF s \in job[t].claimed THEN e(s) ELSE logs[s]]
  BY DEF Defer, tgVars
<1>2. Moves(t) /\ job'[t] = NoJob
  BY <1>1, Types, GotoMoves
<1>3. \A s \in DOMAIN logs : e(s) \in Entry /\ e(s).status = "PENDING"
  <2> TAKE s \in DOMAIN logs
  <2>1. logs[s].attempts \in 0..MaxAttempts
    BY Types DEF Entry
  <2>2. (IF logs[s].attempts = 0 THEN 0 ELSE logs[s].attempts - 1) \in 0..MaxAttempts
    BY <2>1, BroadcastAssumption
  <2> QED
    BY <2>2 DEF Entry
<1> HIDE DEF e
<1>4. CASE logs' = logs
  BY <1>1, <1>2, <1>4, Types DEF NoneDelivered
<1>5. CASE logs' = [s \in DOMAIN logs |-> IF s \in job[t].claimed THEN e(s) ELSE logs[s]]
  <2>1. \A s \in DOMAIN logs : logs'[s] = e(s) \/ logs'[s] = logs[s]
    BY <1>5
  <2>2. \A s \in DOMAIN logs : logs'[s] \in Entry
    BY <2>1, <1>3, Types
  <2>3. logs' = [s \in DOMAIN logs |-> logs'[s]]
    BY <1>5
  <2>4. NoneDelivered
    BY <2>1, <1>3 DEF NoneDelivered
  <2> QED
    BY <2>2, <2>3, <2>4, <1>1, <1>2, Rewritten
<1> QED
  BY <1>1, <1>4, <1>5

\* finish_logs
LEMMA FinishEffect ==
    ASSUME BaseInv, NEW t \in Tasks, NEW o \in WriteOutcomes, Finish(t, o)
    PROVE  /\ job[t].pc = "finish" /\ Moves(t) /\ job'[t] = NoJob
           /\ UNCHANGED <<events, row, paused, body, posted, notices, present>>
           /\ logs' \in Seq(Entry) /\ Len(logs') = Len(logs)
           /\ \A s \in DOMAIN logs : logs'[s].status = "DELIVERED" =>
                 logs[s].status = "DELIVERED" \/ (s \in job[t].claimed /\ job[t].ok)
<1> DEFINE e(s) == [logs[s] EXCEPT !.status = FinishedStatus(logs[s], job[t].ok)]
<1>1. /\ job[t].pc = "finish" /\ UNCHANGED <<events, row, paused, body, posted, notices, present>>
      /\ Goto(t, NoJob)
      /\ \/ logs' = logs
         \/ logs' = [s \in DOMAIN logs |-> IF s \in job[t].claimed THEN e(s) ELSE logs[s]]
  BY DEF Finish, FinishedIds, tgVars
<1>2. Moves(t) /\ job'[t] = NoJob
  BY <1>1, Types, GotoMoves
<1>3. \A s \in DOMAIN logs : e(s) \in Entry /\ (e(s).status = "DELIVERED" => job[t].ok)
  <2> TAKE s \in DOMAIN logs
  <2>1. logs[s] \in Entry
    BY Types
  <2>2. /\ FinishedStatus(logs[s], job[t].ok) \in {"DELIVERED", "FAILED", "PENDING"}
        /\ FinishedStatus(logs[s], job[t].ok) = "DELIVERED" => job[t].ok
    BY DEF FinishedStatus
  <2> QED
    BY <2>1, <2>2 DEF Entry
<1> HIDE DEF e
<1>4. CASE logs' = logs
  BY <1>1, <1>2, <1>4, Types
<1>5. CASE logs' = [s \in DOMAIN logs |-> IF s \in job[t].claimed THEN e(s) ELSE logs[s]]
  <2>1. \A s \in DOMAIN logs : (s \in job[t].claimed /\ logs'[s] = e(s)) \/ logs'[s] = logs[s]
    BY <1>5
  <2>2. \A s \in DOMAIN logs : logs'[s] \in Entry
    BY <2>1, <1>3, Types
  <2>3. logs' = [s \in DOMAIN logs |-> logs'[s]]
    BY <1>5
  <2>4. logs' \in Seq(Entry) /\ Len(logs') = Len(logs)
    BY <2>2, <2>3, Rewritten
  <2>5. \A s \in DOMAIN logs : logs'[s].status = "DELIVERED" =>
            logs[s].status = "DELIVERED" \/ (s \in job[t].claimed /\ job[t].ok)
    BY <2>1, <1>3
  <2> QED
    BY <2>4, <2>5, <1>1, <1>2
<1> QED
  BY <1>1, <1>4, <1>5

\* A dispatch that has a chat in hand has exactly one.
LEMMA ChatInHand ==
    ASSUME BaseInv, NEW t \in Tasks, job[t].pc \in InHand
    PROVE  \E c \in Chats : /\ job[t].chat = {c} /\ c \notin job[t].left
                            /\ job[t].view.rows[c].seq < job[t].view.seq
BY DEF BaseInv, JobOK

\* The next chat of _deliver_all, or the end of the list
LEMMA NextChatJob ==
    ASSUME NEW j \in Job
    PROVE  /\ NextChat(j) \in Job /\ NextChat(j).claimed = j.claimed /\ NextChat(j).view = j.view
           /\ NextChat(j).left = j.left /\ NextChat(j).ok = j.ok /\ NextChat(j).chat = {}
           /\ NextChat(j).put = NoRow
           /\ \/ NextChat(j).pc = "finish" /\ j.left = {}
              \/ NextChat(j).pc = "deliver"
BY Blanks DEF NextChat, Job, Steps

\* The start of _deliver
LEMMA DeliverEffect ==
    ASSUME BaseInv, NEW t \in Tasks, NEW c \in Chats, Deliver(t, c)
    PROVE  /\ job[t].pc = "deliver" /\ c \in job[t].left /\ Moves(t)
           /\ UNCHANGED <<logs, events, row, paused, body, posted, notices, present>>
           /\ job'[t] \in Job /\ job'[t].claimed = job[t].claimed /\ job'[t].view = job[t].view
           /\ job'[t].left = job[t].left \ {c} /\ job'[t].ok = job[t].ok
           /\ \/ /\ job[t].view.rows[c].seq >= job[t].view.seq /\ job'[t].chat = {}
                 /\ \/ job'[t].pc = "finish" /\ job'[t].left = {}
                    \/ job'[t].pc = "deliver"
              \/ /\ job[t].view.rows[c].seq < job[t].view.seq /\ job'[t].chat = {c}
                 /\ job'[t].pc \in {"edit", "send"}
<1> DEFINE r == job[t].view.rows[c]
           j == [job[t] EXCEPT !.left = @ \ {c}]
           k == [j EXCEPT !.chat = {c}, !.pc = IF r.id THEN "edit" ELSE "send"]
<1>1. /\ job[t].pc = "deliver" /\ c \in job[t].left
      /\ UNCHANGED <<logs, events, row, paused, body, posted, notices, present>>
      /\ Goto(t, IF r.seq >= job[t].view.seq THEN NextChat(j) ELSE k)
  BY DEF Deliver, dbVars, tgVars
<1>2. job[t] \in Job /\ r.seq \in Nat /\ job[t].view.seq \in Nat
  BY Types, JobParts
<1>3. /\ j \in Job /\ j.claimed = job[t].claimed /\ j.view = job[t].view
      /\ j.left = job[t].left \ {c} /\ j.ok = job[t].ok
  BY <1>2 DEF Job
<1> HIDE DEF j, r
<1>4. /\ k \in Job /\ k.claimed = job[t].claimed /\ k.view = job[t].view
      /\ k.left = job[t].left \ {c} /\ k.ok = job[t].ok /\ k.chat = {c} /\ k.pc \in {"edit", "send"}
  BY <1>3 DEF Job, Steps
<1> HIDE DEF k
<1>5. CASE r.seq >= job[t].view.seq
  <2>1. Moves(t) /\ job'[t] = NextChat(j)
    BY <1>1, <1>5, Types, GotoMoves
  <2> QED
    BY <2>1, <1>1, <1>3, <1>5, NextChatJob DEF r
<1>6. CASE r.seq < job[t].view.seq
  <2>1. ~(r.seq >= job[t].view.seq)
    BY <1>2, <1>6
  <2>2. Moves(t) /\ job'[t] = k
    BY <1>1, <2>1, Types, GotoMoves
  <2> QED
    BY <2>2, <1>1, <1>4, <1>6 DEF r
<1> QED
  BY <1>2, <1>5, <1>6

\* What Write makes of the dispatch
LEMMA WriteEffect ==
    ASSUME BaseInv, NEW t \in Tasks, NEW p \in ChatRow, NEW ok \in BOOLEAN,
           Write(t, job[t], p, ok)
    PROVE  /\ Moves(t) /\ job'[t] \in Job /\ job'[t].claimed = job[t].claimed
           /\ job'[t].view = job[t].view /\ job'[t].left = job[t].left /\ job'[t].chat = job[t].chat
           /\ job'[t].pc = "upsert" /\ job'[t].put = p /\ job'[t].ok = (job[t].ok /\ ok)
<1> DEFINE k == job[t].ok /\ ok
           j == [job[t] EXCEPT !.pc = "upsert", !.put = p, !.ok = k]
<1>1. Goto(t, j)
  BY DEF Write
<1>2. job[t] \in Job /\ k \in BOOLEAN
  BY Types, JobParts
<1> HIDE DEF k
<1>3. /\ j \in Job /\ j.claimed = job[t].claimed /\ j.view = job[t].view /\ j.left = job[t].left
      /\ j.chat = job[t].chat /\ j.pc = "upsert" /\ j.put = p /\ j.ok = k
  BY <1>2 DEF Job, Steps
<1> HIDE DEF j
<1>4. Moves(t) /\ job'[t] = j
  BY <1>1, Types, GotoMoves
<1> QED
  BY <1>3, <1>4 DEF k

\* edit_message
LEMMA EditEffect ==
    ASSUME BaseInv, NEW t \in Tasks, NEW l \in BOOLEAN, NEW a \in BOOLEAN, Edit(t, l, a),
           NEW c \in Chats, job[t].chat = {c}
    PROVE  /\ job[t].pc = "edit" /\ Moves(t)
           /\ UNCHANGED <<logs, events, row, paused, posted, notices, present>>
           /\ job'[t] \in Job /\ job'[t].claimed = job[t].claimed /\ job'[t].view = job[t].view
           /\ job'[t].left = job[t].left /\ job'[t].chat = job[t].chat
           /\ body' = body \/ body' = [body EXCEPT ![c] = job[t].view.seq]
           /\ \/ job'[t].pc = "send" /\ body' = body /\ job'[t].ok = job[t].ok
              \/ /\ job'[t].pc = "notify" /\ body' = [body EXCEPT ![c] = job[t].view.seq]
                 /\ job'[t].put.id = FALSE /\ job'[t].put.seq = job[t].view.seq
                 /\ job'[t].ok = job[t].ok
              \/ job'[t].pc = "upsert" /\ job'[t].put = NoRow /\ job'[t].ok = FALSE
<1> DEFINE p == [id |-> FALSE, seq |-> job[t].view.seq, told |-> job[t].view.rows[c].told]
           j == [job[t] EXCEPT !.pc = "send"]
           k == [job[t] EXCEPT !.pc = "notify", !.put = p]
<1>1. job[t].pc = "edit" /\ UNCHANGED <<logs, events, row, paused, posted, notices, present>>
  BY DEF Edit, dbVars
<1>2. \/ Goto(t, j) /\ body' = body
      \/ /\ a => l
         /\ body' = IF l THEN [body EXCEPT ![c] = job[t].view.seq] ELSE body
         /\ IF a THEN Goto(t, k) ELSE Write(t, job[t], NoRow, FALSE)
  BY DEF Edit
<1>3. job[t] \in Job /\ p \in ChatRow /\ p.id = FALSE /\ p.seq = job[t].view.seq
  BY Types, JobParts DEF ChatRow
<1> HIDE DEF p
<1>4. /\ j \in Job /\ j.claimed = job[t].claimed /\ j.view = job[t].view /\ j.left = job[t].left
      /\ j.chat = job[t].chat /\ j.ok = job[t].ok /\ j.pc = "send"
  BY <1>3 DEF Job, Steps
<1>5. /\ k \in Job /\ k.claimed = job[t].claimed /\ k.view = job[t].view /\ k.left = job[t].left
      /\ k.chat = job[t].chat /\ k.ok = job[t].ok /\ k.pc = "notify" /\ k.put = p
  BY <1>3 DEF Job, Steps
<1> HIDE DEF j, k
<1>6. CASE Goto(t, j) /\ body' = body
  <2>1. Moves(t) /\ job'[t] = j
    BY <1>6, Types, GotoMoves
  <2> QED
    BY <2>1, <1>1, <1>4, <1>6
<1>7. CASE Goto(t, k) /\ body' = [body EXCEPT ![c] = job[t].view.seq]
  <2>1. Moves(t) /\ job'[t] = k
    BY <1>7, Types, GotoMoves
  <2> QED
    BY <2>1, <1>1, <1>3, <1>5, <1>7
<1>8. CASE /\ Write(t, job[t], NoRow, FALSE)
           /\ body' = body \/ body' = [body EXCEPT ![c] = job[t].view.seq]
  <2>1. /\ Moves(t) /\ job'[t] \in Job /\ job'[t].claimed = job[t].claimed
        /\ job'[t].view = job[t].view /\ job'[t].left = job[t].left /\ job'[t].chat = job[t].chat
        /\ job'[t].pc = "upsert" /\ job'[t].put = NoRow /\ job'[t].ok = (job[t].ok /\ FALSE)
    BY <1>8, Blanks, WriteEffect
  <2> QED
    BY <2>1, <1>1, <1>8
<1> QED
  BY <1>2, <1>6, <1>7, <1>8

\* _notify_updates
LEMMA NotifyEffect ==
    ASSUME BaseInv, NEW t \in Tasks, NEW l \in BOOLEAN, NEW a \in BOOLEAN, Notify(t, l, a),
           NEW c \in Chats, job[t].chat = {c}
    PROVE  /\ job[t].pc = "notify" /\ Moves(t)
           /\ UNCHANGED <<logs, events, row, paused, body, posted, present>>
           /\ notices' \in [Chats -> Seq(1..events)]
           /\ job'[t] \in Job /\ job'[t].claimed = job[t].claimed /\ job'[t].view = job[t].view
           /\ job'[t].left = job[t].left /\ job'[t].chat = job[t].chat /\ job'[t].ok = job[t].ok
           /\ job'[t].put.id = job[t].put.id /\ job'[t].put.seq = job[t].put.seq
           /\ job'[t].pc \in {"notify", "upsert"}
<1> DEFINE told == job[t].put.told
           all == job[t].view.events
           p == [job[t].put EXCEPT !.told = all]
           q == [job[t].put EXCEPT !.told = told + 1]
           j == [job[t] EXCEPT !.put.told = told + 1]
<1>1. job[t].pc = "notify" /\ UNCHANGED <<logs, events, row, paused, body, posted, present>>
  BY DEF Notify, dbVars
<1>2. \/ Write(t, job[t], p, TRUE) /\ notices' = notices
      \/ /\ told < all
         /\ notices' = notices \/ notices' = [notices EXCEPT ![c] = Append(@, told + 1)]
         /\ Goto(t, j) \/ Write(t, job[t], job[t].put, TRUE)
  BY DEF Notify
<1>3. /\ job[t] \in Job /\ told \in Nat /\ all \in Nat /\ all <= events /\ events \in Nat
      /\ job[t].put \in ChatRow /\ job[t].ok \in BOOLEAN
  BY Types, JobParts DEF BaseInv, JobOK
<1>4. /\ p \in ChatRow /\ p.id = job[t].put.id /\ p.seq = job[t].put.seq
      /\ q \in ChatRow /\ q.id = job[t].put.id /\ q.seq = job[t].put.seq
  BY <1>3 DEF ChatRow
<1>5. j = [job[t] EXCEPT !.put = q]
  BY <1>3 DEF Job, ChatRow
<1> HIDE DEF p, q, j
<1>6. /\ j \in Job /\ j.claimed = job[t].claimed /\ j.view = job[t].view /\ j.left = job[t].left
      /\ j.chat = job[t].chat /\ j.ok = job[t].ok /\ j.pc = job[t].pc /\ j.put = q
  BY <1>3, <1>4, <1>5 DEF Job
<1>7. notices \in [Chats -> Seq(1..events)]
  BY DEF BaseInv, TypeOK
<1>8. CASE Write(t, job[t], p, TRUE) /\ notices' = notices
  BY <1>8, <1>1, <1>3, <1>4, <1>7, WriteEffect
<1>9. CASE /\ told < all
           /\ notices' = notices \/ notices' = [notices EXCEPT ![c] = Append(@, told + 1)]
           /\ Goto(t, j) \/ Write(t, job[t], job[t].put, TRUE)
  <2>1. notices' \in [Chats -> Seq(1..events)]
    <3>1. told + 1 \in 1..events
      BY <1>3, <1>9
    <3>2. notices[c] \in Seq(1..events)
      BY <1>7
    <3>3. Append(notices[c], told + 1) \in Seq(1..events)
      BY <3>1, <3>2, AppendProperties
    <3> QED
      BY <3>3, <1>7, <1>9
  <2>2. CASE Goto(t, j)
    <3>1. Moves(t) /\ job'[t] = j
      BY <2>2, Types, GotoMoves
    <3> QED
      BY <3>1, <2>1, <1>1, <1>4, <1>6
  <2>3. CASE Write(t, job[t], job[t].put, TRUE)
    BY <2>1, <2>3, <1>1, <1>3, WriteEffect
  <2> QED
    BY <1>9, <2>2, <2>3
<1> QED
  BY <1>2, <1>8, <1>9

\* send_message
LEMMA SendEffect ==
    ASSUME BaseInv, NEW t \in Tasks, NEW o \in SendOutcomes, Send(t, o),
           NEW c \in Chats, job[t].chat = {c}
    PROVE  /\ job[t].pc = "send" /\ Moves(t)
           /\ UNCHANGED <<logs, events, row, paused, notices, present>>
           /\ job'[t] \in Job /\ job'[t].claimed = job[t].claimed /\ job'[t].view = job[t].view
           /\ job'[t].left = job[t].left /\ job'[t].chat = job[t].chat /\ job'[t].pc = "upsert"
           /\ \/ /\ body' = body /\ posted' = posted /\ job'[t].ok = FALSE /\ job'[t].put.id = FALSE
                 /\ \/ job'[t].put.seq = 0
                    \/ job'[t].put.seq = job[t].view.seq /\ "swallow" \in Faults
              \/ /\ body' = [body EXCEPT ![c] = job[t].view.seq]
                 /\ posted' = [posted EXCEPT ![c] = Append(@, job[t].view.seq)]
                 /\ job'[t].put.seq = job[t].view.seq /\ (job'[t].ok => job[t].ok)
<1> DEFINE v == job[t].view
           p == [id |-> TRUE, seq |-> v.seq, told |-> v.events]
<1>1. job[t].pc = "send" /\ UNCHANGED <<logs, events, row, paused, notices, present>>
  BY DEF Send, dbVars
<1>2. job[t] \in Job /\ v.seq \in Nat /\ v.events \in Nat /\ job[t].ok \in BOOLEAN
  BY Types, JobParts
<1>3. /\ p \in ChatRow /\ p.seq = v.seq
      /\ UnknownPut(v) \in ChatRow /\ UnknownPut(v).seq = v.seq /\ UnknownPut(v).id = FALSE
  BY <1>2 DEF UnknownPut, ChatRow
<1>4. CASE o = "OK"
  <2>1. /\ body' = [body EXCEPT ![c] = v.seq] /\ posted' = [posted EXCEPT ![c] = Append(@, v.seq)]
        /\ Write(t, job[t], p, TRUE)
    BY <1>4 DEF Send
  <2> HIDE DEF p, v
  <2>2. /\ Moves(t) /\ job'[t] \in Job /\ job'[t].claimed = job[t].claimed
        /\ job'[t].view = job[t].view /\ job'[t].left = job[t].left /\ job'[t].chat = job[t].chat
        /\ job'[t].pc = "upsert" /\ job'[t].put = p /\ job'[t].ok = (job[t].ok /\ TRUE)
    BY <2>1, <1>3, WriteEffect
  <2> QED
    BY <2>1, <2>2, <1>1, <1>3 DEF v
<1>5. CASE o = "UNKNOWN"
  <2>1. /\ body' = [body EXCEPT ![c] = v.seq] /\ posted' = [posted EXCEPT ![c] = Append(@, v.seq)]
        /\ Write(t, job[t], UnknownPut(v), FALSE)
    BY <1>5 DEF Send
  <2> HIDE DEF v
  <2>2. /\ Moves(t) /\ job'[t] \in Job /\ job'[t].claimed = job[t].claimed
        /\ job'[t].view = job[t].view /\ job'[t].left = job[t].left /\ job'[t].chat = job[t].chat
        /\ job'[t].pc = "upsert" /\ job'[t].put = UnknownPut(v) /\ job'[t].ok = (job[t].ok /\ FALSE)
    BY <2>1, <1>3, WriteEffect
  <2> QED
    BY <2>1, <2>2, <1>1, <1>3 DEF v
<1>6. CASE o = "FAILED"
  <2>1. body' = body /\ posted' = posted /\ Write(t, job[t], NoRow, FALSE)
    BY <1>6 DEF Send
  <2>2. /\ Moves(t) /\ job'[t] \in Job /\ job'[t].claimed = job[t].claimed
        /\ job'[t].view = job[t].view /\ job'[t].left = job[t].left /\ job'[t].chat = job[t].chat
        /\ job'[t].pc = "upsert" /\ job'[t].put = NoRow /\ job'[t].ok = (job[t].ok /\ FALSE)
    BY <2>1, Blanks, WriteEffect
  <2> QED
    BY <2>1, <2>2, <1>1, Blanks
<1>7. CASE o = "SWALLOWED" /\ "swallow" \in Faults
  <2>1. body' = body /\ posted' = posted /\ Write(t, job[t], UnknownPut(v), FALSE)
    BY <1>7 DEF Send
  <2> HIDE DEF v
  <2>2. /\ Moves(t) /\ job'[t] \in Job /\ job'[t].claimed = job[t].claimed
        /\ job'[t].view = job[t].view /\ job'[t].left = job[t].left /\ job'[t].chat = job[t].chat
        /\ job'[t].pc = "upsert" /\ job'[t].put = UnknownPut(v) /\ job'[t].ok = (job[t].ok /\ FALSE)
    BY <2>1, <1>3, WriteEffect
  <2> QED
    BY <2>1, <2>2, <1>1, <1>3, <1>7 DEF v
<1> QED
  BY <1>4, <1>5, <1>6, <1>7 DEF SendOutcomes

\* upsert_chat at the end of _deliver
LEMMA UpsertEffect ==
    ASSUME BaseInv, NEW t \in Tasks, NEW o \in WriteOutcomes, UpsertChat(t, o),
           NEW c \in Chats, job[t].chat = {c}
    PROVE  /\ job[t].pc = "upsert" /\ Moves(t)
           /\ UNCHANGED <<logs, events, paused, body, posted, notices>>
           /\ row' \in [Chats -> ChatRow] /\ present' \in [Chats -> BOOLEAN]
           /\ \A d \in Chats : d # c => row'[d] = row[d]
           /\ \/ row'[c] = row[c] /\ "db" \in Faults
              \/ /\ row'[c].id = (row[c].id \/ job[t].put.id)
                 /\ row'[c].seq = IF job[t].put.seq > row[c].seq THEN job[t].put.seq ELSE row[c].seq
           /\ job'[t] \in Job /\ job'[t].claimed = job[t].claimed /\ job'[t].view = job[t].view
           /\ job'[t].left = job[t].left /\ job'[t].chat = {} /\ job'[t].ok = job[t].ok
           /\ \/ job'[t].pc = "finish" /\ job'[t].left = {}
              \/ job'[t].pc = "deliver"
<1> DEFINE r == Upserted(row[c], job[t].put)
<1>1. /\ job[t].pc = "upsert" /\ UNCHANGED <<logs, events, paused, body, posted, notices>>
      /\ Goto(t, NextChat(job[t]))
  BY DEF UpsertChat
<1>2. \/ "db" \in Faults /\ row' = row /\ present' = present
      \/ /\ row' = [row EXCEPT ![c] = r]
         /\ present' = [present EXCEPT ![c] = @ \/ job[t].put.id]
  BY DEF UpsertChat, WriteOutcomes
<1>3. job[t] \in Job /\ job[t].put \in ChatRow /\ job[t].put.id \in BOOLEAN /\ row \in [Chats -> ChatRow]
      /\ row[c] \in ChatRow
  BY Types, JobParts
<1>4. r \in ChatRow /\ r.id = (row[c].id \/ job[t].put.id)
      /\ r.seq = IF job[t].put.seq > row[c].seq THEN job[t].put.seq ELSE row[c].seq
  BY <1>3, UpsertedRow
<1> HIDE DEF r
<1>5. present \in [Chats -> BOOLEAN]
  BY DEF BaseInv, TypeOK
<1>6. Moves(t) /\ job'[t] = NextChat(job[t])
  BY <1>1, Types, GotoMoves
<1>7. /\ row' \in [Chats -> ChatRow] /\ present' \in [Chats -> BOOLEAN]
      /\ \A d \in Chats : d # c => row'[d] = row[d]
      /\ \/ row'[c] = row[c] /\ "db" \in Faults
         \/ row'[c] = r
  BY <1>2, <1>3, <1>4, <1>5
<1> QED
  BY <1>1, <1>3, <1>4, <1>6, <1>7, NextChatJob

-----------------------------------------------------------------------------
(* BaseInv is inductive, and a body never regresses.                       *)

\* The step of a dispatch.
LEMMA BaseDispatch ==
    ASSUME BaseInv, NEW t \in Tasks, JobStep(t)
    PROVE  BaseInv' /\ \A c \in Chats : body'[c] >= body[c]
<1>1. /\ row \in [Chats -> ChatRow] /\ body \in [Chats -> 0..Len(logs)] /\ Len(logs) \in Nat
      /\ posted \in [Chats -> Seq(DOMAIN logs)] /\ notices \in [Chats -> Seq(1..events)]
      /\ present \in [Chats -> BOOLEAN] /\ logs \in Seq(Entry) /\ DOMAIN logs = 1..Len(logs)
      /\ events \in Nat
  BY Types DEF BaseInv, TypeOK
<1>2. JobOK(job[t], Len(logs), events, body) /\ job[t] \in Job /\ job[t].view.seq \in Nat
  BY Types, JobParts DEF BaseInv
\* A step that leaves the chats' bodies alone.
<1>3. ASSUME Moves(t), job[t].pc # "idle" \/ CanEnter(t), JobOK(job'[t], Len(logs), events, body),
             logs' \in Seq(Entry), Len(logs') = Len(logs), row' \in [Chats -> ChatRow],
             notices' \in [Chats -> Seq(1..events)], present' \in [Chats -> BOOLEAN],
             UNCHANGED <<events, paused, body, posted>>
      PROVE  BaseInv' /\ \A c \in Chats : body'[c] >= body[c]
  <2>1. \A c \in Chats : body'[c] >= body[c]
    BY <1>1, <1>3
  <2>2. BaseInv'
    BY <1>1, <1>3, BaseFrame
  <2> QED
    BY <2>1, <2>2
<1>4. ASSUME NEW o \in WriteOutcomes, Claim(t, o)
      PROVE  BaseInv' /\ \A c \in Chats : body'[c] >= body[c]
  <2>1. JobOK(job'[t], Len(logs), events, body)
    <3>1. CASE job'[t] = job[t]
      BY <3>1, <1>2
    <3>2. CASE /\ job'[t] \in Job /\ job'[t].pc = "load" /\ job'[t].claimed \subseteq DOMAIN logs
               /\ job'[t].view = NoView /\ job'[t].chat = {}
      BY <3>2, <1>1, Blanks DEF JobOK, Loaded, InHand
    <3> QED
      BY <3>1, <3>2, <1>4, ClaimEffect
  <2> QED
    BY <2>1, <1>1, <1>3, <1>4, ClaimEffect
<1>5. ASSUME NEW o \in WriteOutcomes, Defer(t, o)
      PROVE  BaseInv' /\ \A c \in Chats : body'[c] >= body[c]
  <2>1. JobOK(job'[t], Len(logs), events, body)
    BY <1>1, <1>5, DeferEffect, IdleOK
  <2> QED
    BY <2>1, <1>1, <1>3, <1>5, DeferEffect
<1>6. ASSUME NEW o \in WriteOutcomes, Finish(t, o)
      PROVE  BaseInv' /\ \A c \in Chats : body'[c] >= body[c]
  <2>1. JobOK(job'[t], Len(logs), events, body)
    BY <1>1, <1>6, FinishEffect, IdleOK
  <2> QED
    BY <2>1, <1>1, <1>3, <1>6, FinishEffect
<1>7. ASSUME NEW a \in ReadOutcomes, LoadCycle(t, a)
      PROVE  BaseInv' /\ \A c \in Chats : body'[c] >= body[c]
  <2>1. JobOK(job'[t], Len(logs), events, body)
    <3>1. /\ job'[t] \in Job /\ job'[t].claimed \subseteq 1..Len(logs) /\ job'[t].chat = {}
      BY <1>2, <1>7, LoadEffect DEF JobOK, InHand
    <3>2. CASE /\ job'[t].pc = "settings" /\ job'[t].view.seq = Len(logs)
               /\ job'[t].view.events = events
      <4>1. \A c \in Chats : body[c] <= job'[t].view.seq
        BY <3>2, <1>1
      <4> QED
        BY <3>1, <3>2, <4>1, <1>1 DEF JobOK, Loaded, InHand
    <3>3. CASE job'[t].pc = "finish" /\ job'[t].view = job[t].view
      BY <3>1, <3>3, <1>2 DEF JobOK, Loaded, InHand
    <3> QED
      BY <3>2, <3>3, <1>7, LoadEffect
  <2> QED
    BY <2>1, <1>1, <1>3, <1>7, LoadEffect
<1>8. ASSUME NEW a \in ReadOutcomes, ReadSettings(t, a)
      PROVE  BaseInv' /\ \A c \in Chats : body'[c] >= body[c]
  <2>1. JobOK(job'[t], Len(logs), events, body)
    BY <1>1, <1>2, <1>8, SettingsEffect DEF JobOK, Loaded, InHand
  <2> QED
    BY <2>1, <1>1, <1>3, <1>8, SettingsEffect
<1>9. ASSUME NEW c \in Chats, NEW o \in WriteOutcomes, Park(t, c, o)
      PROVE  BaseInv' /\ \A d \in Chats : body'[d] >= body[d]
  <2>1. JobOK(job'[t], Len(logs), events, body)
    BY <1>1, <1>2, <1>9, ParkEffect DEF JobOK, Loaded, InHand
  <2> QED
    BY <2>1, <1>1, <1>3, <1>9, ParkEffect
<1>10. ASSUME NEW c \in Chats, Deliver(t, c)
       PROVE  BaseInv' /\ \A d \in Chats : body'[d] >= body[d]
  <2>1. JobOK(job'[t], Len(logs), events, body)
    <3>1. /\ job'[t] \in Job /\ job'[t].claimed = job[t].claimed /\ job'[t].view = job[t].view
          /\ job[t].pc = "deliver" /\ c \notin job'[t].left
      BY <1>10, DeliverEffect
    <3>2. \/ job'[t].pc \notin InHand /\ job'[t].chat = {}
          \/ job'[t].pc \in InHand /\ job'[t].chat = {c} /\ job[t].view.rows[c].seq < job[t].view.seq
      BY <1>10, DeliverEffect DEF InHand
    <3> QED
      BY <3>1, <3>2, <1>2 DEF JobOK, Loaded
  <2> QED
    BY <2>1, <1>1, <1>3, <1>10, DeliverEffect
<1>11. ASSUME NEW l \in BOOLEAN, NEW a \in BOOLEAN, Notify(t, l, a)
       PROVE  BaseInv' /\ \A d \in Chats : body'[d] >= body[d]
  <2>1. PICK c \in Chats : job[t].chat = {c}
    BY <1>11, ChatInHand DEF Notify, InHand
  <2>2. JobOK(job'[t], Len(logs), events, body)
    BY <1>2, <1>11, <2>1, NotifyEffect DEF JobOK, Loaded, InHand
  <2> QED
    BY <2>1, <2>2, <1>1, <1>3, <1>11, NotifyEffect
<1>12. ASSUME NEW o \in WriteOutcomes, UpsertChat(t, o)
       PROVE  BaseInv' /\ \A d \in Chats : body'[d] >= body[d]
  <2>1. PICK c \in Chats : job[t].chat = {c}
    BY <1>12, ChatInHand DEF UpsertChat, InHand
  <2>2. JobOK(job'[t], Len(logs), events, body)
    BY <1>2, <1>12, <2>1, UpsertEffect DEF JobOK, Loaded, InHand
  <2> QED
    BY <2>1, <2>2, <1>1, <1>3, <1>12, UpsertEffect
\* A step that may show the loaded body in the chat in hand.
<1>13. ASSUME NEW c \in Chats, job[t].pc \in InHand, job[t].chat = {c}, Moves(t),
              job'[t] \in Job, job'[t].claimed = job[t].claimed, job'[t].view = job[t].view,
              job'[t].left = job[t].left, job'[t].chat = job[t].chat, job'[t].pc \in InHand,
              UNCHANGED <<logs, events, row, paused, notices, present>>,
              body' = body \/ body' = [body EXCEPT ![c] = job[t].view.seq],
              posted' = posted \/ posted' = [posted EXCEPT ![c] = Append(@, job[t].view.seq)]
       PROVE  BaseInv' /\ \A d \in Chats : body'[d] >= body[d]
  <2>1. /\ \A d \in Chats : body[d] <= job[t].view.seq /\ job[t].view.rows[c].seq < job[t].view.seq
        /\ job[t].view.seq <= Len(logs) /\ job[t].view.rows[c].seq \in Nat
    BY <1>2, <1>13, JobParts DEF JobOK, Loaded
  <2>2. /\ body' \in [Chats -> 0..Len(logs)]
        /\ \A d \in Chats : body'[d] >= body[d] /\ body'[d] <= job[t].view.seq
    <3>1. \A d \in Chats : body'[d] = body[d] \/ (d = c /\ body'[d] = job[t].view.seq)
      BY <1>1, <1>13
    <3>2. \A d \in Chats : body[d] \in 0..Len(logs)
      BY <1>1
    <3>3. \A d \in Chats : body'[d] >= body[d] /\ body'[d] <= job[t].view.seq /\ body'[d] \in 0..Len(logs)
      <4> TAKE d \in Chats
      <4>1. body[d] <= job[t].view.seq /\ body[d] \in 0..Len(logs)
        BY <2>1, <3>2
      <4>2. body'[d] = body[d] \/ body'[d] = job[t].view.seq
        BY <3>1
      <4> QED
        BY <4>1, <4>2, <1>1, <1>2, <2>1
    <3> QED
      BY <3>3, <1>1, <1>13
  <2>3. posted' \in [Chats -> Seq(DOMAIN logs)]
    <3>1. job[t].view.seq \in DOMAIN logs
      BY <1>1, <1>2, <2>1
    <3>2. posted[c] \in Seq(DOMAIN logs)
      BY <1>1
    <3>3. Append(posted[c], job[t].view.seq) \in Seq(DOMAIN logs)
      BY <3>1, <3>2, AppendProperties
    <3> QED
      BY <3>3, <1>1, <1>13
  <2>4. JobOK(job'[t], Len(logs), events, body')
    BY <2>2, <1>2, <1>13 DEF JobOK, Loaded
  <2>5. job[t].pc # "idle"
    BY <1>13 DEF InHand
  <2> QED
    BY <2>2, <2>3, <2>4, <2>5, <1>1, <1>13, BaseFrame
<1>14. ASSUME NEW l \in BOOLEAN, NEW a \in BOOLEAN, Edit(t, l, a)
       PROVE  BaseInv' /\ \A d \in Chats : body'[d] >= body[d]
  <2>1. PICK c \in Chats : job[t].chat = {c}
    BY <1>14, ChatInHand DEF Edit, InHand
  <2>2. job[t].pc \in InHand /\ job'[t].pc \in InHand
    BY <1>14, <2>1, EditEffect DEF InHand
  <2> QED
    BY <2>1, <2>2, <1>13, <1>14, EditEffect
<1>15. ASSUME NEW o \in SendOutcomes, Send(t, o)
       PROVE  BaseInv' /\ \A d \in Chats : body'[d] >= body[d]
  <2>1. PICK c \in Chats : job[t].chat = {c}
    BY <1>15, ChatInHand DEF Send, InHand
  <2>2. job[t].pc \in InHand /\ job'[t].pc \in InHand
    BY <1>15, <2>1, SendEffect DEF InHand
  <2> QED
    BY <2>1, <2>2, <1>13, <1>15, SendEffect
<1> QED
  BY <1>4, <1>5, <1>6, <1>7, <1>8, <1>9, <1>10, <1>11, <1>12, <1>14, <1>15 DEF JobStep

\* The sweeper, the writers, the operator, and a crash.
LEMMA BaseOther ==
    ASSUME BaseInv,
           SweepStep \/ Record \/ TogglePaused \/ (\E c \in Chats : DeleteMessage(c)) \/ Crash
    PROVE  BaseInv' /\ body' = body
<1>1. /\ row \in [Chats -> ChatRow] /\ body \in [Chats -> 0..Len(logs)] /\ Len(logs) \in Nat
      /\ posted \in [Chats -> Seq(DOMAIN logs)] /\ notices \in [Chats -> Seq(1..events)]
      /\ present \in [Chats -> BOOLEAN] /\ logs \in Seq(Entry) /\ DOMAIN logs = 1..Len(logs)
      /\ events \in Nat /\ events <= Len(logs) /\ paused \in BOOLEAN
  BY Types DEF BaseInv, TypeOK
\* The log may have grown, the data has its type, the dispatches are as they were.
<1>2. ASSUME job' = job, logs' \in Seq(Entry), Len(logs') \in Nat, Len(logs') >= Len(logs),
             events' \in Nat, events' >= events, events' <= Len(logs'), paused' \in BOOLEAN,
             UNCHANGED <<row, body, posted, notices>>, present' \in [Chats -> BOOLEAN]
      PROVE  BaseInv' /\ body' = body
  <2>1. DOMAIN logs' = 1..Len(logs') /\ DOMAIN logs \subseteq DOMAIN logs' /\ 1..events \subseteq 1..events'
        /\ 0..Len(logs) \subseteq 0..Len(logs')
    BY <1>1, <1>2
  <2>2. posted' \in [Chats -> Seq(DOMAIN logs')] /\ notices' \in [Chats -> Seq(1..events')]
    <3>1. Seq(DOMAIN logs) \subseteq Seq(DOMAIN logs') /\ Seq(1..events) \subseteq Seq(1..events')
      BY <2>1, SeqMonotonic
    <3> QED
      BY <3>1, <1>1, <1>2
  <2>3. body' \in [Chats -> 0..Len(logs')]
    BY <1>1, <1>2, <2>1
  <2>4. \A t \in Tasks : JobOK(job'[t], Len(logs'), events', body')
    <3> TAKE t \in Tasks
    <3>1. JobOK(job[t], Len(logs), events, body) /\ job[t].view.seq \in Nat /\ job[t].view.events \in Nat
      BY Types, JobParts DEF BaseInv
    <3>2. /\ job[t].claimed \subseteq 1..Len(logs') /\ job[t].view.seq <= Len(logs')
          /\ job[t].view.events <= events'
      BY <3>1, <1>1, <1>2 DEF JobOK
    <3> QED
      BY <3>1, <3>2, <1>2 DEF JobOK
  <2>5. TypeOK'
    <3>1. \A t \in Tasks : /\ job'[t].pc \in Steps /\ job'[t].claimed \subseteq DOMAIN logs'
                           /\ job'[t].view.seq <= Len(logs') /\ job'[t].left \subseteq Chats
      BY <2>1, <2>4, JobParts DEF JobOK
    <3>2. DOMAIN job' = Tasks /\ events' \in 0..Len(logs')
      BY <1>2, Types
    <3> QED
      BY <2>2, <2>3, <3>1, <3>2, <1>1, <1>2 DEF TypeOK
  <2>6. Mutex' /\ job' \in [Tasks -> Job]
    BY <1>2 DEF BaseInv, Mutex
  <2> QED
    BY <2>4, <2>5, <2>6, <1>2 DEF BaseInv
<1>3. CASE SweepStep
  <2>1. PICK S \in SUBSET DOMAIN logs : Reclaim(S)
    BY <1>3 DEF SweepStep
  <2> DEFINE e(s) == [logs[s] EXCEPT !.status = "PENDING"]
  <2>2. \A s \in DOMAIN logs : e(s) \in Entry
    BY <1>1, Types DEF Entry
  <2>3. logs' = [s \in DOMAIN logs |-> IF s \in S THEN e(s) ELSE logs[s]]
        /\ UNCHANGED <<events, row, paused, job, body, posted, notices, present>>
    BY <2>1 DEF Reclaim, tgVars
  <2> HIDE DEF e
  <2>4. \A s \in DOMAIN logs : logs'[s] \in Entry
    BY <2>2, <2>3, Types
  <2>5. logs' = [s \in DOMAIN logs |-> logs'[s]]
    BY <2>3
  <2>6. logs' \in Seq(Entry) /\ Len(logs') = Len(logs)
    BY <2>4, <2>5, Rewritten
  <2> QED
    BY <2>3, <2>6, <1>1, <1>2
<1>4. CASE Record
  <2>1. NewEntry \in Entry
    BY BroadcastAssumption DEF NewEntry, Entry
  <2>2. /\ logs' = Append(logs, NewEntry) /\ events' \in {events, events + 1}
        /\ UNCHANGED <<row, paused, job, body, posted, notices, present>>
    BY <1>4 DEF Record, RecordEvent, RecordExecution, tgVars
  <2>3. logs' \in Seq(Entry) /\ Len(logs') = Len(logs) + 1
    BY <2>1, <2>2, <1>1, AppendProperties
  <2> QED
    BY <2>2, <2>3, <1>1, <1>2
<1>5. CASE TogglePaused
  BY <1>1, <1>2, <1>5 DEF TogglePaused, dbVars, tgVars
<1>6. ASSUME NEW c \in Chats, DeleteMessage(c) PROVE BaseInv' /\ body' = body
  BY <1>1, <1>2, <1>6 DEF DeleteMessage, dbVars
<1>7. CASE Crash
  <2>1. /\ job' = [t \in Tasks |-> NoJob]
        /\ UNCHANGED <<logs, events, row, paused, body, posted, notices, present>>
    BY <1>7 DEF Crash, dbVars, tgVars
  <2>2. \A t \in Tasks : JobOK(job'[t], Len(logs'), events', body')
    BY <2>1, <1>1, IdleOK
  <2>3. Mutex' /\ job' \in [Tasks -> Job]
    BY <2>1, Blanks DEF Mutex
  <2>4. TypeOK'
    <3>1. \A t \in Tasks : /\ job'[t].pc \in Steps /\ job'[t].claimed \subseteq DOMAIN logs'
                           /\ job'[t].view.seq <= Len(logs') /\ job'[t].left \subseteq Chats
      BY <2>1, <2>2, <1>1, JobParts DEF JobOK
    <3>2. DOMAIN job' = Tasks /\ events' \in 0..Len(logs')
      BY <2>1, <1>1
    <3> QED
      BY <3>1, <3>2, <2>1, <1>1 DEF TypeOK
  <2> QED
    BY <2>1, <2>2, <2>3, <2>4 DEF BaseInv
<1> QED
  BY <1>3, <1>4, <1>5, <1>6, <1>7

\* BaseInv holds at the start and is kept by every step, none of which puts
\* an older body in the place of a newer one.
LEMMA BaseInduction ==
    /\ Init => BaseInv
    /\ BaseInv /\ [Next]_vars => BaseInv' /\ \A c \in Chats : body'[c] >= body[c]
<1>1. ASSUME Init PROVE BaseInv
  <2> USE <1>1 DEF Init
  <2>1. Len(logs) = 0 /\ logs \in Seq(Entry) /\ DOMAIN logs = {}
    OBVIOUS
  <2>2. \A t \in Tasks : JobOK(job[t], Len(logs), events, body)
    BY <2>1, IdleOK
  <2>3. Mutex /\ job \in [Tasks -> Job]
    BY Blanks DEF Mutex
  <2>4. TypeOK
    <3>1. \A t \in Tasks : /\ job[t].pc \in Steps /\ job[t].claimed \subseteq DOMAIN logs
                           /\ job[t].view.seq <= Len(logs) /\ job[t].left \subseteq Chats
      <4>1. \A t \in Tasks : job[t] = NoJob
        OBVIOUS
      <4> QED
        BY <4>1, <2>1, Blanks, JobParts
    <3>2. row \in [Chats -> ChatRow]
      BY Blanks
    <3>3. DOMAIN job = Tasks /\ events \in 0..Len(logs)
      BY <2>1
    <3>4. /\ body \in [Chats -> 0..Len(logs)] /\ posted \in [Chats -> Seq(DOMAIN logs)]
          /\ notices \in [Chats -> Seq(1..events)] /\ present \in [Chats -> BOOLEAN]
      BY <2>1
    <3>5. paused \in BOOLEAN
      OBVIOUS
    <3> QED
      BY <2>1, <3>1, <3>2, <3>3, <3>4, <3>5 DEF TypeOK
  <2> QED
    BY <2>2, <2>3, <2>4 DEF BaseInv
<1>2. ASSUME BaseInv, [Next]_vars PROVE BaseInv' /\ \A c \in Chats : body'[c] >= body[c]
  <2>1. \A c \in Chats : body[c] \in Nat
    BY <1>2, Types
  <2>2. CASE DispatchStep
    BY <1>2, <2>2, BaseDispatch DEF DispatchStep
  <2>3. CASE SweepStep \/ Record \/ TogglePaused \/ (\E c \in Chats : DeleteMessage(c)) \/ Crash
    BY <1>2, <2>1, <2>3, BaseOther
  <2>4. CASE UNCHANGED vars
    <3>1. UNCHANGED <<logs, events, row, paused, job, body, posted, notices, present>>
      BY <2>4 DEF vars, dbVars, tgVars
    <3> QED
      BY <1>2, <2>1, <3>1 DEF BaseInv, TypeOK, Mutex
  <2> QED
    BY <1>2, <2>2, <2>3, <2>4 DEF Next
<1> QED
  BY <1>1, <1>2

-----------------------------------------------------------------------------
(* ShownInv is inductive where reads do not fail and an unanswered send    *)
(* has landed.                                                             *)

\* A step of the dispatch of task t keeps ShownInv if the dispatch it leaves
\* behind does, and an entry or a message is only new where the body is.
LEMMA ShownFrame ==
    ASSUME BaseInv, ShownInv, NEW t \in Tasks, Moves(t), job[t].pc # "idle" \/ CanEnter(t),
           ShownJob(job'[t], Delivered', row', body'),
           \A c \in Chats : row'[c].seq <= body'[c],
           \A s \in Delivered' : \A c \in Chats : row'[c].id => body'[c] >= s
    PROVE  ShownInv'
<1>1. \A u \in Tasks : u # t => job'[u] = job[u] /\ job[u].pc = "idle"
  BY Types DEF BaseInv, Mutex, CanEnter, Moves
<1>2. \A u \in Tasks : ShownJob(job'[u], Delivered', row', body')
  <2> TAKE u \in Tasks
  <2>1. CASE u # t
    BY <1>1, <2>1 DEF ShownJob, Loaded, InHand, Closing
  <2> QED
    BY <2>1
<1> QED
  BY <1>2 DEF ShownInv

\* The dispatch is idle again.
LEMMA IdleShown ==
    ASSUME NEW d, NEW r, NEW b
    PROVE  ShownJob(NoJob, d, r, b)
BY Blanks DEF ShownJob, Loaded, InHand, Closing

\* The step of a dispatch.
LEMMA ShownDispatch ==
    ASSUME BaseInv, ShownInv, Faults \cap {"read", "swallow"} = {}, NEW t \in Tasks, JobStep(t)
    PROVE  ShownInv'
<1>1. /\ DOMAIN logs = 1..Len(logs) /\ Len(logs) \in Nat
      /\ \A c \in Chats : body[c] \in Nat /\ body[c] <= Len(logs) /\ row[c].seq \in Nat
                          /\ row[c].id \in BOOLEAN
      /\ body \in [Chats -> 0..Len(logs)]
  BY Types DEF ChatRow
<1>2. /\ JobOK(job[t], Len(logs), events, body) /\ job[t] \in Job /\ job[t].view.seq \in Nat
      /\ ShownJob(job[t], Delivered, row, body)
      /\ \A c \in Chats : job[t].view.rows[c].seq \in Nat /\ job[t].view.rows[c].id \in BOOLEAN
  BY Types, JobParts DEF BaseInv, ShownInv
<1>3. /\ \A c \in Chats : row[c].seq <= body[c]
      /\ \A s \in Delivered : \A c \in Chats : row[c].id => body[c] >= s
      /\ \A s \in Delivered : s \in 1..Len(logs)
  BY <1>1 DEF ShownInv, Delivered
<1>4. \A c \in Chats : body'[c] >= body[c]
  BY BaseDispatch
<1>5. ASSUME Len(logs') = Len(logs), logs' \in Seq(Entry), NoneDelivered PROVE Delivered' \subseteq Delivered
  <2>1. DOMAIN logs' = DOMAIN logs
    BY <1>1, <1>5
  <2> QED
    BY <2>1, <1>5 DEF Delivered, NoneDelivered
<1>6. ASSUME logs' = logs PROVE Delivered' = Delivered
  BY <1>6 DEF Delivered
<1>7. ReadOutcomes = {TRUE}
  BY DEF ReadOutcomes
<1>8. ASSUME NEW o \in WriteOutcomes, Claim(t, o) PROVE ShownInv'
  <2>1. Delivered' \subseteq Delivered
    BY <1>5, <1>8, ClaimEffect
  <2>2. ShownJob(job'[t], Delivered', row', body')
    BY <1>8, ClaimEffect DEF ShownJob, Loaded, InHand, Closing
  <2> QED
    BY <2>1, <2>2, <1>3, <1>8, ClaimEffect, ShownFrame
<1>9. ASSUME NEW o \in WriteOutcomes, Defer(t, o) PROVE ShownInv'
  <2>1. Delivered' \subseteq Delivered
    BY <1>5, <1>9, DeferEffect
  <2>2. ShownJob(job'[t], Delivered', row', body')
    BY <1>9, DeferEffect, IdleShown
  <2> QED
    BY <2>1, <2>2, <1>3, <1>9, DeferEffect, ShownFrame
<1>10. ASSUME NEW o \in WriteOutcomes, Finish(t, o) PROVE ShownInv'
  <2>1. /\ job[t].pc = "finish" /\ job[t].left = {} /\ job[t].chat = {}
        /\ job[t].claimed \subseteq 1..job[t].view.seq
        /\ job[t].ok => \A c \in Chats : row[c].id => body[c] >= job[t].view.seq
    BY <1>2, <1>10, FinishEffect DEF JobOK, ShownJob, InHand, Closing
  <2>2. \A s \in Delivered' : s \in Delivered \/ (s \in job[t].claimed /\ job[t].ok)
    <3>1. DOMAIN logs' = DOMAIN logs
      BY <1>1, <1>10, FinishEffect
    <3> QED
      BY <3>1, <1>10, FinishEffect DEF Delivered
  <2>3. \A s \in Delivered' : \A c \in Chats : row[c].id => body[c] >= s
    <3> TAKE s \in Delivered'
    <3> TAKE c \in Chats
    <3>1. CASE s \in Delivered
      BY <3>1, <1>3
    <3>2. CASE s \in job[t].claimed /\ job[t].ok
      <4>1. s \in 1..job[t].view.seq
        BY <3>2, <2>1
      <4> QED
        BY <3>2, <4>1, <2>1, <1>1, <1>2
    <3> QED
      BY <2>2, <3>1, <3>2
  <2>4. ShownJob(job'[t], Delivered', row', body')
    BY <1>10, FinishEffect, IdleShown
  <2> QED
    BY <2>3, <2>4, <1>3, <1>10, FinishEffect, ShownFrame
\* Steps that leave the data alone.
<1>11. ASSUME Moves(t), UNCHANGED <<logs, row, body>>, job[t].pc # "idle",
              ShownJob(job'[t], Delivered, row, body)
       PROVE  ShownInv'
  BY <1>3, <1>6, <1>11, ShownFrame
<1>12. ASSUME NEW a \in ReadOutcomes, LoadCycle(t, a) PROVE ShownInv'
  <2>1. /\ job'[t].pc = "settings" /\ job'[t].view.seq = Len(logs) /\ job'[t].view.rows = row
        /\ job'[t].claimed = job[t].claimed /\ Moves(t) /\ UNCHANGED <<logs, row, body>>
        /\ job[t].pc = "load"
    BY <1>7, <1>12, LoadEffect
  <2>2. job'[t].claimed \subseteq 1..Len(logs) /\ \A s \in Delivered : s <= Len(logs)
    BY <2>1, <1>1, <1>2, <1>3 DEF JobOK
  <2>3. ShownJob(job'[t], Delivered, row, body)
    BY <2>1, <2>2, <1>3 DEF ShownJob, Loaded, InHand, Closing
  <2> QED
    BY <2>1, <2>3, <1>11
<1>13. ASSUME NEW a \in ReadOutcomes, ReadSettings(t, a) PROVE ShownInv'
  <2>1. /\ job[t].pc = "settings" /\ job'[t].view = job[t].view /\ job'[t].claimed = job[t].claimed
        /\ Moves(t) /\ UNCHANGED <<logs, row, body>>
        /\ \/ job'[t].pc = "park"
           \/ job'[t].pc = "finish" /\ job'[t].left = {} /\ ChatsBehind(job[t].view) = {}
           \/ job'[t].pc = "deliver" /\ job'[t].left = Chats
    BY <1>7, <1>13, SettingsEffect
  <2>2. /\ job[t].claimed \subseteq 1..job[t].view.seq /\ \A s \in Delivered : s <= job[t].view.seq
        /\ \A c \in Chats : job[t].view.rows[c].seq <= body[c] /\ (row[c].id => job[t].view.rows[c].id)
    BY <2>1, <1>2 DEF ShownJob, Loaded
  <2>3. CASE job'[t].pc = "park"
    <3>1. ShownJob(job'[t], Delivered, row, body)
      BY <2>1, <2>2, <2>3 DEF ShownJob, Loaded, InHand, Closing
    <3> QED
      BY <3>1, <2>1, <1>11
  <2>4. CASE job'[t].pc = "finish" /\ job'[t].left = {} /\ ChatsBehind(job[t].view) = {}
    <3>1. \A c \in Chats : row[c].id => body[c] >= job[t].view.seq
      <4> SUFFICES ASSUME NEW c \in Chats, row[c].id PROVE body[c] >= job[t].view.seq
        OBVIOUS
      <4>1. ~(job[t].view.rows[c].seq < job[t].view.seq)
        BY <2>2, <2>4 DEF ChatsBehind
      <4> QED
        BY <4>1, <2>2, <1>1, <1>2
    <3>2. ShownJob(job'[t], Delivered, row, body)
      BY <2>1, <2>2, <2>4, <3>1 DEF ShownJob, Loaded, InHand, Closing
    <3> QED
      BY <3>2, <2>1, <1>11
  <2>5. CASE job'[t].pc = "deliver" /\ job'[t].left = Chats
    <3>1. ShownJob(job'[t], Delivered, row, body)
      BY <2>1, <2>2, <2>5 DEF ShownJob, Loaded, InHand, Closing
    <3> QED
      BY <3>1, <2>1, <1>11
  <2> QED
    BY <2>1, <2>3, <2>4, <2>5
<1>14. ASSUME NEW c \in Chats, NEW o \in WriteOutcomes, Park(t, c, o) PROVE ShownInv'
  <2>1. /\ job[t].pc = "park" /\ job'[t].view = job[t].view /\ job'[t].claimed = job[t].claimed
        /\ Moves(t) /\ UNCHANGED <<logs, body>> /\ job'[t].pc \in {"park", "defer"}
        /\ \A d \in Chats : row'[d].id = row[d].id /\ row'[d].seq = row[d].seq
    BY <1>14, ParkEffect
  <2>2. /\ job[t].claimed \subseteq 1..job[t].view.seq /\ \A s \in Delivered : s <= job[t].view.seq
        /\ \A d \in Chats : job[t].view.rows[d].seq <= body[d]
    BY <2>1, <1>2 DEF ShownJob, Loaded
  <2>3. ShownJob(job'[t], Delivered', row', body')
    BY <2>1, <2>2, <1>6 DEF ShownJob, Loaded, InHand, Closing
  <2> QED
    BY <2>1, <2>3, <1>3, <1>6, ShownFrame
\* What holds once chats are being dealt with.
<1>15. ASSUME job[t].pc \in {"deliver"} \cup InHand
       PROVE  /\ job[t].claimed \subseteq 1..job[t].view.seq /\ \A s \in Delivered : s <= job[t].view.seq
              /\ \A c \in Chats : job[t].view.rows[c].seq <= body[c]
              /\ job[t].ok => \A c \in Chats : c \notin job[t].left /\ c \notin job[t].chat /\ row[c].id
                                                  => body[c] >= job[t].view.seq
  BY <1>2, <1>15 DEF ShownJob, Loaded, InHand, Closing
<1>16. ASSUME NEW c \in Chats, Deliver(t, c) PROVE ShownInv'
  <2>1. /\ job[t].pc = "deliver" /\ c \in job[t].left /\ Moves(t) /\ UNCHANGED <<logs, row, body>>
        /\ job'[t].claimed = job[t].claimed /\ job'[t].view = job[t].view
        /\ job'[t].left = job[t].left \ {c} /\ job'[t].ok = job[t].ok
        /\ \/ /\ job[t].view.rows[c].seq >= job[t].view.seq /\ job'[t].chat = {}
              /\ \/ job'[t].pc = "finish" /\ job'[t].left = {}
                 \/ job'[t].pc = "deliver"
           \/ job'[t].chat = {c} /\ job'[t].pc \in {"edit", "send"}
    BY <1>16, DeliverEffect
  <2>2. job[t].chat = {}
    BY <2>1, <1>2 DEF JobOK, InHand
  <2>3. job[t].ok => \A d \in Chats : d \notin job'[t].left /\ d \notin job'[t].chat /\ row[d].id
                                         => body[d] >= job[t].view.seq
    <3> SUFFICES ASSUME job[t].ok, NEW d \in Chats, d \notin job'[t].left, d \notin job'[t].chat, row[d].id
                 PROVE  body[d] >= job[t].view.seq
      OBVIOUS
    <3>1. CASE d = c
      <4>1. job[t].view.rows[c].seq >= job[t].view.seq /\ job[t].view.rows[c].seq <= body[c]
        BY <3>1, <2>1, <1>15
      <4> QED
        BY <3>1, <4>1, <1>1, <1>2
    <3>2. CASE d # c
      BY <3>2, <2>1, <2>2, <1>15
    <3> QED
      BY <3>1, <3>2
  <2>4. ShownJob(job'[t], Delivered, row, body)
    <3>1. CASE job'[t].pc \in {"edit", "send"}
      BY <3>1, <2>1, <2>3, <1>15 DEF ShownJob, Loaded, InHand, Closing
    <3>2. CASE job'[t].pc \in {"finish", "deliver"}
      BY <3>2, <2>1, <2>3, <1>15 DEF ShownJob, Loaded, InHand, Closing
    <3> QED
      BY <3>1, <3>2, <2>1
  <2> QED
    BY <2>1, <2>4, <1>11
<1>17. ASSUME NEW l \in BOOLEAN, NEW a \in BOOLEAN, Notify(t, l, a) PROVE ShownInv'
  <2>1. PICK c \in Chats : job[t].chat = {c}
    BY <1>17, ChatInHand DEF Notify, InHand
  <2>2. /\ job[t].pc = "notify" /\ Moves(t) /\ UNCHANGED <<logs, row, body>>
        /\ job'[t].claimed = job[t].claimed /\ job'[t].view = job[t].view
        /\ job'[t].left = job[t].left /\ job'[t].chat = job[t].chat /\ job'[t].ok = job[t].ok
        /\ job'[t].put.id = job[t].put.id /\ job'[t].put.seq = job[t].put.seq
        /\ job'[t].pc \in {"notify", "upsert"}
    BY <1>17, <2>1, NotifyEffect
  <2>3. \A d \in job[t].chat : job[t].put.seq <= body[d] /\ body[d] >= job[t].view.seq /\ ~job[t].put.id
    BY <2>2, <1>2 DEF ShownJob
  <2>4. job[t].pc \in InHand
    BY <2>2 DEF InHand
  <2>5. ShownJob(job'[t], Delivered, row, body)
    BY <2>2, <2>3, <2>4, <1>15 DEF ShownJob, Loaded, InHand, Closing
  <2> QED
    BY <2>2, <2>5, <1>11
\* A step that may show the loaded body in the chat in hand.
<1>18. ASSUME NEW c \in Chats, job[t].pc \in InHand, job[t].chat = {c}, Moves(t),
              UNCHANGED <<logs, row>>, job'[t].claimed = job[t].claimed,
              job'[t].view = job[t].view, job'[t].left = job[t].left, job'[t].chat = job[t].chat,
              \/ job'[t].pc = "send"
              \/ job'[t].pc = "notify" /\ body'[c] = job[t].view.seq /\ job'[t].put.seq = job[t].view.seq
                 /\ ~job'[t].put.id
              \/ job'[t].pc = "upsert" /\ job'[t].put.seq <= body'[c]
                 /\ (job'[t].put.id \/ job'[t].ok => body'[c] = job[t].view.seq),
              job'[t].ok => job[t].ok, \A d \in Chats : body'[d] \in Nat
       PROVE  ShownInv'
  <2>1. /\ job[t].claimed \subseteq 1..job[t].view.seq /\ \A s \in Delivered : s <= job[t].view.seq
        /\ \A d \in Chats : job[t].view.rows[d].seq <= body'[d]
    BY <1>1, <1>2, <1>4, <1>15, <1>18
  <2>2. /\ \A d \in Chats : row[d].seq <= body'[d]
        /\ \A s \in Delivered : \A d \in Chats : row[d].id => body'[d] >= s
    BY <1>1, <1>3, <1>4, <1>18
  <2>3. job'[t].ok => \A d \in Chats : d \notin job'[t].left /\ d \notin job'[t].chat /\ row[d].id
                                          => body'[d] >= job[t].view.seq
    BY <1>1, <1>2, <1>4, <1>15, <1>18
  <2>4. ShownJob(job'[t], Delivered, row, body')
    <3>1. /\ job'[t].pc # "settings" /\ job'[t].pc # "finish"
          /\ job'[t].pc = "notify" =>
               \A d \in job'[t].chat : job'[t].put.seq <= body'[d] /\ body'[d] >= job'[t].view.seq /\ ~job'[t].put.id
          /\ job'[t].pc = "upsert" =>
               \A d \in job'[t].chat : job'[t].put.seq <= body'[d]
                                       /\ (job'[t].put.id \/ job'[t].ok => body'[d] >= job'[t].view.seq)
      BY <1>2, <1>18
    <3> QED
      BY <3>1, <2>1, <2>3, <1>18 DEF ShownJob
  <2>5. job[t].pc # "idle"
    BY <1>18 DEF InHand
  <2> QED
    BY <2>2, <2>4, <2>5, <1>6, <1>18, ShownFrame
<1>19. \A c \in Chats : body'[c] \in Nat
  BY BaseDispatch, Types DEF BaseInv, TypeOK
<1>20. ASSUME NEW l \in BOOLEAN, NEW a \in BOOLEAN, Edit(t, l, a) PROVE ShownInv'
  <2>1. PICK c \in Chats : job[t].chat = {c}
    BY <1>20, ChatInHand DEF Edit, InHand
  <2>2. /\ job[t].pc = "edit" /\ Moves(t) /\ UNCHANGED <<logs, row>>
        /\ job'[t].claimed = job[t].claimed /\ job'[t].view = job[t].view
        /\ job'[t].left = job[t].left /\ job'[t].chat = job[t].chat
    BY <1>20, <2>1, EditEffect
  <2>3. \/ job'[t].pc = "send" /\ job'[t].ok = job[t].ok
        \/ /\ job'[t].pc = "notify" /\ body'[c] = job[t].view.seq /\ ~job'[t].put.id
           /\ job'[t].put.seq = job[t].view.seq /\ job'[t].ok = job[t].ok
        \/ job'[t].pc = "upsert" /\ job'[t].put.seq = 0 /\ job'[t].put.id = FALSE /\ job'[t].ok = FALSE
    <3>1. \/ job'[t].pc = "send" /\ job'[t].ok = job[t].ok
          \/ /\ job'[t].pc = "notify" /\ body' = [body EXCEPT ![c] = job[t].view.seq]
             /\ job'[t].put.id = FALSE /\ job'[t].put.seq = job[t].view.seq /\ job'[t].ok = job[t].ok
          \/ job'[t].pc = "upsert" /\ job'[t].put = NoRow /\ job'[t].ok = FALSE
      BY <1>20, <2>1, EditEffect
    <3> QED
      BY <1>1, <3>1, Blanks
  <2>4. job[t].pc \in InHand
    BY <2>2 DEF InHand
  <2>5. job'[t].pc = "upsert" => job'[t].put.seq <= body'[c] /\ ~(job'[t].put.id \/ job'[t].ok)
    BY <2>3, <1>19
  <2>6. job'[t].ok => job[t].ok
    BY <2>3
  <2> QED
    BY <2>1, <2>2, <2>3, <2>4, <2>5, <2>6, <1>18, <1>19
<1>21. ASSUME NEW o \in SendOutcomes, Send(t, o) PROVE ShownInv'
  <2>1. PICK c \in Chats : job[t].chat = {c}
    BY <1>21, ChatInHand DEF Send, InHand
  <2>2. /\ job[t].pc = "send" /\ Moves(t) /\ UNCHANGED <<logs, row>> /\ job'[t].pc = "upsert"
        /\ job'[t].claimed = job[t].claimed /\ job'[t].view = job[t].view
        /\ job'[t].left = job[t].left /\ job'[t].chat = job[t].chat
    BY <1>21, <2>1, SendEffect
  <2>3. \/ job'[t].ok = FALSE /\ job'[t].put.id = FALSE /\ job'[t].put.seq = 0
        \/ body'[c] = job[t].view.seq /\ job'[t].put.seq = job[t].view.seq /\ (job'[t].ok => job[t].ok)
    <3>1. \/ /\ job'[t].ok = FALSE /\ job'[t].put.id = FALSE
             /\ job'[t].put.seq = 0 \/ "swallow" \in Faults
          \/ /\ body' = [body EXCEPT ![c] = job[t].view.seq] /\ job'[t].put.seq = job[t].view.seq
             /\ job'[t].ok => job[t].ok
      BY <1>21, <2>1, SendEffect
    <3>2. "swallow" \notin Faults
      OBVIOUS
    <3> QED
      BY <1>1, <3>1, <3>2
  <2>4. job[t].pc \in InHand
    BY <2>2 DEF InHand
  <2>5. job'[t].put.seq <= body'[c] /\ (job'[t].put.id \/ job'[t].ok => body'[c] = job[t].view.seq)
    BY <2>3, <1>2, <1>19
  <2>6. job'[t].ok => job[t].ok
    BY <2>3
  <2> QED
    BY <2>1, <2>2, <2>4, <2>5, <2>6, <1>18, <1>19
<1>22. ASSUME NEW o \in WriteOutcomes, UpsertChat(t, o) PROVE ShownInv'
  <2>1. PICK c \in Chats : job[t].chat = {c}
    BY <1>22, ChatInHand DEF UpsertChat, InHand
  <2>2. /\ job[t].pc = "upsert" /\ Moves(t) /\ UNCHANGED <<logs, body>>
        /\ \A d \in Chats : d # c => row'[d] = row[d]
        /\ job'[t].claimed = job[t].claimed /\ job'[t].view = job[t].view
        /\ job'[t].left = job[t].left /\ job'[t].chat = {} /\ job'[t].ok = job[t].ok
        /\ \/ job'[t].pc = "finish" /\ job'[t].left = {}
           \/ job'[t].pc = "deliver"
    BY <1>22, <2>1, UpsertEffect
  <2>3. row'[c].id => row[c].id \/ job[t].put.id
    BY <1>22, <2>1, UpsertEffect
  <2>4. job[t].put.seq <= body[c] /\ (job[t].put.id \/ job[t].ok => body[c] >= job[t].view.seq)
    BY <2>1, <2>2, <1>2 DEF ShownJob
  <2>5. row'[c].seq <= body[c]
    BY <1>3, <1>22, <2>1, <2>4, UpsertEffect
  <2>6. job[t].pc \in InHand
    BY <2>2 DEF InHand
  <2>7. \A d \in Chats : row'[d].seq <= body'[d]
    BY <2>2, <2>5, <1>3
  <2>8. \A s \in Delivered : \A d \in Chats : row'[d].id => body'[d] >= s
    <3> SUFFICES ASSUME NEW s \in Delivered, NEW d \in Chats, row'[d].id PROVE body[d] >= s
      BY <2>2
    <3>1. CASE d = c /\ job[t].put.id
      <4>1. body[c] >= job[t].view.seq /\ s <= job[t].view.seq /\ s \in Nat
        BY <3>1, <2>4, <2>6, <1>3, <1>15
      <4> QED
        BY <4>1, <3>1, <1>1, <1>2
    <3>2. CASE row[d].id
      BY <3>2, <1>3
    <3> QED
      BY <3>1, <3>2, <2>2, <2>3
  <2>9. job[t].ok => \A d \in Chats : d \notin job'[t].left /\ row'[d].id => body[d] >= job[t].view.seq
    <3> SUFFICES ASSUME job[t].ok, NEW d \in Chats, d \notin job'[t].left, row'[d].id
                 PROVE  body[d] >= job[t].view.seq
      OBVIOUS
    <3>1. CASE d = c
      BY <3>1, <2>4
    <3>2. CASE d # c
      BY <3>2, <2>1, <2>2, <2>6, <1>15
    <3> QED
      BY <3>1, <3>2
  <2>10. ShownJob(job'[t], Delivered, row', body')
    <3>1. CASE job'[t].pc = "finish" /\ job'[t].left = {}
      BY <3>1, <2>2, <2>6, <2>9, <1>15 DEF ShownJob, Loaded, InHand, Closing
    <3>2. CASE job'[t].pc = "deliver"
      BY <3>2, <2>2, <2>6, <2>9, <1>15 DEF ShownJob, Loaded, InHand, Closing
    <3> QED
      BY <3>1, <3>2, <2>2
  <2> QED
    BY <2>2, <2>7, <2>8, <2>10, <1>6, ShownFrame
<1> QED
  BY <1>8, <1>9, <1>10, <1>12, <1>13, <1>14, <1>16, <1>17, <1>20, <1>21, <1>22 DEF JobStep

\* The other steps: the sweeper, the writers, the operator, the readers and the
\* end of the process.
LEMMA ShownOther ==
    ASSUME BaseInv, ShownInv,
           SweepStep \/ Record \/ TogglePaused \/ (\E c \in Chats : DeleteMessage(c)) \/ Crash
    PROVE  ShownInv'
<1>1. Delivered' \subseteq Delivered
  <2>1. logs \in Seq(Entry) /\ DOMAIN logs = 1..Len(logs) /\ Len(logs) \in Nat
    BY Types
  <2>2. ASSUME logs' = logs PROVE Delivered' \subseteq Delivered
    BY <2>2 DEF Delivered
  <2>3. CASE SweepStep
    <3>1. PICK S \in SUBSET DOMAIN logs : Reclaim(S)
      BY <2>3 DEF SweepStep
    <3> DEFINE e(s) == [logs[s] EXCEPT !.status = "PENDING"]
    <3>2. /\ logs' = [s \in DOMAIN logs |-> IF s \in S THEN e(s) ELSE logs[s]]
      BY <3>1 DEF Reclaim
    <3>3. \A s \in S : e(s).status = "PENDING"
      BY Types DEF Entry
    <3> HIDE DEF e
    <3>4. DOMAIN logs' = DOMAIN logs /\ \A s \in DOMAIN logs : (logs'[s] = e(s) /\ s \in S) \/ logs'[s] = logs[s]
      BY <3>2
    <3> QED
      BY <3>3, <3>4 DEF Delivered
  <2>4. CASE Record
    <3>1. logs' = Append(logs, NewEntry) /\ NewEntry.status = "PENDING"
      BY <2>4 DEF Record, RecordEvent, RecordExecution, NewEntry
    <3>2. NewEntry \in Entry
      BY BroadcastAssumption DEF NewEntry, Entry
    <3>3. DOMAIN logs' = 1..(Len(logs) + 1)
      BY <3>1, <3>2, <2>1, AppendProperties
    <3>4. logs'[Len(logs) + 1] = NewEntry /\ \A s \in DOMAIN logs : logs'[s] = logs[s]
      BY <3>1, <3>2, <2>1, AppendProperties
    <3>5. \A s \in DOMAIN logs' : s \in DOMAIN logs \/ s = Len(logs) + 1
      BY <3>3, <2>1
    <3> QED
      BY <3>1, <3>4, <3>5 DEF Delivered
  <2>5. CASE TogglePaused \/ Crash
    BY <2>2, <2>5 DEF TogglePaused, Crash, dbVars
  <2>6. CASE \E c \in Chats : DeleteMessage(c)
    BY <2>2, <2>6 DEF DeleteMessage, dbVars
  <2> QED
    BY <2>3, <2>4, <2>5, <2>6
<1>2. row' = row /\ body' = body
  BY DEF SweepStep, Reclaim, Record, RecordEvent, RecordExecution, TogglePaused, DeleteMessage, Crash,
         dbVars, tgVars
<1>3. job' = job \/ job' = [t \in Tasks |-> NoJob]
  BY DEF SweepStep, Reclaim, Record, RecordEvent, RecordExecution, TogglePaused, DeleteMessage, Crash
<1>4. \A t \in Tasks : ShownJob(job'[t], Delivered', row', body')
  <2>1. ASSUME NEW t \in Tasks, job' = job PROVE ShownJob(job'[t], Delivered', row', body')
    <3>1. ShownJob(job[t], Delivered, row, body)
      BY DEF ShownInv
    <3> QED
      BY <3>1, <2>1, <1>1, <1>2 DEF ShownJob
  <2>2. ASSUME NEW t \in Tasks, job' = [u \in Tasks |-> NoJob]
        PROVE  ShownJob(job'[t], Delivered', row', body')
    BY <2>2, IdleShown
  <2> QED
    BY <2>1, <2>2, <1>3
<1> QED
  BY <1>1, <1>2, <1>4 DEF ShownInv

\* ShownInv holds at the start and is kept by every step.
LEMMA ShownInduction ==
    ASSUME Faults \cap {"read", "swallow"} = {}
    PROVE  /\ Init => ShownInv
           /\ BaseInv /\ ShownInv /\ [Next]_vars => ShownInv'
<1>1. ASSUME Init PROVE ShownInv
  <2>1. logs = <<>> /\ Delivered = {}
    BY <1>1 DEF Init, Delivered
  <2>2. \A t \in Tasks : ShownJob(job[t], Delivered, row, body)
    BY <1>1, IdleShown DEF Init
  <2>3. \A c \in Chats : row[c].seq <= body[c]
    BY <1>1, Blanks DEF Init
  <2> QED
    BY <2>1, <2>2, <2>3 DEF ShownInv
<1>2. ASSUME BaseInv, ShownInv, [Next]_vars PROVE ShownInv'
  <2>1. CASE DispatchStep
    BY <1>2, <2>1, ShownDispatch DEF DispatchStep
  <2>2. CASE SweepStep \/ Record \/ TogglePaused \/ (\E c \in Chats : DeleteMessage(c)) \/ Crash
    BY <1>2, <2>2, ShownOther
  <2>3. CASE UNCHANGED vars
    <3>1. UNCHANGED <<logs, row, job, body>>
      BY <2>3 DEF vars, dbVars, tgVars
    <3> QED
      BY <1>2, <3>1 DEF ShownInv, Delivered
  <2> QED
    BY <1>2, <2>1, <2>2, <2>3 DEF Next
<1> QED
  BY <1>1, <1>2

-----------------------------------------------------------------------------
(* OnceInv is inductive where the process survives and its writes land.    *)

\* Whoever holds the lock and is not about to write has everything recorded.
LEMMA AllRecorded ==
    ASSUME BaseInv, OnceInv, NEW t \in Tasks, job[t].pc # "idle" \/ CanEnter(t), job[t].pc # "upsert"
    PROVE  \A c \in Chats : \A i \in DOMAIN posted[c] : posted[c][i] <= row[c].seq
<1>1. \A u \in Tasks : job[u].pc # "upsert"
  BY DEF BaseInv, Mutex, CanEnter
<1> QED
  BY <1>1 DEF OnceInv, Recorded

\* A step of the dispatch of task t keeps OnceInv if the dispatch it leaves
\* behind does.
LEMMA OnceFrame ==
    ASSUME BaseInv, OnceInv, NEW t \in Tasks, Moves(t), job[t].pc # "idle" \/ CanEnter(t),
           OnceJob(job'[t], row'), SameBodyPostedOnce',
           \A c \in Chats : \A i \in DOMAIN posted'[c] : Recorded(c, posted[c][i])'
    PROVE  OnceInv'
<1>1. \A u \in Tasks : u # t => job'[u] = job[u] /\ job[u].pc = "idle"
  BY Types DEF BaseInv, Mutex, CanEnter, Moves
<1>2. \A u \in Tasks : OnceJob(job'[u], row')
  <2> TAKE u \in Tasks
  <2>1. CASE u # t
    BY <1>1, <2>1 DEF OnceJob, InHand
  <2> QED
    BY <2>1
<1> QED
  BY <1>2 DEF OnceInv

\* An idle dispatch satisfies OnceJob.
LEMMA IdleOnce ==
    ASSUME NEW r
    PROVE  OnceJob(NoJob, r)
BY Blanks DEF OnceJob, InHand

\* A chat is never posted a body it may have been posted before.
LEMMA PostOnce ==
    ASSUME NEW q \in Seq(Nat), IsInjective(q), NEW n \in Nat, \A i \in DOMAIN q : q[i] < n
    PROVE  IsInjective(Append(q, n))
<1>1. Len(q) \in Nat /\ DOMAIN q = 1..Len(q) /\ DOMAIN Append(q, n) = 1..(Len(q) + 1)
  BY AppendProperties
<1>2. /\ \A i \in DOMAIN q : Append(q, n)[i] = q[i] /\ q[i] \in Nat
      /\ Append(q, n)[Len(q) + 1] = n
  BY AppendProperties
<1>3. \A i \in DOMAIN Append(q, n) : i \in DOMAIN q \/ i = Len(q) + 1
  BY <1>1
<1>4. \A i, k \in DOMAIN q : q[i] = q[k] => i = k
  BY DEF IsInjective
<1> SUFFICES ASSUME NEW i \in DOMAIN Append(q, n), NEW k \in DOMAIN Append(q, n),
                    Append(q, n)[i] = Append(q, n)[k]
             PROVE  i = k
  BY DEF IsInjective
<1>5. CASE i \in DOMAIN q /\ k \in DOMAIN q
  BY <1>2, <1>4, <1>5
<1>6. CASE i \in DOMAIN q /\ k = Len(q) + 1
  BY <1>2, <1>6
<1>7. CASE k \in DOMAIN q /\ i = Len(q) + 1
  BY <1>2, <1>7
<1> QED
  BY <1>3, <1>5, <1>6, <1>7

\* The step of a dispatch.
LEMMA OnceDispatch ==
    ASSUME BaseInv, OnceInv, Faults \cap {"crash", "db"} = {}, NEW t \in Tasks, JobStep(t)
    PROVE  OnceInv'
<1>1. /\ OnceJob(job[t], row) /\ JobOK(job[t], Len(logs), events, body) /\ job[t] \in Job
      /\ job[t].view.seq \in Nat
      /\ \A c \in Chats : job[t].view.rows[c].seq \in Nat /\ row[c].seq \in Nat
  BY Types, JobParts DEF BaseInv, OnceInv, ChatRow
<1>2. /\ SameBodyPostedOnce /\ posted \in [Chats -> Seq(Nat)]
      /\ \A c \in Chats : posted[c] \in Seq(Nat) /\ \A i \in DOMAIN posted[c] : posted[c][i] \in Nat
  <2>1. posted \in [Chats -> Seq(1..Len(logs))] /\ 1..Len(logs) \subseteq Nat
    BY Types DEF BaseInv, TypeOK
  <2>2. Seq(1..Len(logs)) \subseteq Seq(Nat)
    BY <2>1
  <2>3. posted \in [Chats -> Seq(Nat)]
    BY <2>1, <2>2
  <2>4. SameBodyPostedOnce
    BY DEF OnceInv
  <2> QED
    BY <2>3, <2>4
\* A step that posts nothing and records nothing about bodies.
<1>3. ASSUME job[t].pc # "idle" \/ CanEnter(t), job[t].pc # "upsert", Moves(t), posted' = posted,
             \A c \in Chats : row'[c].seq = row[c].seq, OnceJob(job'[t], row')
      PROVE  OnceInv'
  <2>1. \A c \in Chats : \A i \in DOMAIN posted'[c] : Recorded(c, posted[c][i])'
    BY <1>3, AllRecorded DEF Recorded
  <2>2. SameBodyPostedOnce'
    BY <1>2, <1>3 DEF SameBodyPostedOnce
  <2> QED
    BY <1>3, <2>1, <2>2, OnceFrame
<1>4. ASSUME NEW o \in WriteOutcomes, Claim(t, o) PROVE OnceInv'
  <2>1. OnceJob(job'[t], row')
    BY <1>4, ClaimEffect DEF OnceJob, InHand
  <2> QED
    BY <2>1, <1>3, <1>4, ClaimEffect
<1>5. ASSUME NEW o \in WriteOutcomes, Defer(t, o) PROVE OnceInv'
  <2>1. OnceJob(job'[t], row')
    BY <1>5, DeferEffect, IdleOnce
  <2> QED
    BY <2>1, <1>3, <1>5, DeferEffect
<1>6. ASSUME NEW o \in WriteOutcomes, Finish(t, o) PROVE OnceInv'
  <2>1. OnceJob(job'[t], row')
    BY <1>6, FinishEffect, IdleOnce
  <2> QED
    BY <2>1, <1>3, <1>6, FinishEffect
<1>7. ASSUME NEW a \in ReadOutcomes, LoadCycle(t, a) PROVE OnceInv'
  <2>1. /\ job[t].pc = "load" /\ Moves(t) /\ UNCHANGED <<row, posted>>
        /\ (job'[t].pc = "settings" /\ job'[t].view.rows = row) \/ job'[t].pc = "finish"
    BY <1>7, LoadEffect
  <2>2. OnceJob(job'[t], row')
    BY <2>1, <1>1 DEF OnceJob, InHand
  <2> QED
    BY <2>1, <2>2, <1>3
<1>8. ASSUME NEW a \in ReadOutcomes, ReadSettings(t, a) PROVE OnceInv'
  <2>1. /\ job[t].pc = "settings" /\ Moves(t) /\ UNCHANGED <<row, posted>>
        /\ job'[t].view = job[t].view /\ job'[t].pc \in {"park", "finish", "deliver"}
    BY <1>8, SettingsEffect
  <2>2. OnceJob(job'[t], row')
    BY <2>1, <1>1 DEF OnceJob, InHand
  <2> QED
    BY <2>1, <2>2, <1>3
<1>9. ASSUME NEW c \in Chats, NEW o \in WriteOutcomes, Park(t, c, o) PROVE OnceInv'
  <2>1. /\ job[t].pc = "park" /\ Moves(t) /\ posted' = posted /\ job'[t].pc \in {"park", "defer"}
        /\ \A d \in Chats : row'[d].seq = row[d].seq
    BY <1>9, ParkEffect
  <2>2. OnceJob(job'[t], row')
    BY <2>1 DEF OnceJob, InHand
  <2> QED
    BY <2>1, <2>2, <1>3
<1>10. ASSUME NEW c \in Chats, Deliver(t, c) PROVE OnceInv'
  <2>1. /\ job[t].pc = "deliver" /\ c \in job[t].left /\ Moves(t) /\ UNCHANGED <<row, posted>>
        /\ job'[t].view = job[t].view /\ job'[t].left = job[t].left \ {c}
        /\ job'[t].chat \subseteq {c} /\ job'[t].pc \in {"finish", "deliver", "edit", "send"}
    BY <1>10, DeliverEffect
  <2>2. OnceJob(job'[t], row')
    BY <2>1, <1>1 DEF OnceJob, InHand
  <2> QED
    BY <2>1, <2>2, <1>3
\* A step that keeps the chat in hand.
<1>11. ASSUME job[t].pc \in InHand, row' = row, job'[t].view = job[t].view,
              job'[t].left = job[t].left, job'[t].chat = job[t].chat, job'[t].pc \in InHand
       PROVE  OnceJob(job'[t], row')
  BY <1>1, <1>11 DEF OnceJob, InHand
<1>12. ASSUME NEW l \in BOOLEAN, NEW a \in BOOLEAN, Edit(t, l, a) PROVE OnceInv'
  <2>1. PICK c \in Chats : job[t].chat = {c}
    BY <1>12, ChatInHand DEF Edit, InHand
  <2>2. /\ job[t].pc = "edit" /\ Moves(t) /\ UNCHANGED <<row, posted>>
        /\ job'[t].view = job[t].view /\ job'[t].left = job[t].left /\ job'[t].chat = job[t].chat
        /\ job'[t].pc \in InHand
    BY <1>12, <2>1, EditEffect DEF InHand
  <2>3. job[t].pc \in InHand
    BY <2>2 DEF InHand
  <2> QED
    BY <2>2, <2>3, <1>3, <1>11
<1>13. ASSUME NEW l \in BOOLEAN, NEW a \in BOOLEAN, Notify(t, l, a) PROVE OnceInv'
  <2>1. PICK c \in Chats : job[t].chat = {c}
    BY <1>13, ChatInHand DEF Notify, InHand
  <2>2. /\ job[t].pc = "notify" /\ Moves(t) /\ UNCHANGED <<row, posted>>
        /\ job'[t].view = job[t].view /\ job'[t].left = job[t].left /\ job'[t].chat = job[t].chat
        /\ job'[t].pc \in InHand
    BY <1>13, <2>1, NotifyEffect DEF InHand
  <2>3. job[t].pc \in InHand
    BY <2>2 DEF InHand
  <2> QED
    BY <2>2, <2>3, <1>3, <1>11
<1>14. ASSUME NEW o \in SendOutcomes, Send(t, o) PROVE OnceInv'
  <2>1. PICK c \in Chats : job[t].chat = {c} /\ job[t].view.rows[c].seq < job[t].view.seq
    BY <1>14, ChatInHand DEF Send, InHand
  <2>2. /\ job[t].pc = "send" /\ Moves(t) /\ row' = row
        /\ job'[t].view = job[t].view /\ job'[t].left = job[t].left /\ job'[t].chat = job[t].chat
        /\ job'[t].pc = "upsert"
        /\ \/ posted' = posted
           \/ /\ posted' = [posted EXCEPT ![c] = Append(@, job[t].view.seq)]
              /\ job'[t].put.seq = job[t].view.seq
    BY <1>14, <2>1, SendEffect
  <2>3. OnceJob(job'[t], row')
    <3>1. job[t].pc \in InHand /\ job'[t].pc \in InHand
      BY <2>2 DEF InHand
    <3> QED
      BY <3>1, <2>2, <1>11
  <2>4. CASE posted' = posted
    BY <2>2, <2>3, <2>4, <1>3
  <2>5. CASE /\ posted' = [posted EXCEPT ![c] = Append(@, job[t].view.seq)]
             /\ job'[t].put.seq = job[t].view.seq
    <3> DEFINE n == job[t].view.seq
               q == posted[c]
    <3>1. \A d \in Chats : \A i \in DOMAIN posted[d] : posted[d][i] <= row[d].seq
      BY <2>2, AllRecorded
    <3>2. row[c].seq <= job[t].view.rows[c].seq
      BY <2>1, <2>2, <1>1 DEF OnceJob, InHand
    <3>3. \A i \in DOMAIN q : q[i] < n
      BY <3>1, <3>2, <2>1, <1>1, <1>2
    <3>4. q \in Seq(Nat) /\ n \in Nat /\ IsInjective(q)
      BY <1>1, <1>2 DEF SameBodyPostedOnce
    <3>5. posted'[c] = Append(q, n) /\ \A d \in Chats : d # c => posted'[d] = posted[d]
      BY <2>5, <1>2
    <3> HIDE DEF n, q
    <3>6. SameBodyPostedOnce'
      <4>1. IsInjective(Append(q, n))
        BY <3>3, <3>4, PostOnce
      <4>2. \A d \in Chats : d # c => IsInjective(posted'[d])
        BY <3>5, <1>2 DEF SameBodyPostedOnce
      <4> QED
        BY <3>5, <4>1, <4>2 DEF SameBodyPostedOnce
    <3>7. \A d \in Chats : \A i \in DOMAIN posted'[d] : Recorded(d, posted[d][i])'
      <4>1. ASSUME NEW i \in DOMAIN posted'[c] PROVE Recorded(c, posted[c][i])'
        <5>1. posted'[c][i] <= n
          <6>1. /\ i \in DOMAIN q \/ i = Len(q) + 1
            BY <4>1, <3>4, <3>5, AppendProperties
          <6>2. /\ Append(q, n)[Len(q) + 1] = n
                /\ \A k \in DOMAIN q : Append(q, n)[k] = q[k] /\ q[k] \in Nat
            BY <3>4, AppendProperties
          <6> QED
            BY <6>1, <6>2, <3>3, <3>4, <3>5
        <5> QED
          BY <5>1, <2>1, <2>2, <2>5 DEF Recorded, n
      <4>2. ASSUME NEW d \in Chats, d # c, NEW i \in DOMAIN posted'[d] PROVE Recorded(d, posted[d][i])'
        BY <4>2, <3>1, <3>5, <2>2 DEF Recorded
      <4> QED
        BY <4>1, <4>2
    <3> QED
      BY <2>2, <2>3, <3>6, <3>7, OnceFrame
  <2> QED
    BY <2>2, <2>4, <2>5
<1>15. ASSUME NEW o \in WriteOutcomes, UpsertChat(t, o) PROVE OnceInv'
  <2>1. PICK c \in Chats : job[t].chat = {c} /\ c \notin job[t].left
    BY <1>15, ChatInHand DEF UpsertChat, InHand
  <2>2. /\ job[t].pc = "upsert" /\ Moves(t) /\ posted' = posted
        /\ \A d \in Chats : d # c => row'[d] = row[d]
        /\ job'[t].view = job[t].view /\ job'[t].left = job[t].left /\ job'[t].chat = {}
        /\ job'[t].pc \in {"finish", "deliver"}
    BY <1>15, <2>1, UpsertEffect
  <2>3. row'[c].seq = IF job[t].put.seq > row[c].seq THEN job[t].put.seq ELSE row[c].seq
    <3>1. "db" \notin Faults
      OBVIOUS
    <3> QED
      BY <1>15, <2>1, <3>1, UpsertEffect
  <2>4. OnceJob(job'[t], row')
    <3>1. \A d \in job[t].left : row'[d].seq <= job[t].view.rows[d].seq
      <4>1. job[t].left \subseteq Chats /\ c \notin job[t].left
        BY <1>1, <2>1, JobParts
      <4>2. \A d \in job[t].left : row[d].seq <= job[t].view.rows[d].seq
        BY <2>2, <4>1, <1>1 DEF OnceJob, InHand
      <4> QED
        BY <4>1, <4>2, <2>2
    <3> QED
      BY <3>1, <2>2 DEF OnceJob, InHand
  <2>5. SameBodyPostedOnce'
    BY <1>2, <2>2 DEF SameBodyPostedOnce
  <2>6. \A d \in Chats : \A i \in DOMAIN posted'[d] : Recorded(d, posted[d][i])'
    <3> SUFFICES ASSUME NEW d \in Chats, NEW i \in DOMAIN posted[d] PROVE posted[d][i] <= row'[d].seq
      BY <2>2 DEF Recorded
    <3>1. \A u \in Tasks : job[u].pc = "upsert" => u = t
      BY <2>2 DEF BaseInv, Mutex
    <3>2. posted[d][i] <= row[d].seq \/ (d = c /\ posted[d][i] <= job[t].put.seq)
      BY <3>1, <2>1 DEF OnceInv, Recorded
    <3>3. posted[d][i] \in Nat /\ row[d].seq \in Nat /\ job[t].put.seq \in Nat
      BY <1>1, <1>2, JobParts
    <3>4. CASE d # c
      BY <3>2, <3>4, <2>2
    <3>5. CASE d = c
      BY <3>2, <3>3, <3>5, <2>3
    <3> QED
      BY <3>4, <3>5
  <2> QED
    BY <2>2, <2>4, <2>5, <2>6, OnceFrame
<1> QED
  BY <1>4, <1>5, <1>6, <1>7, <1>8, <1>9, <1>10, <1>12, <1>13, <1>14, <1>15 DEF JobStep

\* OnceInv holds at the start and is kept by every step.
LEMMA OnceInduction ==
    ASSUME Faults \cap {"crash", "db"} = {}
    PROVE  /\ Init => OnceInv
           /\ BaseInv /\ OnceInv /\ [Next]_vars => OnceInv'
<1>1. ASSUME Init PROVE OnceInv
  <2>1. \A c \in Chats : DOMAIN posted[c] = {}
    BY <1>1 DEF Init
  <2>2. \A t \in Tasks : OnceJob(job[t], row)
    BY <1>1, IdleOnce DEF Init
  <2>3. SameBodyPostedOnce
    BY <2>1 DEF SameBodyPostedOnce, IsInjective
  <2> QED
    BY <2>1, <2>2, <2>3 DEF OnceInv
<1>2. ASSUME BaseInv, OnceInv, [Next]_vars PROVE OnceInv'
  <2>1. ASSUME UNCHANGED <<row, job, posted>> PROVE OnceInv'
    BY <1>2, <2>1 DEF OnceInv, Recorded, SameBodyPostedOnce
  <2>2. CASE DispatchStep
    BY <1>2, <2>2, OnceDispatch DEF DispatchStep
  <2>3. CASE SweepStep \/ Record \/ TogglePaused
    BY <2>1, <2>3 DEF SweepStep, Reclaim, Record, RecordEvent, RecordExecution, TogglePaused, dbVars, tgVars
  <2>4. CASE \E c \in Chats : DeleteMessage(c)
    BY <2>1, <2>4 DEF DeleteMessage, dbVars
  <2>5. ~Crash
    BY DEF Crash
  <2>6. CASE UNCHANGED vars
    BY <2>1, <2>6 DEF vars, dbVars, tgVars
  <2> QED
    BY <1>2, <2>2, <2>3, <2>4, <2>5, <2>6 DEF Next
<1> QED
  BY <1>1, <1>2

-----------------------------------------------------------------------------
(* The theorems.                                                           *)

\* Whatever goes wrong, dispatches exclude each other and none works from a
\* cycle older than what a chat shows.
THEOREM Inductive == Spec => []BaseInv
BY BaseInduction, PTL DEF Spec

\* The log, the rows, the dispatches and the chats keep their types.
THEOREM TypeCorrect == Spec => []TypeOK
<1>1. BaseInv => TypeOK
  BY DEF BaseInv
<1> QED
  BY <1>1, Inductive, PTL

\* A slow delivery never replaces a newer body by an older one, whatever
\* crashes, failed writes, failed reads and unanswered sends happen: the lock
\* around dispatch makes the loaded cycle the newest one anybody delivers.
THEOREM NoRegress == Spec => BodyNeverRegresses
<1>1. BaseInv /\ [Next]_vars => [\A c \in Chats : body'[c] >= body[c]]_vars
  BY BaseInduction
<1> QED
  BY <1>1, Inductive, PTL DEF Spec, BodyNeverRegresses

\* An entry is DELIVERED only when every chat with a recorded message shows a
\* body that includes it, crashes and failed writes notwithstanding, provided
\* that reads answer (a failed load closes the claim undelivered) and that an
\* unanswered send landed, which is what the dispatcher records about it.
THEOREM ShownWhenDelivered ==
    ASSUME Faults \cap {"read", "swallow"} = {}
    PROVE  Spec => []DeliveredWasShown
<1>1. BaseInv /\ ShownInv => DeliveredWasShown
  BY DEF ShownInv, Delivered, DeliveredWasShown
<1>2. Init => BaseInv /\ ShownInv
  BY BaseInduction, ShownInduction
<1>3. BaseInv /\ ShownInv /\ [Next]_vars => BaseInv' /\ ShownInv'
  BY BaseInduction, ShownInduction
<1> QED
  BY <1>1, <1>2, <1>3, PTL DEF Spec

\* No body is posted twice into a chat, however sends end, reads fail and
\* messages are deleted, provided that the process survives and its writes
\* commit: what was sent is recorded before the next dispatch may look.
THEOREM PostedOnce ==
    ASSUME Faults \cap {"crash", "db"} = {}
    PROVE  Spec => []SameBodyPostedOnce
<1>1. BaseInv /\ OnceInv => SameBodyPostedOnce
  BY DEF OnceInv
<1>2. Init => BaseInv /\ OnceInv
  BY BaseInduction, OnceInduction
<1>3. BaseInv /\ OnceInv /\ [Next]_vars => BaseInv' /\ OnceInv'
  BY BaseInduction, OnceInduction
<1> QED
  BY <1>1, <1>2, <1>3, PTL DEF Spec

=============================================================================
