--------------------------- MODULE BroadcastCycle ---------------------------
(***************************************************************************)
(* One broadcast cycle: the message each Telegram chat holds for a trade,  *)
(* the append-only write log that says which changes are still owed to the *)
(* chats, the writers that append to it (SignalBroadcastService) and the   *)
(* BroadcastDispatcher that claims entries, renders the whole cycle and    *)
(* edits the chats.  Cycles share nothing but the dispatcher's two tasks,  *)
(* the LISTEN drain and the sweeper, so one cycle is enough.               *)
(*                                                                         *)
(* A body is told apart by the sequence number it renders, a reply notice  *)
(* by the event it announces.  One step runs from one await to the next.   *)
(***************************************************************************)
EXTENDS Integers, Sequences, FiniteSets, Functions

CONSTANTS
    Chats,        \* the configured broadcast chats, the same for every dispatch
    Private,      \* those named by the environment; the others by a setting
    Notified,     \* those whose audience has reply notices switched on
    Tasks,        \* the tasks of the process that call dispatch
    MaxAttempts,  \* BroadcastDispatcher max_attempts
    MaxSeq,       \* bound: changes recorded on the cycle
    MaxNotices,   \* bound: reply notices a chat may receive
    Faults        \* what may go wrong besides Telegram refusing a call

\* "crash": the process dies.  "db": a dispatcher's write fails or commits
\* unreported.  "read": one of its reads fails.  "swallow": a send Telegram
\* never answered did not land after all.
FaultKinds == {"crash", "db", "read", "swallow"}

ASSUME BroadcastAssumption ==
    /\ Private \subseteq Chats /\ Notified \subseteq Chats
    /\ IsFiniteSet(Chats)
    /\ MaxAttempts \in Nat \ {0} /\ MaxSeq \in Nat /\ MaxNotices \in Nat
    /\ Faults \subseteq FaultKinds

VARIABLES
    logs,     \* broadcast_message_logs of the cycle, indexed by seq
    events,   \* number of signal events on the cycle
    row,      \* broadcast_message_chats: what is recorded about each chat
    paused,   \* silent_signal is on, or no chat is configured
    job,      \* the dispatch each task is running
    body,     \* Telegram: seq of the body a chat shows, 0 for none
    posted,   \* Telegram: seqs of the bodies posted as new messages
    notices,  \* Telegram: events announced by a reply
    present   \* Telegram: the recorded message has not been deleted

dbVars == <<logs, events, row>>
tgVars == <<body, posted, notices, present>>
vars == <<dbVars, paused, job, tgVars>>

Entry == [status: {"PENDING", "SENDING", "DELIVERED", "FAILED"},
          attempts: 0..MaxAttempts]

\* id: a message_id is stored; seq: delivered_seq; told: notified_event_count.
ChatRow == [id: BOOLEAN, seq: Nat, told: Nat]
NoRow == [id |-> FALSE, seq |-> 0, told |-> 0]

\* A dispatch: the log entries it claimed, the cycle as it loaded it, the chats
\* left, whether all went well so far, the chat in hand and the row to write.
NoView == [seq |-> 0, events |-> 0, rows |-> [c \in Chats |-> NoRow]]
NoJob == [pc |-> "idle", claimed |-> {}, view |-> NoView, left |-> {},
          ok |-> TRUE, chat |-> {}, put |-> NoRow]

Steps == {"idle", "load", "settings", "park", "defer", "deliver", "edit",
          "notify", "send", "upsert", "finish"}

TypeOK ==
    /\ logs \in Seq(Entry)
    /\ events \in 0..Len(logs)
    /\ row \in [Chats -> ChatRow]
    /\ paused \in BOOLEAN
    /\ DOMAIN job = Tasks
    /\ \A t \in Tasks : /\ job[t].pc \in Steps
                        /\ job[t].claimed \subseteq DOMAIN logs
                        /\ job[t].view.seq <= Len(logs)
                        /\ job[t].left \subseteq Chats
    /\ body \in [Chats -> 0..Len(logs)]
    /\ posted \in [Chats -> Seq(DOMAIN logs)]
    /\ notices \in [Chats -> Seq(1..events)]
    /\ present \in [Chats -> BOOLEAN]

Init ==
    /\ logs = <<>>
    /\ events = 0
    /\ row = [c \in Chats |-> NoRow]
    /\ paused = FALSE
    /\ job = [t \in Tasks |-> NoJob]
    /\ body = [c \in Chats |-> 0]
    /\ posted = [c \in Chats |-> <<>>]
    /\ notices = [c \in Chats |-> <<>>]
    /\ present = [c \in Chats |-> FALSE]

-----------------------------------------------------------------------------
(* Writers.  Each commits its change together with a log entry under the   *)
(* row lock of the cycle; a repeat of what is already recorded is dropped. *)

NewEntry == [status |-> "PENDING", attempts |-> 0]

\* record_event
RecordEvent ==
    /\ Len(logs) < MaxSeq
    /\ logs' = Append(logs, NewEntry)
    /\ events' = events + 1
    /\ UNCHANGED <<row, paused, job, tgVars>>

\* record_worker_execution, which needs a cycle to record on.
RecordExecution ==
    /\ logs # <<>>
    /\ Len(logs) < MaxSeq
    /\ logs' = Append(logs, NewEntry)
    /\ UNCHANGED <<events, row, paused, job, tgVars>>

\* An operator silences or resumes broadcasts, or empties the chat list.
TogglePaused ==
    /\ paused' = ~paused
    /\ UNCHANGED <<dbVars, job, tgVars>>

\* Somebody deletes the recorded message from a chat.
DeleteMessage(c) ==
    /\ present[c]
    /\ present' = [present EXCEPT ![c] = FALSE]
    /\ UNCHANGED <<dbVars, paused, job, body, posted, notices>>

-----------------------------------------------------------------------------
(* The dispatcher.                                                         *)

\* How a write of the dispatcher ends: committed, committed but reported as
\* failed, or failed.
WriteOutcomes == {"ok"} \cup (IF "db" \in Faults THEN {"unreported", "failed"} ELSE {})

\* How a read ends.
ReadOutcomes == {TRUE} \cup (IF "read" \in Faults THEN {FALSE} ELSE {})

Goto(t, j) == job' = [job EXCEPT ![t] = j]

\* Mutant of CanEnter: no lock.
CanEnterAlways(t) == TRUE

\* dispatch's per-cycle lock, shared by the tasks of the process.
CanEnter(t) == \A u \in Tasks \ {t} : job[u].pc = "idle"

\* Mutant of Claimable: an exhausted entry is claimed once more.
ClaimableOffByOne == {s \in DOMAIN logs : logs[s].status = "PENDING" /\ logs[s].attempts <= MaxAttempts}

Claimable == {s \in DOMAIN logs : logs[s].status = "PENDING" /\ logs[s].attempts < MaxAttempts}

\* claim_pending_logs.  A claim that is not reported leaves its entries in
\* SENDING with nobody working on them.
Claim(t, o) ==
    /\ job[t].pc = "idle"
    /\ CanEnter(t)
    /\ Claimable # {}
    /\ o # "failed"
    /\ logs' = [s \in DOMAIN logs |->
                  IF s \in Claimable
                  THEN [status |-> "SENDING", attempts |-> logs[s].attempts + 1]
                  ELSE logs[s]]
    /\ IF o = "ok" THEN Goto(t, [NoJob EXCEPT !.pc = "load", !.claimed = Claimable])
       ELSE UNCHANGED job
    /\ UNCHANGED <<events, row, paused, tgVars>>

\* load_cycle, after the claim.  A failed read looks like a deleted cycle.
LoadCycle(t, answered) ==
    /\ job[t].pc = "load"
    /\ Goto(t, IF answered
               THEN [job[t] EXCEPT !.pc = "settings",
                        !.view = [seq |-> Len(logs), events |-> events, rows |-> row]]
               ELSE [job[t] EXCEPT !.pc = "finish"])
    /\ UNCHANGED <<dbVars, paused, tgVars>>

\* Mutant of ChatsBehind: no chat counts as owed an edit.
ChatsBehindNone(view) == {}

\* _chats_behind
ChatsBehind(view) == {c \in Chats : view.rows[c].id /\ view.rows[c].seq < view.seq}

\* get_many and the choice between parking and delivering.  A failed read
\* answers no setting at all: not silenced, no public chats.
ReadSettings(t, answered) ==
    /\ job[t].pc = "settings"
    /\ LET behind == ChatsBehind(job[t].view)
           targets == IF answered THEN Chats ELSE Private
       IN  \/ /\ IF answered THEN paused ELSE Private = {}
              /\ Goto(t, [job[t] EXCEPT !.pc = IF behind = {} THEN "finish" ELSE "park",
                                        !.left = behind])
           \/ /\ IF answered THEN ~paused ELSE Private # {}
              /\ Goto(t, [job[t] EXCEPT !.pc = "deliver", !.left = targets])
    /\ UNCHANGED <<dbVars, paused, tgVars>>

\* upsert_chat: an id is only replaced by a new one, the counters only grow.
Upserted(r, put) ==
    [id |-> r.id \/ put.id,
     seq |-> IF put.seq > r.seq THEN put.seq ELSE r.seq,
     told |-> IF put.told > r.told THEN put.told ELSE r.told]

\* _park: a chat behind is caught up on notices.
Park(t, c, o) ==
    /\ job[t].pc = "park"
    /\ c \in job[t].left
    /\ row' = IF o = "failed" THEN row
              ELSE [row EXCEPT ![c] = Upserted(@, [NoRow EXCEPT !.told = job[t].view.events])]
    /\ Goto(t, [job[t] EXCEPT !.left = @ \ {c},
                              !.pc = IF job[t].left = {c} THEN "defer" ELSE "park"])
    /\ UNCHANGED <<logs, events, paused, tgVars>>

\* defer_logs: the attempt is given back.
Defer(t, o) ==
    /\ job[t].pc = "defer"
    /\ logs' = IF o = "failed" THEN logs
               ELSE [s \in DOMAIN logs |->
                       IF s \in job[t].claimed
                       THEN [status |-> "PENDING",
                             attempts |-> IF logs[s].attempts = 0 THEN 0
                                          ELSE logs[s].attempts - 1]
                       ELSE logs[s]]
    /\ Goto(t, NoJob)
    /\ UNCHANGED <<events, row, paused, tgVars>>

\* The next chat of _deliver_all, or the end of the list.
NextChat(j) == [j EXCEPT !.pc = IF j.left = {} THEN "finish" ELSE "deliver",
                         !.chat = {}, !.put = NoRow]

\* The start of _deliver: a chat that already shows this body is skipped, one
\* with a message has it edited, one without gets a new one.
Deliver(t, c) ==
    /\ job[t].pc = "deliver"
    /\ c \in job[t].left
    /\ LET r == job[t].view.rows[c]
           j == [job[t] EXCEPT !.left = @ \ {c}]
       IN  Goto(t, IF r.seq >= job[t].view.seq THEN NextChat(j)
                   ELSE [j EXCEPT !.chat = {c}, !.pc = IF r.id THEN "edit" ELSE "send"])
    /\ UNCHANGED <<dbVars, paused, tgVars>>

\* What _deliver writes about the chat in hand before it goes on.
Write(t, j, put, ok) ==
    Goto(t, [j EXCEPT !.pc = "upsert", !.put = put, !.ok = @ /\ ok])

\* edit_message.  An edit that raised may have landed all the same.
Edit(t, landed, answered) ==
    /\ job[t].pc = "edit"
    /\ \E c \in job[t].chat :
         \/ /\ ~present[c]
            /\ answered /\ ~landed
            /\ Goto(t, [job[t] EXCEPT !.pc = "send"])
            /\ UNCHANGED body
         \/ /\ landed => present[c]
            /\ answered => landed
            /\ body' = IF landed THEN [body EXCEPT ![c] = job[t].view.seq] ELSE body
            /\ IF answered
               THEN Goto(t, [job[t] EXCEPT !.pc = "notify",
                               !.put = [id |-> FALSE, seq |-> job[t].view.seq,
                                        told |-> job[t].view.rows[c].told]])
               ELSE Write(t, job[t], NoRow, FALSE)
    /\ UNCHANGED <<dbVars, paused, posted, notices, present>>

\* _notify_updates: one reply per event the chat was not told about, until one
\* of them is not confirmed.  It may have landed all the same.
Notify(t, landed, answered) ==
    /\ job[t].pc = "notify"
    /\ answered => landed
    /\ \E c \in job[t].chat :
         LET told == job[t].put.told
             all == job[t].view.events
         IN  \/ /\ c \notin Notified \/ told = all
                /\ landed /\ answered
                /\ Write(t, job[t], [job[t].put EXCEPT !.told = all], TRUE)
                /\ UNCHANGED notices
             \/ /\ c \in Notified /\ told < all
                /\ landed => Len(notices[c]) < MaxNotices
                /\ notices' = IF landed THEN [notices EXCEPT ![c] = Append(@, told + 1)]
                              ELSE notices
                /\ IF answered
                   THEN Goto(t, [job[t] EXCEPT !.put.told = told + 1])
                   ELSE Write(t, job[t], job[t].put, TRUE)
    /\ UNCHANGED <<dbVars, paused, body, posted, present>>

\* Mutant of UnknownPut: an unanswered send is treated as a refused one.
UnknownPutRefused(view) == NoRow

\* What is recorded about a send Telegram never answered: assume it landed.
UnknownPut(view) == [id |-> FALSE, seq |-> view.seq, told |-> view.events]

SendOutcomes == {"OK", "FAILED", "UNKNOWN"} \cup
                (IF "swallow" \in Faults THEN {"SWALLOWED"} ELSE {})

\* send_message
Send(t, o) ==
    /\ job[t].pc = "send"
    /\ \E c \in job[t].chat :
         /\ IF o \in {"OK", "UNKNOWN"}
            THEN /\ posted' = [posted EXCEPT ![c] = Append(@, job[t].view.seq)]
                 /\ body' = [body EXCEPT ![c] = job[t].view.seq]
            ELSE UNCHANGED <<posted, body>>
         /\ Write(t, job[t],
                  CASE o = "OK"     -> [id |-> TRUE, seq |-> job[t].view.seq,
                                        told |-> job[t].view.events]
                    [] o = "FAILED" -> NoRow
                    [] OTHER        -> UnknownPut(job[t].view),
                  o = "OK")
    /\ UNCHANGED <<dbVars, paused, notices, present>>

\* upsert_chat at the end of _deliver; whether it worked is ignored.
UpsertChat(t, o) ==
    /\ job[t].pc = "upsert"
    /\ \E c \in job[t].chat :
         IF o = "failed" THEN UNCHANGED <<row, present>>
         ELSE /\ row' = [row EXCEPT ![c] = Upserted(@, job[t].put)]
              /\ present' = [present EXCEPT ![c] = @ \/ job[t].put.id]
    /\ Goto(t, NextChat(job[t]))
    /\ UNCHANGED <<logs, events, paused, body, posted, notices>>

\* Mutant of FinishedIds: the whole log is closed, not only the claim.
FinishedIdsAll(t) == DOMAIN logs

\* The entries finish_logs closes.
FinishedIds(t) == job[t].claimed

\* Mutant of FinishedStatus: an exhausted entry goes back to PENDING.
FinishedStatusOpen(e, ok) == IF ok THEN "DELIVERED" ELSE "PENDING"

FinishedStatus(e, ok) ==
    IF ok THEN "DELIVERED" ELSE IF e.attempts >= MaxAttempts THEN "FAILED" ELSE "PENDING"

\* finish_logs; mark_broadcast's timestamp is not modelled.
Finish(t, o) ==
    /\ job[t].pc = "finish"
    /\ logs' = IF o = "failed" THEN logs
               ELSE [s \in DOMAIN logs |->
                       IF s \in FinishedIds(t)
                       THEN [logs[s] EXCEPT !.status = FinishedStatus(logs[s], job[t].ok)]
                       ELSE logs[s]]
    /\ Goto(t, NoJob)
    /\ UNCHANGED <<events, row, paused, tgVars>>

\* reclaim_stale_logs: entries that have been SENDING for long, whether their
\* dispatcher died or is merely slow.
Reclaim(S) ==
    /\ S # {}
    /\ S \subseteq {s \in DOMAIN logs : logs[s].status = "SENDING"}
    /\ logs' = [s \in DOMAIN logs |->
                  IF s \in S THEN [logs[s] EXCEPT !.status = "PENDING"] ELSE logs[s]]
    /\ UNCHANGED <<events, row, paused, job, tgVars>>

\* The process dies, or stop() cancels its tasks, wherever they stand.
Crash ==
    /\ "crash" \in Faults
    /\ \E t \in Tasks : job[t].pc # "idle"
    /\ job' = [t \in Tasks |-> NoJob]
    /\ UNCHANGED <<dbVars, paused, tgVars>>

-----------------------------------------------------------------------------
JobStep(t) ==
    \/ \E o \in WriteOutcomes : Claim(t, o) \/ Defer(t, o) \/ UpsertChat(t, o) \/ Finish(t, o)
    \/ \E a \in ReadOutcomes : LoadCycle(t, a) \/ ReadSettings(t, a)
    \/ \E c \in Chats : Deliver(t, c) \/ \E o \in WriteOutcomes : Park(t, c, o)
    \/ \E l, a \in BOOLEAN : Edit(t, l, a) \/ Notify(t, l, a)
    \/ \E o \in SendOutcomes : Send(t, o)

DispatchStep == \E t \in Tasks : JobStep(t)
SweepStep == \E S \in SUBSET DOMAIN logs : Reclaim(S)
Record == RecordEvent \/ RecordExecution

Next ==
    \/ DispatchStep
    \/ SweepStep
    \/ Record
    \/ TogglePaused
    \/ \E c \in Chats : DeleteMessage(c)
    \/ Crash

Spec == Init /\ [][Next]_vars

\* The event loop runs a dispatch to its end, the sweeper keeps coming back to
\* cycles with claimable entries and to stale ones (NOTIFY only makes that
\* faster), crashes end, and broadcasting is not silenced for ever.
FairSpec ==
    /\ Spec
    /\ WF_vars(DispatchStep) /\ WF_vars(SweepStep)
    /\ <>[][~Crash]_vars
    /\ <>[]~paused

-----------------------------------------------------------------------------
(* Properties.                                                             *)

\* "DELIVERED -- the chats now show a body that includes this change": no chat
\* with a recorded message is left on an older body by a closed entry, so no
\* edit is lost however changes, silences, claims and failures interleave.
DeliveredWasShown ==
    \A s \in DOMAIN logs : logs[s].status = "DELIVERED" =>
        \A c \in Chats : row[c].id => body[c] >= s

\* A slow delivery never replaces a newer body by an older one.
BodyNeverRegresses == [][\A c \in Chats : body'[c] >= body[c]]_vars

\* The same body is never posted twice into a chat, refused, unanswered and
\* deleted messages notwithstanding: "one stuck cycle became forty copies".
SameBodyPostedOnce == \A c \in Chats : IsInjective(posted[c])

\* Every entry of the write log is closed in the end: delivered, or FAILED
\* after its attempts.  None is left for ever to a sweeper that skips it.
EveryEntryCloses ==
    \A s \in 1..MaxSeq :
        Len(logs) >= s ~> (Len(logs) >= s /\ logs[s].status \in {"DELIVERED", "FAILED"})
=============================================================================
