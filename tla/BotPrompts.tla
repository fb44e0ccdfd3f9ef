----------------------------- MODULE BotPrompts -----------------------------
(***************************************************************************)
(* The Telegram bot in one admin's private chat: the middlewares every     *)
(* update passes, the command menu, the conversation state (FSM) that all  *)
(* flows share, the prompts that stay tappable in the chat, and the calls  *)
(* to the broker.  aiogram handles each update in a task of its own, so    *)
(* handlers interleave at their awaits.                                    *)
(*                                                                         *)
(* Of the broker this module keeps what the bot can tell: the accounts the *)
(* user holds, the active one (AccountLinks has the detail) and the        *)
(* account_id of each, which two accounts on different gateways may share. *)
(* A call succeeds, fails, or succeeds with its answer lost: the client    *)
(* returns None for the last two alike.                                    *)
(***************************************************************************)
EXTENDS Integers, FiniteSets, Sequences

CONSTANTS
    Accounts,     \* trading accounts
    Ids,          \* values of account_id
    Legs,         \* the legs of a FLAT scope, in the order of their pickers
    Slots,        \* updates that can be in flight at once
    MaxUpdates,   \* bound: updates
    MaxFaults,    \* bound: failed calls, restarts and changes made elsewhere
    Begins        \* what the user may hold to begin with: sets of accounts

None == "none"
All == "*"

ASSUME PromptsAssumption ==
    /\ {None, All} \cap Accounts = {} /\ None \notin Ids
    /\ Len(Legs) \in Nat /\ \A i \in 1..Len(Legs) : Legs[i] \notin Accounts \cup {None, All}
    /\ IsFiniteSet(Slots)
    /\ MaxUpdates \in Nat /\ MaxFaults \in Nat /\ Begins \subseteq SUBSET Accounts

VARIABLES
    links,     \* broker: accounts the user holds
    active,    \* broker: the one the user's commands act on
    accountId, \* broker: the account_id of each account
    moves,     \* history: changes of active
    fsm,       \* the chat's conversation state and data
    prompts,   \* messages in the chat that carry buttons
    applied,   \* CommandMenu._applied for this chat
    shown,     \* the menu Telegram shows
    upd,       \* the update in each slot
    updates,   \* updates so far
    faults,    \* faults so far
    acts,      \* history: caps set and FLATs sent, asked for whom and done to whom
    arms,      \* history: times aflat_target was set
    flats,     \* history: admin FLATs sent
    held       \* history: the user has held an account all along

vars == <<links, active, accountId, moves, fsm, prompts, applied, shown, upd, updates, faults,
          acts, arms, flats, held>>

brokerVars == <<links, active, accountId, moves, held>>
menuVars == <<applied, shown>>
histVars == <<acts, arms, flats>>

LegNames == {Legs[i] : i \in 1..Len(Legs)}

-----------------------------------------------------------------------------
(* The flows that ask the admin for a value: whether a failed read of the  *)
(* current value ends the flow, whether a failed write leaves it open,     *)
(* whether some replies are refused, and whether /cancel is understood.    *)

MagicMapFlow ==
    [state |-> "magicmap", readEnds |-> FALSE, writeStays |-> TRUE, refuses |-> TRUE, cancels |-> FALSE]
CryptoSymbolsFlow ==
    [state |-> "symbols", readEnds |-> TRUE, writeStays |-> FALSE, refuses |-> TRUE, cancels |-> TRUE]
CryptoLeverageFlow ==
    [state |-> "leverage", readEnds |-> TRUE, writeStays |-> FALSE, refuses |-> TRUE, cancels |-> TRUE]
AdminMaxOrdersFlow ==
    [state |-> "maxorders", readEnds |-> TRUE, writeStays |-> FALSE, refuses |-> TRUE, cancels |-> TRUE]
PublicChatsFlow ==
    [state |-> "chats", readEnds |-> TRUE, writeStays |-> FALSE, refuses |-> FALSE, cancels |-> TRUE]

ValueFlows == {MagicMapFlow, CryptoSymbolsFlow, CryptoLeverageFlow, AdminMaxOrdersFlow,
               PublicChatsFlow}

\* state.clear() drops the state and every flow's data.
NoFsm == [state |-> None, cap |-> None, uuid |-> None, pair |-> FALSE,
          target |-> {}, candidates |-> {}, strategies |-> FALSE, scope |-> {}]

\* A message with buttons, and what its text names.
Prompt(kind, names, leg) == [kind |-> kind, names |-> names, leg |-> leg]

NoPrompt == Prompt(None, {}, 0)

\* An update: what it asks for and how far its handler is; the account its
\* lookup brought, when, and (history) whether the broker denied one it has.
Idle == [what |-> None, at |-> "idle", account |-> None, since |-> 0, denied |-> FALSE,
         tap |-> NoPrompt, arg |-> None, target |-> {}, linked |-> FALSE, next |-> "end"]

FlowOf(state) == CHOOSE f \in ValueFlows : f.state = state
FlowStates == {f.state : f \in ValueFlows}

Protected == {"control", "unlink", "maxorders", "cap_text", "cap_cancel", "switch", "subscribe", "read",
              "tap_control", "tap_unlink", "tap_switch"}

Kinds == {"setup", "start", "deeplink", "link", "link_text", "text", "cancel", "aflat", "aflat_all",
          "rotate", "linkaccount", "newaccount", "ask", "value_text", "alink_text",
          "new_text", "setting", "tap_aflat", "tap_leg", "tap_pick", "tap_rotate",
          "tap_alink", "tap_new", None} \cup Protected

TypeOK ==
    /\ links \subseteq Accounts /\ active \in Accounts \cup {None}
    /\ active = None <=> links = {}
    /\ active # None => active \in links
    /\ accountId \in [Accounts -> Ids]
    /\ moves \in Nat /\ held \in BOOLEAN
    /\ fsm.state \in {None, "link", "cap", "alink", "new"} \cup FlowStates
    /\ fsm.cap \in Ids \cup {None} /\ fsm.uuid \in Accounts \cup {None}
    /\ fsm.pair \in BOOLEAN /\ fsm.strategies \in BOOLEAN
    /\ fsm.target \subseteq Accounts \cup {All} /\ Cardinality(fsm.target) <= 1
    /\ fsm.candidates \subseteq Accounts /\ fsm.scope \subseteq LegNames
    /\ fsm.state = "cap" => fsm.cap # None
    /\ fsm.state = "alink" => fsm.uuid # None
    /\ fsm.state = "new" => fsm.pair
    /\ applied \in {None, "start", "full"} /\ shown \in {"start", "full"}
    /\ \A s \in Slots : upd[s].what \in Kinds /\ upd[s].account \in Accounts \cup {None}
    /\ updates \in 0..MaxUpdates /\ faults \in 0..MaxFaults
    /\ arms \in Nat /\ flats \in Nat

-----------------------------------------------------------------------------
(* Plumbing: slots, and calls to the broker.                               *)

Goto(s, at) == upd' = [upd EXCEPT ![s].at = at]
Done(s) == upd' = [upd EXCEPT ![s] = Idle]
At(s, what, at) == upd[s].what = what /\ upd[s].at = at

\* BrokerClient._request: the call is carried out or not, and the caller sees
\* an answer or None.
Outcomes == {[does |-> TRUE, says |-> TRUE], [does |-> TRUE, says |-> FALSE],
             [does |-> FALSE, says |-> FALSE]}

\* A cancelled prompt makes no call.
Called(s, o) == upd[s].arg = "cancel" => o.says

Charge(fault) ==
    /\ fault => faults < MaxFaults
    /\ faults' = IF fault THEN faults + 1 ELSE faults

\* Mutant of ActiveOf: a pointer at an account no longer held is kept.
ActiveOfStale(L) == {active}

\* The broker's active account once the user holds L: get_active_account falls
\* back to any of them.
ActiveOf(L) == IF L = {} THEN {None} ELSE IF active \in L THEN {active} ELSE L

SetLinks(L) ==
    /\ links' = L
    /\ \E a \in ActiveOf(L) : active' = a /\ moves' = IF a = active THEN moves ELSE moves + 1
    /\ held' = (held /\ L # {})
    /\ UNCHANGED accountId

\* The accounts with the account_id of a.
Namesakes(a) == {b \in Accounts : accountId[b] = accountId[a]}

\* What a prompt was about, what the reply to it was done to, and whether the
\* active account changed after `since`.
Act(cmd, named, on, since) ==
    [cmd |-> cmd, named |-> named, on |-> on, moved |-> moves # since]

-----------------------------------------------------------------------------
(* CommandMenuMiddleware, CommandMenu and AuthMiddleware.                  *)

MenuFor(linked) == IF linked THEN "full" ELSE "start"

\* CommandMenu.sync starts for slot s, which goes on at `then` after it.
SyncOrSkip(s, u, linked, then) ==
    upd' = [upd EXCEPT ![s] =
        IF applied = MenuFor(linked) THEN [u EXCEPT !.at = then]
        ELSE [u EXCEPT !.at = "setmenu", !.linked = linked, !.next = then]]

\* How a lookup of the active account ends: answered, the broker out of reach,
\* or "denied": the broker's own database failed, which its repository turns
\* into "no account" and its API into a 404.
Lookups == {"ok", "unreachable", "denied"}

\* Mutant of Resolved: an outage reads as "no account".
ResolvedOutage(o) == [answered |-> TRUE, account |-> IF o = "ok" THEN active ELSE None]

\* resolve_account: (answered, account).
Resolved(o) == [answered |-> o # "unreachable", account |-> IF o = "ok" THEN active ELSE None]

\* The lookup every update starts with, refresh after an unlink, and setup's
\* refresh of the admin's own menu.
Resolve(s, o) ==
    LET r == Resolved(o)
        u == [upd[s] EXCEPT !.account = r.account, !.since = moves, !.denied = (o = "denied")]
    IN  /\ upd[s].at = "resolve"
        /\ o = "denied" => active # None
        /\ Charge(o # "ok")
        /\ IF r.answered THEN SyncOrSkip(s, u, r.account # None, u.next)
           ELSE upd' = [upd EXCEPT ![s] = [u EXCEPT !.at = u.next]]
        /\ UNCHANGED <<brokerVars, fsm, prompts, menuVars, updates, histVars>>

\* set_my_commands reaches Telegram, or fails before it does.
SetMenu(s, ok) ==
    /\ upd[s].at = "setmenu"
    /\ Charge(~ok)
    /\ shown' = IF ok THEN MenuFor(upd[s].linked) ELSE shown
    /\ Goto(s, IF ok THEN "menuack" ELSE "menufail")
    /\ UNCHANGED <<brokerVars, fsm, prompts, applied, updates, histVars>>

\* The cache remembers a menu only when Telegram answered.
AppliedAfter(s, ok) == IF ok THEN MenuFor(upd[s].linked) ELSE applied

MenuAnswer(s, ok) ==
    /\ \/ upd[s].at = "menuack" /\ Charge(~ok)
       \/ upd[s].at = "menufail" /\ ~ok /\ UNCHANGED faults
    /\ applied' = AppliedAfter(s, ok)
    /\ Goto(s, upd[s].next)
    /\ UNCHANGED <<brokerVars, fsm, prompts, shown, updates, histVars>>

\* A protected router asks again when the middleware brought no account; out of
\* reach or denied, the update ends here.
Auth(s, ok) ==
    /\ upd[s].at = "handle" /\ upd[s].what \in Protected /\ upd[s].account = None
    /\ Charge(~ok)
    /\ IF ok /\ active # None
       THEN upd' = [upd EXCEPT ![s].account = active, ![s].since = moves]
       ELSE Done(s)
    /\ UNCHANGED <<brokerVars, fsm, prompts, menuVars, updates, histVars>>

\* The handler's last step.
End(s) ==
    /\ upd[s].at = "end" /\ Done(s)
    /\ UNCHANGED <<brokerVars, fsm, prompts, menuVars, updates, faults, histVars>>

\* Slot s has a handler to run for `what`.
Handling(s, what) ==
    /\ At(s, what, "handle")
    /\ what \in Protected => upd[s].account # None

-----------------------------------------------------------------------------
(* Commands on the active account: /flat, /prevent, /allow, /unlink,       *)
(* /subscribe and the reads.                                               *)

\* /flat, /prevent, /allow and /unlink ask first; the prompt names the account
\* the middleware resolved.
CmdConfirm(s, what) ==
    /\ what \in {"control", "unlink"} /\ Handling(s, what)
    /\ prompts' = prompts \cup {Prompt(what, {upd[s].account}, 0)}
    /\ Done(s)
    /\ UNCHANGED <<brokerVars, fsm, menuVars, updates, faults, histVars>>

\* cb_confirm: the call carries the Telegram id; the broker picks the account,
\* whichever is active by then.
CbConfirm(s, o) ==
    /\ Handling(s, "tap_control") /\ Called(s, o)
    /\ Charge(~o.says)
    /\ prompts' = prompts \ {upd[s].tap}
    /\ Done(s)
    /\ UNCHANGED <<brokerVars, fsm, menuVars, updates, histVars>>

\* cb_unlink: drops the active account, then refreshes the menu.
CbUnlink(s, o) ==
    LET goes == upd[s].arg = "confirm" /\ o.does /\ active # None
    IN  /\ Handling(s, "tap_unlink") /\ Called(s, o)
        /\ Charge(~o.says)
        /\ IF goes THEN SetLinks(links \ {active}) ELSE UNCHANGED brokerVars
        /\ prompts' = prompts \ {upd[s].tap}
        /\ upd' = [upd EXCEPT ![s].at = IF goes /\ o.says THEN "resolve" ELSE "end",
                              ![s].next = "end"]
        /\ UNCHANGED <<fsm, menuVars, updates, histVars>>

\* /subscribe and its kin act on what the broker resolves and say which; the
\* reads (/status, /trades, /myaccounts, /help) change nothing.
Subscribe(s, o) ==
    /\ \E what \in {"subscribe", "read"} : Handling(s, what)
    /\ Charge(~o.says)
    /\ Done(s)
    /\ UNCHANGED <<brokerVars, fsm, prompts, menuVars, updates, histVars>>

\* /switch lists the accounts, one button each; pages redraw the same list.
CmdSwitch(s, ok) ==
    /\ Handling(s, "switch")
    /\ Charge(~ok)
    /\ prompts' = IF ok /\ Cardinality(links) > 1
                  THEN prompts \cup {Prompt("switch", links, 0)} ELSE prompts
    /\ Done(s)
    /\ UNCHANGED <<brokerVars, fsm, menuVars, updates, histVars>>

\* swacc:{uuid}: the button carries the account.
CbSwitch(s, o) ==
    /\ Handling(s, "tap_switch")
    /\ Charge(~o.says)
    /\ IF o.does /\ upd[s].arg \in links
       THEN /\ active' = upd[s].arg
            /\ moves' = IF active = upd[s].arg THEN moves ELSE moves + 1
            /\ UNCHANGED <<links, accountId, held>>
       ELSE UNCHANGED brokerVars
    /\ prompts' = prompts \ {upd[s].tap}
    /\ Done(s)
    /\ UNCHANGED <<fsm, menuVars, updates, histVars>>

-----------------------------------------------------------------------------
(* /maxorders: prompt, then a number for the account the prompt was about, *)
(* of which the conversation keeps the account_id.                         *)

\* The state is cleared before the cap is fetched and set after.
CmdMaxOrders(s) ==
    /\ Handling(s, "maxorders")
    /\ fsm' = NoFsm
    /\ Goto(s, "fetch")
    /\ UNCHANGED <<brokerVars, prompts, menuVars, updates, faults, histVars>>

PromptMaxOrders(s, ok) ==
    /\ At(s, "maxorders", "fetch")
    /\ Charge(~ok)
    /\ fsm' = IF ok /\ active # None
              THEN [fsm EXCEPT !.state = "cap", !.cap = accountId[upd[s].account]] ELSE fsm
    /\ Done(s)
    /\ UNCHANGED <<brokerVars, prompts, menuVars, updates, histVars>>

\* Mutant of PromptedFor: the number is taken for whatever is active.
PromptedForAny(s) == TRUE

\* The prompt was about the account_id that is active now.
PromptedFor(s) == fsm.cap = accountId[upd[s].account]

\* receive_max_orders up to the broker call; anything but a cap is asked again.
ReceiveMaxOrders(s) ==
    /\ Handling(s, "cap_text")
    /\ IF ~PromptedFor(s) THEN fsm' = NoFsm /\ Done(s)
       ELSE /\ UNCHANGED fsm
            /\ \/ Done(s)
               \/ upd' = [upd EXCEPT ![s].at = "set", ![s].arg = fsm.cap]
    /\ UNCHANGED <<brokerVars, prompts, menuVars, updates, faults, histVars>>

\* The write, and the state cleared after it.
SetMaxOrders(s, o) ==
    /\ At(s, "cap_text", "set")
    /\ Charge(~o.says)
    /\ acts' = IF o.does /\ active # None
               THEN acts \cup {Act("cap", {upd[s].arg}, {accountId[active]}, upd[s].since)}
               ELSE acts
    /\ fsm' = NoFsm
    /\ Done(s)
    /\ UNCHANGED <<brokerVars, prompts, menuVars, updates, arms, flats>>

-----------------------------------------------------------------------------
(* Linking: /start, /link, an invite link, and the typed code.             *)

\* /start of a linked user ends whatever was going on; of an unlinked one, and
\* /link, it waits for a code.
CmdStart(s, ok) ==
    LET found == ok /\ active # None
    IN  /\ \E what \in {"start", "link"} :
              /\ At(s, what, "handle")
              /\ fsm' = IF found /\ what = "start" THEN NoFsm ELSE [fsm EXCEPT !.state = "link"]
        /\ Charge(~ok)
        /\ Done(s)
        /\ UNCHANGED <<brokerVars, prompts, menuVars, updates, histVars>>

\* apply_link_token for a typed code; one that does not parse stays in the flow.
ReceiveToken(s, o) ==
    /\ At(s, "link_text", "handle")
    /\ Charge(~o.says)
    /\ \E a \in Accounts \cup {None} :
          /\ IF o.does /\ a # None THEN SetLinks(links \cup {a}) ELSE UNCHANGED brokerVars
          /\ IF o.says /\ a # None
             THEN fsm' = NoFsm /\ SyncOrSkip(s, upd[s], TRUE, "end")
             ELSE UNCHANGED fsm /\ Done(s)
    /\ UNCHANGED <<prompts, menuVars, updates, histVars>>

\* /start <code>: clears, links on the spot, or falls back to asking.
StartDeepLink(s, o) ==
    /\ At(s, "deeplink", "handle")
    /\ Charge(~o.says)
    /\ \E a \in Accounts \cup {None} :
          /\ IF o.does /\ a # None THEN SetLinks(links \cup {a}) ELSE UNCHANGED brokerVars
          /\ IF o.says /\ a # None
             THEN fsm' = NoFsm /\ SyncOrSkip(s, upd[s], TRUE, "end")
             ELSE fsm' = [NoFsm EXCEPT !.state = "link"] /\ Done(s)
    /\ UNCHANGED <<prompts, menuVars, updates, histVars>>

-----------------------------------------------------------------------------
(* Typed text and /cancel go to the flow the conversation is in when the   *)
(* middlewares are done; with no flow nobody handles them.                 *)

Route(s) ==
    LET typed == upd[s].what = "text"
        handler ==
            CASE fsm.state = "cap" -> IF typed THEN "cap_text" ELSE "cap_cancel"
              [] fsm.state \in FlowStates ->
                    IF typed THEN "value_text" ELSE IF FlowOf(fsm.state).cancels THEN "cancel" ELSE None
              [] fsm.state = "link" -> IF typed THEN "link_text" ELSE None
              [] fsm.state = "alink" -> IF typed THEN "alink_text" ELSE None
              [] fsm.state = "new" -> IF typed THEN "new_text" ELSE None
              [] OTHER -> None
    IN  /\ upd[s].at = "route"
        /\ upd' = [upd EXCEPT ![s] = IF handler = None THEN Idle
                                     ELSE [@ EXCEPT !.what = handler, !.at = "handle", !.arg = fsm.state]]
        /\ UNCHANGED <<brokerVars, fsm, prompts, menuVars, updates, faults, histVars>>

Cancel(s) ==
    /\ \E what \in {"cancel", "cap_cancel"} : Handling(s, what)
    /\ fsm' = NoFsm
    /\ Done(s)
    /\ UNCHANGED <<brokerVars, prompts, menuVars, updates, faults, histVars>>

-----------------------------------------------------------------------------
(* Admin: the flows that ask for a value, and the settings set in one go.  *)

\* The state is cleared, the current value fetched, then the state set.
CmdAsk(s) ==
    /\ At(s, "ask", "handle")
    /\ fsm' = NoFsm
    /\ Goto(s, "fetch")
    /\ UNCHANGED <<brokerVars, prompts, menuVars, updates, faults, histVars>>

PromptValue(s, ok) ==
    LET f == FlowOf(upd[s].arg)
    IN  /\ At(s, "ask", "fetch")
        /\ Charge(~ok)
        /\ fsm' = IF ~ok /\ f.readEnds THEN fsm ELSE [fsm EXCEPT !.state = f.state]
        /\ Done(s)
        /\ UNCHANGED <<brokerVars, prompts, menuVars, updates, histVars>>

\* A refused reply leaves the flow open; the write closes it.
ReceiveValue(s, o) ==
    LET f == FlowOf(upd[s].arg)
    IN  /\ At(s, "value_text", "handle")
        /\ \/ f.refuses /\ o.says /\ UNCHANGED <<fsm, faults>>
           \/ /\ Charge(~o.says)
              /\ fsm' = IF ~o.says /\ f.writeStays THEN fsm ELSE NoFsm
        /\ Done(s)
        /\ UNCHANGED <<brokerVars, prompts, menuVars, updates, histVars>>

\* /admin_settings toggles and the two reply-notify commands: one call each,
\* no conversation.
SetSetting(s, o) ==
    /\ At(s, "setting", "handle")
    /\ Charge(~o.says)
    /\ Done(s)
    /\ UNCHANGED <<brokerVars, fsm, prompts, menuVars, updates, histVars>>

-----------------------------------------------------------------------------
(* Admin: /admin_rotate, /admin_linkaccount, /admin_newaccount.            *)

CmdRotate(s) ==
    /\ At(s, "rotate", "handle")
    /\ prompts' = prompts \cup {Prompt("rotate", {upd[s].arg}, 0)}
    /\ Done(s)
    /\ UNCHANGED <<brokerVars, fsm, menuVars, updates, faults, histVars>>

\* arot:{account_id}:ok|no; of the accounts with that account_id the broker
\* takes whichever comes first.
CbRotate(s, o) ==
    /\ At(s, "tap_rotate", "handle") /\ Called(s, o)
    /\ Charge(~o.says)
    /\ IF upd[s].arg = "confirm" /\ o.does
       THEN \E a \in UNION {Namesakes(n) : n \in upd[s].tap.names} : SetLinks(links \ {a})
       ELSE UNCHANGED brokerVars
    /\ prompts' = prompts \ {upd[s].tap}
    /\ Done(s)
    /\ UNCHANGED <<fsm, menuVars, updates, histVars>>

CmdLinkAccount(s, ok) ==
    /\ At(s, "linkaccount", "handle")
    /\ Charge(~ok)
    /\ fsm' = NoFsm
    /\ prompts' = IF ok THEN prompts \cup {Prompt("alink", Accounts, 0)} ELSE prompts
    /\ Done(s)
    /\ UNCHANGED <<brokerVars, menuVars, updates, histVars>>

CbLinkAccount(s) ==
    /\ At(s, "tap_alink", "handle")
    /\ fsm' = [fsm EXCEPT !.state = "alink", !.uuid = upd[s].arg]
    /\ prompts' = prompts \ {upd[s].tap}
    /\ Done(s)
    /\ UNCHANGED <<brokerVars, menuVars, updates, faults, histVars>>

\* The typed id links another user: of this chat's state only the FSM moves.
ReceiveLinkId(s, o) ==
    /\ At(s, "alink_text", "handle")
    /\ \/ o.says /\ UNCHANGED <<fsm, faults>>
       \/ Charge(~o.says) /\ fsm' = NoFsm
    /\ Done(s)
    /\ UNCHANGED <<brokerVars, prompts, menuVars, updates, histVars>>

CmdNewAccount(s) ==
    /\ At(s, "newaccount", "handle")
    /\ fsm' = NoFsm
    /\ prompts' = prompts \cup {Prompt("new", {}, 0)}
    /\ Done(s)
    /\ UNCHANGED <<brokerVars, menuVars, updates, faults, histVars>>

\* The market and gateway are stored once the account list has been fetched.
CbNewAccount(s, ok) ==
    /\ At(s, "tap_new", "handle")
    /\ Charge(~ok)
    /\ fsm' = [fsm EXCEPT !.state = "new", !.pair = TRUE]
    /\ prompts' = prompts \ {upd[s].tap}
    /\ Done(s)
    /\ UNCHANGED <<brokerVars, menuVars, updates, histVars>>

ReceiveNewId(s, o) ==
    /\ At(s, "new_text", "handle")
    /\ \/ o.says /\ UNCHANGED <<fsm, faults>>
       \/ Charge(~o.says) /\ fsm' = NoFsm
    /\ Done(s)
    /\ UNCHANGED <<brokerVars, prompts, menuVars, updates, histVars>>

-----------------------------------------------------------------------------
(* Admin: /admin_flat.  One slot of the chat's data holds the target.      *)

\* The message's buttons become those of the next leg, or confirm/cancel.
NextPicker(leg, scope) ==
    IF leg < Len(Legs) THEN Prompt("leg", {}, leg + 1)
    ELSE Prompt("aflat", {All} \cup scope, 0)

\* Bare: the slot holds everything from the start; a failed fetch of the
\* strategies leaves only "All" to pick.
StartScope(s, ok) ==
    /\ At(s, "aflat_all", "handle")
    /\ Charge(~ok)
    /\ fsm' = [fsm EXCEPT !.target = {All}, !.candidates = {}, !.strategies = ok, !.scope = {}]
    /\ prompts' = prompts \cup {NextPicker(0, {})}
    /\ arms' = arms + 1
    /\ Done(s)
    /\ UNCHANGED <<brokerVars, menuVars, updates, acts, flats>>

\* With an account_id: no match, one match, or a pick between several.
CmdAflat(s, ok) ==
    /\ At(s, "aflat", "handle")
    /\ Charge(~ok)
    /\ \/ ~ok /\ UNCHANGED <<fsm, prompts, arms>>
       \/ /\ ok
          /\ Namesakes(upd[s].arg) = {upd[s].arg}
          /\ fsm' = [fsm EXCEPT !.target = {upd[s].arg}, !.candidates = {}]
          /\ prompts' = prompts \cup {Prompt("aflat", {upd[s].arg}, 0)}
          /\ arms' = arms + 1
       \/ /\ ok
          /\ Namesakes(upd[s].arg) # {upd[s].arg}
          /\ fsm' = [fsm EXCEPT !.target = {}, !.candidates = Namesakes(upd[s].arg)]
          /\ prompts' = prompts \cup {Prompt("pick", Namesakes(upd[s].arg), 0)}
          /\ UNCHANGED arms
    /\ Done(s)
    /\ UNCHANGED <<brokerVars, menuVars, updates, acts, flats>>

\* aflatc:{index}
PickCandidate(s) ==
    /\ At(s, "tap_pick", "handle")
    /\ IF upd[s].arg \in fsm.candidates
       THEN /\ fsm' = [fsm EXCEPT !.target = {upd[s].arg}, !.candidates = {}]
            /\ prompts' = (prompts \ {upd[s].tap}) \cup {Prompt("aflat", {upd[s].arg}, 0)}
            /\ arms' = arms + 1
       ELSE UNCHANGED <<fsm, prompts, arms>>
    /\ Done(s)
    /\ UNCHANGED <<brokerVars, menuVars, updates, faults, acts, flats>>

\* afls, aflm, aflg: one leg narrowed or left at "All".  Only the first leg's
\* buttons refer to data of the conversation.
PickLeg(s) ==
    LET leg == upd[s].tap.leg
        narrow == upd[s].arg = "narrow"
        scope == IF narrow THEN fsm.scope \cup {Legs[leg]} ELSE fsm.scope \ {Legs[leg]}
    IN  /\ At(s, "tap_leg", "handle")
        /\ IF narrow /\ leg = 1 /\ ~fsm.strategies THEN UNCHANGED <<fsm, prompts>>
           ELSE /\ fsm' = [fsm EXCEPT !.scope = scope]
                /\ prompts' = (prompts \ {upd[s].tap}) \cup {NextPicker(leg, scope)}
        /\ Done(s)
        /\ UNCHANGED <<brokerVars, menuVars, updates, faults, histVars>>

\* Mutant of TakeSlot: the slot is read and left as it is.
TakeSlotKept == fsm

\* cb_aflat reads the slot and empties it before it does anything else.
TakeSlot == [fsm EXCEPT !.target = {}, !.candidates = {}, !.strategies = FALSE, !.scope = {}]

CbAflat(s) ==
    LET target == IF All \in fsm.target THEN {All} \cup fsm.scope ELSE fsm.target
    IN  /\ At(s, "tap_aflat", "handle")
        /\ fsm' = TakeSlot
        /\ IF upd[s].arg = "confirm" /\ target # {}
           THEN upd' = [upd EXCEPT ![s].at = "send", ![s].target = target] /\ UNCHANGED prompts
           ELSE Done(s) /\ prompts' = prompts \ {upd[s].tap}
        /\ UNCHANGED <<brokerVars, menuVars, updates, faults, histVars>>

SendAflat(s, o) ==
    /\ At(s, "tap_aflat", "send")
    /\ Charge(~o.says)
    /\ IF o.does
       THEN /\ flats' = flats + 1
            /\ acts' = acts \cup {Act("aflat", upd[s].tap.names, upd[s].target, moves)}
       ELSE UNCHANGED <<flats, acts>>
    /\ prompts' = prompts \ {upd[s].tap}
    /\ Done(s)
    /\ UNCHANGED <<brokerVars, fsm, menuVars, updates, arms>>

-----------------------------------------------------------------------------
(* Updates, changes made elsewhere, and a restart of the bot.              *)

Commands ==
    {[what |-> w, arg |-> None] : w \in {"control", "unlink", "maxorders", "switch", "subscribe",
        "read", "start", "deeplink", "link", "text", "cancel", "aflat_all", "linkaccount",
        "newaccount", "setting"}}
    \cup {[what |-> w, arg |-> a] : w \in {"aflat", "rotate"}, a \in Accounts}
    \cup {[what |-> "ask", arg |-> f] : f \in FlowStates}

\* The buttons of a prompt.
YesNo(what) == {[what |-> what, arg |-> d] : d \in {"confirm", "cancel"}}
PickOf(what, names) == {[what |-> what, arg |-> a] : a \in names}

Taps(p) ==
    CASE p.kind = "control" -> YesNo("tap_control")
      [] p.kind = "unlink"  -> YesNo("tap_unlink")
      [] p.kind = "rotate"  -> YesNo("tap_rotate")
      [] p.kind = "aflat"   -> YesNo("tap_aflat")
      [] p.kind = "switch"  -> PickOf("tap_switch", p.names)
      [] p.kind = "alink"   -> PickOf("tap_alink", p.names)
      [] p.kind = "pick"    -> PickOf("tap_pick", p.names)
      [] p.kind = "leg"     -> {[what |-> "tap_leg", arg |-> d] : d \in {"narrow", "all"}}
      [] p.kind = "new"     -> {[what |-> "tap_new", arg |-> None]}

SetupRun == [Idle EXCEPT !.what = "setup", !.at = "resolve"]

\* Updates are polled once setup has run.
Arrive(s, c, p) ==
    /\ upd[s] = Idle /\ updates < MaxUpdates
    /\ \A o \in Slots : upd[o].what # "setup"
    /\ updates' = updates + 1
    /\ upd' = [upd EXCEPT ![s] = [Idle EXCEPT !.what = c.what, !.arg = c.arg, !.tap = p,
                  !.at = "resolve",
                  !.next = IF c.what \in {"text", "cancel"} THEN "route" ELSE "handle"]]
    /\ UNCHANGED <<brokerVars, fsm, prompts, menuVars, faults, histVars>>

\* From another chat, or by another admin: a link, an unlink, a switch.
Elsewhere ==
    /\ Charge(TRUE)
    /\ \/ \E a \in Accounts : SetLinks(links \cup {a}) \/ SetLinks(links \ {a})
       \/ /\ \E a \in links \ {active} : active' = a
          /\ moves' = moves + 1
          /\ UNCHANGED <<links, accountId, held>>
    /\ UNCHANGED <<fsm, prompts, menuVars, upd, updates, histVars>>

\* MemoryStorage and the menu cache are lost; what Telegram shows is not.
Restart(s) ==
    /\ Charge(TRUE)
    /\ fsm' = NoFsm /\ applied' = None
    /\ upd' = [o \in Slots |-> IF o = s THEN SetupRun ELSE Idle]
    /\ UNCHANGED <<brokerVars, prompts, shown, updates, histVars>>

Init ==
    /\ links \in Begins
    /\ active \in IF links = {} THEN {None} ELSE links
    /\ accountId \in [Accounts -> Ids]
    /\ moves = 0 /\ held = (links # {})
    /\ fsm = NoFsm /\ prompts = {}
    /\ applied = None /\ shown \in {"start", "full"}
    /\ \E s \in Slots : upd = [o \in Slots |-> IF o = s THEN SetupRun ELSE Idle]
    /\ updates = 0 /\ faults = 0
    /\ acts = {} /\ arms = 0 /\ flats = 0

Handle(s) ==
    \/ \E what \in {"control", "unlink"} : CmdConfirm(s, what)
    \/ CmdMaxOrders(s) \/ ReceiveMaxOrders(s) \/ Route(s) \/ Cancel(s) \/ CmdAsk(s)
    \/ CmdRotate(s) \/ CbLinkAccount(s) \/ CmdNewAccount(s)
    \/ PickCandidate(s) \/ PickLeg(s) \/ CbAflat(s) \/ End(s)

Ask(s, ok) ==
    \/ SetMenu(s, ok) \/ MenuAnswer(s, ok) \/ Auth(s, ok)
    \/ CmdSwitch(s, ok) \/ PromptMaxOrders(s, ok) \/ CmdStart(s, ok) \/ PromptValue(s, ok)
    \/ CmdLinkAccount(s, ok) \/ CbNewAccount(s, ok) \/ StartScope(s, ok) \/ CmdAflat(s, ok)

Do(s, o) ==
    \/ CbConfirm(s, o) \/ CbUnlink(s, o) \/ Subscribe(s, o) \/ CbSwitch(s, o)
    \/ SetMaxOrders(s, o) \/ ReceiveToken(s, o) \/ StartDeepLink(s, o) \/ ReceiveValue(s, o)
    \/ SetSetting(s, o) \/ CbRotate(s, o) \/ ReceiveLinkId(s, o) \/ ReceiveNewId(s, o)
    \/ SendAflat(s, o)

Next ==
    \/ \E s \in Slots :
          \/ \E c \in Commands : Arrive(s, c, NoPrompt)
          \/ \E p \in prompts : \E c \in Taps(p) : Arrive(s, c, p)
          \/ Handle(s)
          \/ \E o \in Lookups : Resolve(s, o)
          \/ \E ok \in BOOLEAN : Ask(s, ok)
          \/ \E o \in Outcomes : Do(s, o)
          \/ Restart(s)
    \/ Elsewhere

Spec == Init /\ [][Next]_vars

-----------------------------------------------------------------------------
(* Safety.                                                                 *)

\* A typed cap is set on an account with the account_id its prompt was about,
\* however often the user switched since: receive_max_orders compares the two
\* before it writes.  Only a change that comes after the reply did can still
\* slip in between, because the broker looks up the active account by itself.
CapReachesPromptedId ==
    \A x \in acts : x.cmd = "cap" /\ x.on # x.named => x.moved

\* Confirming twice sends one FLAT: there are never more FLATs than times a
\* target was put in the slot, however taps and commands interleave.
FlatOncePerTarget == flats <= arms

\* A FLAT the admin confirms is the one the tapped prompt describes.
FlatIsTheOneShown ==
    \A x \in acts : x.cmd = "aflat" => x.on = x.named

\* A user who has held an account all along loses the full menu to one thing
\* only, an update whose lookup the broker itself denied: no outage of the
\* broker, no restart, no unlink of another account and no late request of
\* another update takes it away.
KeepsCommands ==
    [][held /\ shown = "full" /\ shown' # "full" =>
          \E s \in Slots : upd[s].denied /\ upd[s].at = "setmenu" /\ upd'[s] # upd[s]]_vars

=============================================================================
