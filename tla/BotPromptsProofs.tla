-------------------------- MODULE BotPromptsProofs --------------------------
(***************************************************************************)
(* Proofs about the bot in one admin's chat, for any number of accounts,   *)
(* updates in flight and legs of a FLAT scope.                             *)
(***************************************************************************)
EXTENDS BotPrompts, FiniteSetTheorems, TLAPS

-----------------------------------------------------------------------------
(* The inductive invariant.                                                *)

Account == Accounts \cup {None}

Fsm == [state: {None, "link", "cap", "alink", "new"} \cup FlowStates, cap: Ids \cup {None}, uuid: Account,
        pair: BOOLEAN, target: SUBSET (Accounts \cup {All}), candidates: SUBSET Accounts,
        strategies: BOOLEAN, scope: SUBSET LegNames]

Prompted == [kind: {None, "control", "unlink", "rotate", "aflat", "switch", "alink", "pick", "leg", "new"},
             names: SUBSET (Accounts \cup {All} \cup LegNames), leg: Nat]

Args == Accounts \cup {None, "confirm", "cancel", "narrow", "all", "link", "cap", "alink", "new"}
                 \cup FlowStates \cup Ids

Update == [what: Kinds,
           at: {"idle", "resolve", "setmenu", "menuack", "menufail", "handle", "route", "fetch", "set",
                "send", "end"},
           account: Account, since: Nat, denied: BOOLEAN, tap: Prompted, arg: Args,
           target: SUBSET (Accounts \cup {All} \cup LegNames), linked: BOOLEAN,
           next: {"end", "route", "handle"}]

\* The conversation of a flow has the data the flow needs, the slot of
\* /admin_flat holds one target.
FsmOK(f) ==
    /\ f \in Fsm
    /\ f.target = {} \/ \E x \in Accounts \cup {All} : f.target = {x}
    /\ f.state = "cap" => f.cap # None
    /\ f.state = "alink" => f.uuid # None
    /\ f.state = "new" => f.pair

\* Account a was the active one when `moves` stood at n: it still is, unless
\* the active account has been changed since.
Was(a, n) == n <= moves /\ (n = moves => a = active)

\* What a prompt in the chat names.
PromptOK(p) ==
    /\ p \in Prompted /\ p.kind # None
    /\ p.kind \in {"switch", "alink", "pick", "rotate"} => p.names \subseteq Accounts
    /\ p.kind = "leg" => p.leg \in 1..Len(Legs)

\* What an update in flight carries, and what its handler knows.
UpdateOK(u) ==
    /\ u \in Update
    /\ u.tap.kind # None => PromptOK(u.tap)
    /\ u.what \in {"aflat", "rotate", "tap_switch", "tap_alink", "tap_pick"} => u.arg \in Accounts
    /\ u.what = "ask" => u.arg \in FlowStates
    /\ u.what = "tap_leg" => u.tap.kind = "leg"
    /\ u.account # None => Was(u.account, u.since)
    /\ u.what = "maxorders" /\ u.at = "fetch" => u.account # None
    /\ u.at = "set" => u.account # None /\ u.arg = accountId[u.account]
    /\ held /\ u.at = "setmenu" => u.linked \/ u.denied

\* The broker's accounts of the user.
BrokerOK ==
    /\ links \subseteq Accounts /\ active \in Account
    /\ active = None <=> links = {}
    /\ active # None => active \in links
    /\ accountId \in [Accounts -> Ids]
    /\ moves \in Nat /\ held \in BOOLEAN
    /\ held => links # {}

\* The updates that have taken a target out of the slot and not sent it yet.
Sending == {s \in Slots : upd[s].at = "send"}
Loaded(f) == IF f.target = {} THEN 0 ELSE 1

\* Each target that was put in the slot is in it, about to be sent, sent, or
\* given up.
SlotOK ==
    /\ arms \in Nat /\ flats \in Nat
    /\ flats + Cardinality(Sending) + Loaded(fsm) <= arms

ActOK(x) == x.cmd = "cap" /\ x.on # x.named => x.moved

BoundsOK ==
    /\ applied \in {None, "start", "full"} /\ shown \in {"start", "full"}
    /\ updates \in 0..MaxUpdates /\ faults \in 0..MaxFaults

IInv ==
    /\ BrokerOK
    /\ FsmOK(fsm)
    /\ \A p \in prompts : PromptOK(p)
    /\ upd \in [Slots -> Update] /\ \A s \in Slots : UpdateOK(upd[s])
    /\ SlotOK
    /\ BoundsOK
    /\ \A x \in acts : ActOK(x)

-----------------------------------------------------------------------------
(* Values.                                                                 *)

\* The conversation states of the flows that ask for a value.
LEMMA Flows ==
    /\ FlowStates = {"magicmap", "symbols", "leverage", "maxorders", "chats"}
    /\ \A f \in ValueFlows : f.state \in FlowStates
    /\ \A x \in FlowStates : FlowOf(x) \in ValueFlows /\ FlowOf(x).state = x
<1>1. \A f \in ValueFlows : f.state \in FlowStates
  BY DEF FlowStates
<1>2. /\ MagicMapFlow.state = "magicmap" /\ CryptoSymbolsFlow.state = "symbols"
      /\ CryptoLeverageFlow.state = "leverage" /\ AdminMaxOrdersFlow.state = "maxorders"
      /\ PublicChatsFlow.state = "chats"
  BY DEF MagicMapFlow, CryptoSymbolsFlow, CryptoLeverageFlow, AdminMaxOrdersFlow, PublicChatsFlow
<1>3. FlowStates = {"magicmap", "symbols", "leverage", "maxorders", "chats"}
  BY <1>2 DEF FlowStates, ValueFlows
<1>4. \A x \in FlowStates : \E f \in ValueFlows : f.state = x
  BY DEF FlowStates
<1>5. \A x \in FlowStates : FlowOf(x) \in ValueFlows /\ FlowOf(x).state = x
  BY <1>4 DEF FlowOf
<1> QED
  BY <1>1, <1>3, <1>5

\* The records everything starts from.
LEMMA Blanks ==
    /\ FsmOK(NoFsm) /\ NoFsm.target = {}
    /\ NoPrompt \in Prompted /\ NoPrompt.kind = None
    /\ Idle \in Update /\ Idle.what = None /\ Idle.at = "idle" /\ Idle.account = None
    /\ Idle.tap = NoPrompt
<1>1. FsmOK(NoFsm) /\ NoFsm.target = {}
  BY DEF FsmOK, NoFsm, Fsm, Account, None
<1>2. NoPrompt \in Prompted /\ NoPrompt.kind = None
  BY DEF NoPrompt, Prompt, Prompted
<1>3. /\ Idle \in Update /\ Idle.what = None /\ Idle.at = "idle" /\ Idle.account = None
      /\ Idle.tap = NoPrompt
  BY <1>2 DEF Idle, Update, Kinds, Args, Account
<1> QED
  BY <1>1, <1>2, <1>3

\* An idle slot knows nothing.
LEMMA IdleOK == UpdateOK(Idle)
BY Blanks DEF UpdateOK, None

\* A prompt is what it was made of.
LEMMA PromptParts ==
    ASSUME NEW k, NEW n, NEW l
    PROVE  Prompt(k, n, l).kind = k /\ Prompt(k, n, l).names = n /\ Prompt(k, n, l).leg = l
BY DEF Prompt

\* Prompts that need no leg.
LEMMA PlainPrompt ==
    ASSUME NEW k \in {"control", "unlink", "rotate", "aflat", "switch", "alink", "pick", "new"},
           NEW n \in SUBSET (Accounts \cup {All} \cup LegNames),
           k \in {"rotate", "switch", "alink", "pick"} => n \subseteq Accounts
    PROVE  PromptOK(Prompt(k, n, 0))
<1>1. Prompt(k, n, 0) \in Prompted
  BY DEF Prompt, Prompted
<1> QED
  BY <1>1, PromptParts DEF PromptOK, None

-----------------------------------------------------------------------------
(* Frames.                                                                 *)

\* Whatever a step does to the user's accounts, `moves` tells of a change of
\* the active one.
BrokerStep ==
    /\ BrokerOK'
    /\ moves' >= moves /\ (moves' = moves => active' = active)
    /\ accountId' = accountId
    /\ held' => held

LEMMA KeepBroker ==
    ASSUME BrokerOK, UNCHANGED brokerVars
    PROVE  BrokerStep
BY DEF BrokerOK, BrokerStep, brokerVars

LEMMA SetLinksStep ==
    ASSUME BrokerOK, NEW L \in SUBSET Accounts, SetLinks(L)
    PROVE  BrokerStep
<1>1. PICK a \in ActiveOf(L) : active' = a /\ moves' = IF a = active THEN moves ELSE moves + 1
  BY DEF SetLinks
<1>2. links' = L /\ held' = (held /\ L # {}) /\ accountId' = accountId
  BY DEF SetLinks
<1>3. a \in Account /\ (a = None <=> L = {}) /\ (a # None => a \in L)
  BY <1>1, PromptsAssumption DEF ActiveOf, Account, BrokerOK
<1>4. moves \in Nat /\ held \in BOOLEAN /\ accountId \in [Accounts -> Ids]
  BY DEF BrokerOK
<1>5. moves' \in Nat /\ moves' >= moves /\ (moves' = moves => active' = active)
  BY <1>1, <1>4
<1>6. held' \in BOOLEAN /\ (held' => L # {} /\ held)
  BY <1>2, <1>4
<1> QED
  BY <1>1, <1>2, <1>3, <1>4, <1>5, <1>6 DEF BrokerStep, BrokerOK

\* What was known of the active account stays known.
LEMMA WasStays ==
    ASSUME BrokerOK, BrokerStep, NEW a, NEW n \in Nat, Was(a, n)
    PROVE  Was(a, n)'
BY DEF BrokerOK, BrokerStep, Was

LEMMA PromptStays ==
    ASSUME BrokerOK, BrokerStep, NEW p, PromptOK(p)
    PROVE  PromptOK(p)'
BY DEF PromptOK

LEMMA UpdateStays ==
    ASSUME BrokerOK, BrokerStep, NEW u, UpdateOK(u)
    PROVE  UpdateOK(u)'
<1>1. u \in Update /\ u.since \in Nat
  BY DEF UpdateOK, Update
<1>2. u.tap.kind # None => PromptOK(u.tap)'
  BY PromptStays DEF UpdateOK
<1>3. u.account # None => Was(u.account, u.since)'
  BY <1>1, WasStays DEF UpdateOK
<1>4. (held' => held) /\ accountId' = accountId
  BY DEF BrokerStep
<1> QED
  BY <1>1, <1>2, <1>3, <1>4 DEF UpdateOK

\* Slot s alone moves.
Moves(s) == upd' = [upd EXCEPT ![s] = upd'[s]]

\* How a step of slot s may treat the target: leave it or drop it, put one in,
\* take it out to send it, or send it.
SlotStep(s) ==
    \/ /\ flats' = flats /\ arms' = arms /\ fsm'.target \in {fsm.target, {}}
       /\ upd'[s].at # "send"
    \/ flats' = flats /\ arms' = arms + 1 /\ upd'[s].at # "send"
    \/ flats' = flats /\ arms' = arms /\ fsm.target # {} /\ fsm'.target = {}
    \/ /\ flats' = flats + 1 /\ arms' = arms /\ fsm' = fsm
       /\ upd[s].at = "send" /\ upd'[s].at # "send"

LEMMA SlotCount ==
    ASSUME IInv, NEW s \in Slots, Moves(s), SlotStep(s)
    PROVE  SlotOK'
<1>1. \A t \in Slots : t # s => upd'[t] = upd[t]
  BY DEF Moves, IInv
<1>2. IsFiniteSet(Slots) /\ IsFiniteSet(Sending) /\ IsFiniteSet(Sending')
  BY PromptsAssumption, FS_Subset DEF Sending
<1> DEFINE n == Cardinality(Sending)
           m == Cardinality(Sending')
<1>3. n \in Nat /\ m \in Nat
  BY <1>2, FS_CardinalityType
<1>4. ASSUME upd'[s].at # "send" PROVE m <= n /\ (upd[s].at = "send" => m + 1 <= n)
  <2>1. Sending' = Sending \ {s}
    BY <1>1, <1>4 DEF Sending
  <2>2. CASE s \in Sending
    <3>1. Cardinality(Sending \ {s}) = n - 1
      BY <1>2, <2>2, FS_RemoveElement
    <3> QED
      BY <2>1, <3>1, <1>3
  <2>3. CASE s \notin Sending
    <3>1. Sending' = Sending
      BY <2>1, <2>3
    <3>2. upd[s].at # "send"
      BY <2>3 DEF Sending
    <3> QED
      BY <3>1, <3>2, <1>3
  <2> QED
    BY <2>2, <2>3
<1>5. m <= n + 1
  <2>1. Sending' \subseteq Sending \cup {s} /\ IsFiniteSet(Sending \cup {s})
    BY <1>1, <1>2, FS_AddElement DEF Sending
  <2>2. m <= Cardinality(Sending \cup {s})
    BY <2>1, FS_Subset
  <2>3. Cardinality(Sending \cup {s}) = n \/ Cardinality(Sending \cup {s}) = n + 1
    BY <1>2, FS_AddElement
  <2> QED
    BY <2>2, <2>3, <1>3
<1>6. flats \in Nat /\ arms \in Nat /\ flats + n + Loaded(fsm) <= arms
  BY DEF IInv, SlotOK
<1> HIDE DEF n, m
<1>7. /\ Loaded(fsm) \in {0, 1} /\ Loaded(fsm') \in {0, 1}
      /\ fsm.target # {} => Loaded(fsm) = 1
      /\ fsm'.target = {} => Loaded(fsm') = 0
      /\ fsm'.target = fsm.target => Loaded(fsm') = Loaded(fsm)
  BY DEF Loaded
<1>8. flats' \in Nat /\ arms' \in Nat /\ flats' + m + Loaded(fsm') <= arms'
  <2>1. CASE /\ flats' = flats /\ arms' = arms /\ fsm'.target \in {fsm.target, {}}
             /\ upd'[s].at # "send"
    BY <2>1, <1>3, <1>4, <1>6, <1>7
  <2>2. CASE flats' = flats /\ arms' = arms + 1 /\ upd'[s].at # "send"
    BY <2>2, <1>3, <1>4, <1>6, <1>7
  <2>3. CASE flats' = flats /\ arms' = arms /\ fsm.target # {} /\ fsm'.target = {}
    BY <2>3, <1>3, <1>5, <1>6, <1>7
  <2>4. CASE /\ flats' = flats + 1 /\ arms' = arms /\ fsm' = fsm
             /\ upd[s].at = "send" /\ upd'[s].at # "send"
    BY <2>4, <1>3, <1>4, <1>6, <1>7
  <2> QED
    BY <2>1, <2>2, <2>3, <2>4 DEF SlotStep
<1> QED
  BY <1>8 DEF SlotOK, m

\* A step of slot s keeps IInv if the parts it touches are sound.
LEMMA StepFrame ==
    ASSUME IInv, NEW s \in Slots, Moves(s), BrokerStep, FsmOK(fsm'), UpdateOK(upd'[s]),
           \A p \in prompts' : p \in prompts \/ PromptOK(p), SlotStep(s), BoundsOK',
           \A x \in acts' : x \in acts \/ ActOK(x)
    PROVE  IInv'
<1>1. BrokerOK
  BY DEF IInv
<1>2. \A p \in prompts' : PromptOK(p)'
  BY <1>1, PromptStays DEF IInv
<1>3. \A t \in Slots : UpdateOK(upd[t])'
  <2> TAKE t \in Slots
  <2>1. PICK u : u = upd'[t]
    OBVIOUS
  <2>2. UpdateOK(u)
    BY <2>1 DEF IInv, Moves
  <2>3. UpdateOK(u)'
    BY <1>1, <2>2, UpdateStays
  <2> QED
    BY <2>1, <2>3 DEF UpdateOK
<1>4. upd' \in [Slots -> Update]
  BY DEF IInv, Moves, UpdateOK
<1>5. \A x \in acts' : ActOK(x)
  BY DEF IInv
<1> QED
  BY <1>2, <1>3, <1>4, <1>5, SlotCount DEF IInv, BrokerStep

\* The bound on faults.
LEMMA Charged ==
    ASSUME IInv, NEW b \in BOOLEAN, Charge(b)
    PROVE  faults' \in 0..MaxFaults
<1>1. faults \in 0..MaxFaults /\ MaxFaults \in Nat
  BY PromptsAssumption DEF IInv, BoundsOK
<1>2. faults' = faults \/ (faults < MaxFaults /\ faults' = faults + 1)
  BY DEF Charge
<1> QED
  BY <1>1, <1>2

\* The slot is free again.
LEMMA DoneMoves ==
    ASSUME IInv, NEW s \in Slots, Done(s)
    PROVE  Moves(s) /\ upd'[s] = Idle /\ UpdateOK(upd'[s]) /\ upd'[s].at = "idle"
<1>1. Moves(s) /\ upd'[s] = Idle
  BY DEF IInv, Moves, Done
<1> QED
  BY <1>1, IdleOK, Blanks

\* A step that ends its update and leaves accounts, menu and history alone.
LEMMA DoneFrame ==
    ASSUME IInv, NEW s \in Slots, Done(s), UNCHANGED <<brokerVars, menuVars, updates, histVars>>,
           faults' \in 0..MaxFaults, FsmOK(fsm'), fsm'.target \in {fsm.target, {}},
           \A p \in prompts' : p \in prompts \/ PromptOK(p)
    PROVE  IInv'
<1>1. BrokerStep
  BY KeepBroker DEF IInv
<1>2. BoundsOK'
  BY DEF IInv, BoundsOK, menuVars
<1>3. SlotStep(s)
  BY DoneMoves DEF SlotStep, histVars
<1>4. \A x \in acts' : x \in acts
  BY DEF histVars
<1> QED
  BY <1>1, <1>2, <1>3, <1>4, DoneMoves, StepFrame

\* A step that only moves the update on.
LEMMA MoveFrame ==
    ASSUME IInv, NEW s \in Slots, Moves(s), UpdateOK(upd'[s]), upd'[s].at # "send",
           UNCHANGED <<brokerVars, prompts, updates, histVars>>,
           applied' \in {None, "start", "full"}, shown' \in {"start", "full"},
           faults' \in 0..MaxFaults, FsmOK(fsm'), fsm'.target \in {fsm.target, {}}
    PROVE  IInv'
<1>1. BrokerStep
  BY KeepBroker DEF IInv
<1>2. BoundsOK'
  BY DEF IInv, BoundsOK
<1>3. SlotStep(s)
  BY DEF SlotStep, histVars
<1>4. \A x \in acts' : x \in acts
  BY DEF histVars
<1> QED
  BY <1>1, <1>2, <1>3, <1>4, StepFrame

\* Going on to a step that asks nothing of the update.
LEMMA GotoOK ==
    ASSUME NEW u, UpdateOK(u), NEW w,
           NEW at \in {"resolve", "menuack", "menufail", "handle", "route", "send", "end"},
           w = [u EXCEPT !.at = at]
    PROVE  UpdateOK(w) /\ w.at = at
<1>1. u \in Update
  BY DEF UpdateOK
<1>2. /\ w \in Update /\ w.at = at /\ w.what = u.what /\ w.tap = u.tap /\ w.arg = u.arg
      /\ w.account = u.account /\ w.since = u.since /\ w.linked = u.linked /\ w.denied = u.denied
  BY <1>1 DEF Update
<1> QED
  BY <1>2 DEF UpdateOK

\* The parts of the state that the actions look at.
LEMMA Parts ==
    ASSUME IInv, NEW s \in Slots
    PROVE  /\ UpdateOK(upd[s]) /\ upd[s] \in Update /\ upd \in [Slots -> Update]
           /\ upd[s].account \in Account /\ upd[s].since \in Nat /\ upd[s].arg \in Args
           /\ upd[s].tap.kind # None => PromptOK(upd[s].tap)
           /\ upd[s].tap \in Prompted
           /\ upd[s].next \in {"end", "route", "handle"} /\ upd[s].linked \in BOOLEAN
           /\ upd[s].denied \in BOOLEAN /\ FsmOK(fsm) /\ fsm \in Fsm /\ BrokerOK /\ faults \in 0..MaxFaults
           /\ applied \in {None, "start", "full"} /\ shown \in {"start", "full"}
<1>1. /\ UpdateOK(upd[s]) /\ upd[s] \in Update /\ upd \in [Slots -> Update]
      /\ upd[s].tap.kind # None => PromptOK(upd[s].tap)
  BY DEF IInv, UpdateOK
<1>2. /\ upd[s].account \in Account /\ upd[s].since \in Nat /\ upd[s].arg \in Args
      /\ upd[s].tap \in Prompted /\ upd[s].next \in {"end", "route", "handle"}
      /\ upd[s].linked \in BOOLEAN /\ upd[s].denied \in BOOLEAN
  BY <1>1 DEF Update
<1>3. FsmOK(fsm) /\ fsm \in Fsm /\ BrokerOK /\ BoundsOK
  BY DEF IInv, FsmOK
<1> QED
  BY <1>1, <1>2, <1>3 DEF BoundsOK

\* A change of state keeps the data of the other flows.
LEMMA StateOK ==
    ASSUME NEW f, FsmOK(f), NEW x \in {"link"} \cup FlowStates
    PROVE  /\ FsmOK([f EXCEPT !.state = x]) /\ [f EXCEPT !.state = x].target = f.target
<1> DEFINE g == [f EXCEPT !.state = x]
<1>1. f \in Fsm
  BY DEF FsmOK
<1>2. /\ g \in Fsm /\ g.state = x /\ g.target = f.target
  BY <1>1 DEF Fsm
<1>3. x # "cap" /\ x # "alink" /\ x # "new"
  BY Flows
<1> HIDE DEF g
<1>4. FsmOK(g)
  BY <1>2, <1>3 DEF FsmOK
<1> QED
  BY <1>2, <1>4 DEF g

-----------------------------------------------------------------------------
(* Handlers that end in one step and leave the accounts alone.             *)

\* Handlers after which conversation and chat are as they were.
LEMMA QuietHandlers ==
    ASSUME IInv, NEW s \in Slots, NEW o \in Outcomes, End(s) \/ Subscribe(s, o) \/ SetSetting(s, o)
    PROVE  IInv'
<1>1. /\ Done(s) /\ UNCHANGED <<brokerVars, fsm, prompts, menuVars, updates, histVars>>
      /\ faults' = faults \/ Charge(~o.says)
  BY DEF End, Subscribe, SetSetting
<1>2. faults' \in 0..MaxFaults
  BY <1>1, Charged, Parts
<1>3. FsmOK(fsm') /\ fsm'.target = fsm.target
  BY <1>1, Parts
<1> QED
  BY <1>1, <1>2, <1>3, DoneFrame

\* A prompt for the account the middleware resolved.
LEMMA CmdConfirmInv ==
    ASSUME IInv, NEW s \in Slots, NEW what, CmdConfirm(s, what)
    PROVE  IInv'
<1> DEFINE q == Prompt(what, {upd[s].account}, 0)
<1>1. /\ what \in {"control", "unlink"} /\ upd[s].account # None
      /\ prompts' = prompts \cup {q} /\ Done(s)
      /\ UNCHANGED <<brokerVars, fsm, menuVars, updates, faults, histVars>>
  BY DEF CmdConfirm, Handling, Protected
<1>2. PromptOK(q)
  <2>1. upd[s].account \in Accounts
    BY <1>1, Parts DEF Account
  <2> QED
    BY <1>1, <2>1, PlainPrompt
<1> HIDE DEF q
<1>3. FsmOK(fsm') /\ fsm'.target = fsm.target /\ faults' \in 0..MaxFaults
  BY <1>1, Parts
<1>4. \A p \in prompts' : p \in prompts \/ PromptOK(p)
  BY <1>1, <1>2
<1> QED
  BY <1>1, <1>3, <1>4, DoneFrame

\* Handlers that close the conversation, open another or leave it, and may
\* take a prompt away or add one that names nobody active.
LEMMA FlowFrame ==
    ASSUME IInv, NEW s \in Slots, NEW b \in BOOLEAN, Done(s),
           UNCHANGED <<brokerVars, menuVars, updates, histVars>>, faults' = faults \/ Charge(b),
           \/ fsm' \in {fsm, NoFsm}
           \/ \E x \in {"link"} \cup FlowStates : fsm' = [fsm EXCEPT !.state = x]
           \/ FsmOK(fsm') /\ fsm'.target = fsm.target,
           \A p \in prompts' : p \in prompts \/ PromptOK(p)
    PROVE  IInv'
<1>1. faults' \in 0..MaxFaults
  BY Charged, Parts
<1>2. FsmOK(fsm') /\ fsm'.target \in {fsm.target, {}}
  <2>1. FsmOK(fsm)
    BY Parts
  <2>2. CASE fsm' \in {fsm, NoFsm}
    BY <2>1, <2>2, Blanks
  <2>3. ASSUME NEW x \in {"link"} \cup FlowStates, fsm' = [fsm EXCEPT !.state = x]
        PROVE  FsmOK(fsm') /\ fsm'.target = fsm.target
    BY <2>1, <2>3, StateOK
  <2> QED
    BY <2>2, <2>3
<1> QED
  BY <1>1, <1>2, DoneFrame

\* /switch lists the accounts.
LEMMA CmdSwitchInv ==
    ASSUME IInv, NEW s \in Slots, NEW ok \in BOOLEAN, CmdSwitch(s, ok)
    PROVE  IInv'
<1>1. links \in SUBSET Accounts
  BY DEF IInv, BrokerOK
<1>2. PromptOK(Prompt("switch", links, 0))
  BY <1>1, PlainPrompt
<1>3. /\ Done(s) /\ Charge(~ok) /\ UNCHANGED <<brokerVars, menuVars, updates, histVars>> /\ fsm' = fsm
      /\ \A p \in prompts' : p \in prompts \/ p = Prompt("switch", links, 0)
  BY DEF CmdSwitch
<1> QED
  BY <1>2, <1>3, FlowFrame

\* /cancel, /start and the flows that ask for a value.
LEMMA FlowHandlers ==
    ASSUME IInv, NEW s \in Slots, NEW ok \in BOOLEAN, NEW o \in Outcomes,
           \/ Cancel(s) \/ CmdStart(s, ok) \/ PromptValue(s, ok) \/ ReceiveValue(s, o)
           \/ ReceiveLinkId(s, o) \/ ReceiveNewId(s, o)
    PROVE  IInv'
<1> USE FlowFrame
<1>1. (~o.says) \in BOOLEAN
  OBVIOUS
<1>2. CASE Cancel(s)
  BY <1>2 DEF Cancel
<1>3. CASE CmdStart(s, ok)
  BY <1>3 DEF CmdStart
<1>4. CASE PromptValue(s, ok)
  <2>1. upd[s].what = "ask"
    BY <1>4 DEF PromptValue, At
  <2>2. FlowOf(upd[s].arg).state \in FlowStates
    BY <2>1, Flows, Parts DEF UpdateOK
  <2> QED
    BY <1>4, <2>2 DEF PromptValue
<1>5. CASE ReceiveValue(s, o)
  BY <1>1, <1>5 DEF ReceiveValue
<1>6. CASE ReceiveLinkId(s, o)
  BY <1>1, <1>6 DEF ReceiveLinkId
<1>7. CASE ReceiveNewId(s, o)
  BY <1>1, <1>7 DEF ReceiveNewId
<1> QED
  BY <1>2, <1>3, <1>4, <1>5, <1>6, <1>7

\* The prompts of the admin, and /maxorders once the cap was fetched.
LEMMA AdminPrompts ==
    ASSUME IInv, NEW s \in Slots, NEW ok \in BOOLEAN,
           \/ CmdRotate(s) \/ CmdLinkAccount(s, ok) \/ CmdNewAccount(s)
    PROVE  IInv'
<1>1. CASE CmdRotate(s)
  <2>1. upd[s].arg \in Accounts
    BY <1>1, Parts DEF CmdRotate, At, UpdateOK
  <2>2. PromptOK(Prompt("rotate", {upd[s].arg}, 0))
    BY <2>1, PlainPrompt
  <2> QED
    BY <1>1, <2>2, FlowFrame DEF CmdRotate
<1>2. CASE CmdLinkAccount(s, ok)
  <2>1. PromptOK(Prompt("alink", Accounts, 0))
    BY PlainPrompt
  <2> QED
    BY <1>2, <2>1, FlowFrame DEF CmdLinkAccount
<1>3. CASE CmdNewAccount(s)
  <2>1. PromptOK(Prompt("new", {}, 0))
    BY PlainPrompt
  <2> QED
    BY <1>3, <2>1, FlowFrame DEF CmdNewAccount
<1> QED
  BY <1>1, <1>2, <1>3

\* Handlers that put data of their flow into the conversation.
LEMMA FlowData ==
    ASSUME IInv, NEW s \in Slots, NEW ok \in BOOLEAN,
           \/ PromptMaxOrders(s, ok) \/ CbLinkAccount(s) \/ CbNewAccount(s, ok)
    PROVE  IInv'
<1>0. fsm \in Fsm /\ FsmOK(fsm)
  BY Parts
<1>1. CASE PromptMaxOrders(s, ok)
  <2> DEFINE f == [fsm EXCEPT !.state = "cap", !.cap = accountId[upd[s].account]]
  <2>0. upd[s].account \in Accounts
    BY <1>1, Parts DEF PromptMaxOrders, At, UpdateOK, Account
  <2>1. accountId[upd[s].account] \in Ids /\ accountId[upd[s].account] # None
    BY <2>0, Parts, PromptsAssumption DEF BrokerOK
  <2>2. f \in Fsm /\ f.state = "cap" /\ f.cap = accountId[upd[s].account] /\ f.target = fsm.target
    BY <1>0, <2>1 DEF Fsm
  <2> HIDE DEF f
  <2>3. FsmOK(f)
    BY <1>0, <2>1, <2>2 DEF FsmOK
  <2>4. fsm' \in {fsm, f}
    BY <1>1 DEF PromptMaxOrders, f
  <2> QED
    BY <1>1, <2>2, <2>3, <2>4, FlowFrame DEF PromptMaxOrders
<1>2. CASE CbLinkAccount(s)
  <2> DEFINE f == [fsm EXCEPT !.state = "alink", !.uuid = upd[s].arg]
  <2>1. upd[s].arg \in Accounts /\ upd[s].arg \in Account /\ upd[s].arg # None
    BY <1>2, Parts, PromptsAssumption DEF CbLinkAccount, At, UpdateOK, Account
  <2>2. f \in Fsm /\ f.state = "alink" /\ f.uuid = upd[s].arg /\ f.target = fsm.target
    BY <1>0, <2>1 DEF Fsm
  <2> HIDE DEF f
  <2>3. FsmOK(f)
    BY <1>0, <2>1, <2>2 DEF FsmOK
  <2>4. fsm' = f
    BY <1>2 DEF CbLinkAccount, f
  <2> QED
    BY <1>2, <2>2, <2>3, <2>4, FlowFrame DEF CbLinkAccount
<1>3. CASE CbNewAccount(s, ok)
  <2> DEFINE f == [fsm EXCEPT !.state = "new", !.pair = TRUE]
  <2>2. f \in Fsm /\ f.state = "new" /\ f.pair = TRUE /\ f.target = fsm.target
    BY <1>0 DEF Fsm
  <2> HIDE DEF f
  <2>3. FsmOK(f)
    BY <1>0, <2>2 DEF FsmOK
  <2>4. fsm' = f
    BY <1>3 DEF CbNewAccount, f
  <2> QED
    BY <1>3, <2>2, <2>3, <2>4, FlowFrame DEF CbNewAccount
<1> QED
  BY <1>1, <1>2, <1>3

\* The buttons of the next leg, or those of the FLAT itself.
LEMMA NextPickerOK ==
    ASSUME NEW l \in 0..Len(Legs), NEW x \in SUBSET LegNames
    PROVE  PromptOK(NextPicker(l, x))
<1>0. Len(Legs) \in Nat
  BY PromptsAssumption
<1>1. CASE l < Len(Legs)
  <2> DEFINE q == Prompt("leg", {}, l + 1)
  <2>1. q \in Prompted /\ q.kind = "leg" /\ q.leg = l + 1 /\ l + 1 \in 1..Len(Legs)
    BY <1>0, <1>1 DEF Prompt, Prompted
  <2> HIDE DEF q
  <2>2. PromptOK(q)
    BY <2>1 DEF PromptOK, None
  <2> QED
    BY <1>1, <2>2 DEF NextPicker, q
<1>2. CASE ~(l < Len(Legs))
  <2>1. PromptOK(Prompt("aflat", {All} \cup x, 0))
    BY PlainPrompt
  <2> QED
    BY <1>2, <2>1 DEF NextPicker
<1> QED
  BY <1>1, <1>2

\* One leg narrowed or left at "All".
LEMMA PickLegInv ==
    ASSUME IInv, NEW s \in Slots, PickLeg(s)
    PROVE  IInv'
<1> DEFINE leg == upd[s].tap.leg
           narrow == upd[s].arg = "narrow"
           scope == IF narrow THEN fsm.scope \cup {Legs[leg]} ELSE fsm.scope \ {Legs[leg]}
           f == [fsm EXCEPT !.scope = scope]
<1>1. /\ At(s, "tap_leg", "handle") /\ Done(s)
      /\ UNCHANGED <<brokerVars, menuVars, updates, faults, histVars>>
      /\ \/ UNCHANGED <<fsm, prompts>>
         \/ /\ fsm' = f
            /\ prompts' = (prompts \ {upd[s].tap}) \cup {NextPicker(leg, scope)}
  BY DEF PickLeg
<1>2. leg \in 1..Len(Legs) /\ leg \in 0..Len(Legs)
  <2>1. leg \in 1..Len(Legs)
    BY <1>1, Parts DEF At, UpdateOK, PromptOK, None
  <2> QED
    BY <2>1, PromptsAssumption
<1>3. fsm \in Fsm /\ FsmOK(fsm) /\ fsm.scope \in SUBSET LegNames
  BY Parts DEF Fsm
<1>4. scope \in SUBSET LegNames
  BY <1>2, <1>3 DEF LegNames
<1> HIDE DEF leg, narrow, scope
<1>5. /\ f \in Fsm /\ f.target = fsm.target /\ f.state = fsm.state /\ f.cap = fsm.cap /\ f.uuid = fsm.uuid
      /\ f.pair = fsm.pair
  BY <1>3, <1>4 DEF Fsm
<1> HIDE DEF f
<1>6. FsmOK(f)
  BY <1>3, <1>5 DEF FsmOK
<1>7. PromptOK(NextPicker(leg, scope))
  BY <1>2, <1>4, NextPickerOK
<1>8. \A p \in prompts' : p \in prompts \/ PromptOK(p)
  BY <1>1, <1>7
<1>9. fsm' = fsm \/ (FsmOK(fsm') /\ fsm'.target = fsm.target)
  BY <1>1, <1>5, <1>6
<1> QED
  BY <1>1, <1>8, <1>9, FlowFrame

-----------------------------------------------------------------------------
(* Steps that move an update on.                                           *)

LEMMA GotoMoves ==
    ASSUME IInv, NEW s \in Slots, NEW at, Goto(s, at)
    PROVE  Moves(s) /\ upd'[s] = [upd[s] EXCEPT !.at = at]
BY Parts DEF Goto, Moves

\* CommandMenu.sync is only started with a menu the user is due.
LEMMA SyncMoves ==
    ASSUME IInv, NEW s \in Slots, NEW u, UpdateOK(u), NEW linked \in BOOLEAN, held => linked \/ u.denied,
           NEW then \in {"end", "route", "handle"}, SyncOrSkip(s, u, linked, then)
    PROVE  Moves(s) /\ UpdateOK(upd'[s]) /\ upd'[s].at # "send"
<1> DEFINE v == [u EXCEPT !.at = then]
           w == [u EXCEPT !.at = "setmenu", !.linked = linked, !.next = then]
<1>1. upd' = [upd EXCEPT ![s] = IF applied = MenuFor(linked) THEN v ELSE w]
  BY DEF SyncOrSkip
<1>2. UpdateOK(v) /\ v.at = then
  BY GotoOK
<1>3. u \in Update
  BY DEF UpdateOK
<1>4. /\ w \in Update /\ w.at = "setmenu" /\ w.what = u.what /\ w.tap = u.tap /\ w.arg = u.arg
      /\ w.account = u.account /\ w.since = u.since /\ w.linked = linked /\ w.denied = u.denied
  BY <1>3 DEF Update
<1> HIDE DEF v, w
<1>5. UpdateOK(w)
  BY <1>4 DEF UpdateOK
<1>6. Moves(s) /\ upd'[s] \in {v, w}
  BY <1>1, Parts DEF Moves
<1> QED
  BY <1>2, <1>4, <1>5, <1>6

\* The user's account as the broker has it now.
LEMMA AccountOK ==
    ASSUME IInv, NEW u, UpdateOK(u), u.at \in {"resolve", "handle"}, NEW w, w \in Update, w.at = u.at,
           w.what = u.what, w.tap = u.tap, w.arg = u.arg, w.account \in {active, None}, w.since = moves
    PROVE  UpdateOK(w)
<1>1. w.account # None => Was(w.account, w.since)
  BY DEF Was, IInv, BrokerOK
<1> QED
  BY <1>1 DEF UpdateOK

\* The lookup every update starts with.
LEMMA ResolveInv ==
    ASSUME IInv, NEW s \in Slots, NEW o \in Lookups, Resolve(s, o)
    PROVE  IInv'
<1> DEFINE r == Resolved(o)
           d == o = "denied"
           u == [upd[s] EXCEPT !.account = r.account, !.since = moves, !.denied = d]
<1>1. /\ upd[s].at = "resolve" /\ Charge(o # "ok")
      /\ IF r.answered THEN SyncOrSkip(s, u, r.account # None, u.next)
         ELSE upd' = [upd EXCEPT ![s] = [u EXCEPT !.at = u.next]]
      /\ UNCHANGED <<brokerVars, fsm, prompts, menuVars, updates, histVars>>
  BY DEF Resolve
<1>2. /\ r.account \in {active, None} /\ (r.answered <=> o # "unreachable")
      /\ (o = "ok" => r.account = active) /\ d \in BOOLEAN
      /\ o \in {"ok", "unreachable", "denied"} /\ (d <=> o = "denied")
  BY DEF Resolved, Lookups
<1> HIDE DEF r, d
<1>3. UpdateOK(u) /\ (u.denied <=> d)
  <2>1. UpdateOK(upd[s]) /\ upd[s].at \in {"resolve", "handle"} /\ upd[s] \in Update
    BY <1>1, Parts
  <2>2. r.account \in Account /\ moves \in Nat
    BY <1>2, Parts DEF BrokerOK, Account
  <2>3. /\ u \in Update /\ u.at = upd[s].at /\ u.what = upd[s].what /\ u.tap = upd[s].tap /\ u.arg = upd[s].arg
        /\ u.account = r.account /\ u.since = moves /\ (u.denied <=> d)
    BY <1>2, <2>1, <2>2 DEF Update
  <2> HIDE DEF u
  <2> QED
    BY <1>2, <2>1, <2>3, AccountOK
<1>4. u.next \in {"end", "route", "handle"}
  BY <1>3 DEF UpdateOK, Update
<1> HIDE DEF u
<1>5. Moves(s) /\ UpdateOK(upd'[s]) /\ upd'[s].at # "send"
  <2>1. CASE o # "unreachable"
    <3> DEFINE b == r.account # None
    <3>1. o = "ok" => (held => b)
      BY <1>2 DEF IInv, BrokerOK
    <3>2. o # "ok" => u.denied
      BY <1>2, <1>3, <2>1
    <3>3. b \in BOOLEAN /\ SyncOrSkip(s, u, b, u.next)
      BY <1>1, <1>2, <2>1
    <3> HIDE DEF b
    <3> QED
      BY <1>3, <1>4, <3>1, <3>2, <3>3, SyncMoves
  <2>2. CASE o = "unreachable"
    <3>1. upd' = [upd EXCEPT ![s] = [u EXCEPT !.at = u.next]]
      BY <1>1, <1>2, <2>2
    <3>2. Moves(s) /\ upd'[s] = [u EXCEPT !.at = u.next]
      BY <3>1, Parts DEF Moves
    <3> QED
      BY <3>2, <1>3, <1>4, GotoOK
  <2> QED
    BY <2>1, <2>2
<1>6. faults' \in 0..MaxFaults
  <2>1. (o # "ok") \in BOOLEAN
    OBVIOUS
  <2> QED
    BY <1>1, <2>1, Charged
<1>7. /\ FsmOK(fsm') /\ fsm'.target = fsm.target /\ applied' \in {None, "start", "full"}
      /\ shown' \in {"start", "full"}
  BY <1>1, Parts DEF menuVars
<1> QED
  BY <1>1, <1>5, <1>6, <1>7, MoveFrame

\* set_my_commands and its answer.
LEMMA MenuInv ==
    ASSUME IInv, NEW s \in Slots, NEW ok \in BOOLEAN, SetMenu(s, ok) \/ MenuAnswer(s, ok)
    PROVE  IInv'
<1>1. /\ UNCHANGED <<brokerVars, fsm, prompts, updates, histVars>>
      /\ \E at \in {"menuack", "menufail", upd[s].next} : Goto(s, at)
      /\ Charge(~ok) \/ faults' = faults
  BY DEF SetMenu, MenuAnswer
<1>2. Moves(s) /\ UpdateOK(upd'[s]) /\ upd'[s].at # "send"
  <2>1. PICK at \in {"menuack", "menufail", "end", "route", "handle"} : Goto(s, at)
    BY <1>1, Parts
  <2>2. Moves(s) /\ upd'[s] = [upd[s] EXCEPT !.at = at]
    BY <2>1, GotoMoves
  <2>3. UpdateOK(upd[s])
    BY Parts
  <2> QED
    BY <2>2, <2>3, GotoOK
<1>3. applied' \in {None, "start", "full"} /\ shown' \in {"start", "full"}
  BY Parts DEF SetMenu, MenuAnswer, AppliedAfter, MenuFor
<1>4. faults' \in 0..MaxFaults
  BY <1>1, Charged, Parts
<1>5. FsmOK(fsm') /\ fsm'.target = fsm.target
  BY <1>1, Parts
<1> QED
  BY <1>1, <1>2, <1>3, <1>4, <1>5, MoveFrame

\* A protected router asks again.
LEMMA AuthInv ==
    ASSUME IInv, NEW s \in Slots, NEW ok \in BOOLEAN, Auth(s, ok)
    PROVE  IInv'
<1> DEFINE w == [upd[s] EXCEPT !.account = active, !.since = moves]
<1>1. /\ upd[s].at = "handle" /\ Charge(~ok)
      /\ upd' = [upd EXCEPT ![s].account = active, ![s].since = moves] \/ Done(s)
      /\ UNCHANGED <<brokerVars, fsm, prompts, menuVars, updates, histVars>>
  BY DEF Auth
<1>2. UpdateOK(w) /\ w.at = "handle"
  <2>1. UpdateOK(upd[s]) /\ upd[s].at \in {"resolve", "handle"} /\ upd[s] \in Update
    BY <1>1, Parts
  <2>2. active \in Account /\ moves \in Nat
    BY Parts DEF BrokerOK
  <2>3. /\ w \in Update /\ w.at = upd[s].at /\ w.what = upd[s].what /\ w.tap = upd[s].tap /\ w.arg = upd[s].arg
        /\ w.account = active /\ w.since = moves
    BY <2>1, <2>2 DEF Update
  <2> HIDE DEF w
  <2> QED
    BY <1>1, <2>1, <2>3, AccountOK
<1>3. Moves(s) /\ UpdateOK(upd'[s]) /\ upd'[s].at # "send"
  <2>1. CASE Done(s)
    BY <2>1, DoneMoves
  <2>2. CASE upd' = [upd EXCEPT ![s].account = active, ![s].since = moves]
    <3>1. Moves(s) /\ upd'[s] = w
      BY <2>2, Parts DEF Moves
    <3> QED
      BY <3>1, <1>2
  <2> QED
    BY <1>1, <2>1, <2>2
<1>4. faults' \in 0..MaxFaults
  BY <1>1, Charged
<1>5. /\ FsmOK(fsm') /\ fsm'.target = fsm.target /\ applied' \in {None, "start", "full"}
      /\ shown' \in {"start", "full"}
  BY <1>1, Parts DEF menuVars
<1> QED
  BY <1>1, <1>3, <1>4, <1>5, MoveFrame

\* The state is cleared and the current value fetched.
LEMMA FetchInv ==
    ASSUME IInv, NEW s \in Slots, CmdMaxOrders(s) \/ CmdAsk(s)
    PROVE  IInv'
<1>1. /\ Goto(s, "fetch") /\ fsm' = NoFsm
      /\ UNCHANGED <<brokerVars, prompts, menuVars, updates, faults, histVars>>
      /\ \/ upd[s].what = "maxorders" /\ upd[s].account # None
         \/ upd[s].what = "ask"
  BY DEF CmdMaxOrders, CmdAsk, Handling, At, Protected
<1>2. PICK w : w = [upd[s] EXCEPT !.at = "fetch"]
  OBVIOUS
<1>3. Moves(s) /\ upd'[s] = w
  BY <1>1, <1>2, GotoMoves
<1>4. /\ w \in Update /\ w.at = "fetch" /\ w.what = upd[s].what /\ w.tap = upd[s].tap /\ w.arg = upd[s].arg
      /\ w.account = upd[s].account /\ w.since = upd[s].since /\ w.linked = upd[s].linked
      /\ w.denied = upd[s].denied
  BY <1>2, Parts DEF Update
<1>5. UpdateOK(w)
  BY <1>1, <1>4, Parts DEF UpdateOK
<1>6. /\ FsmOK(fsm') /\ fsm'.target = {} /\ applied' \in {None, "start", "full"}
      /\ shown' \in {"start", "full"} /\ faults' \in 0..MaxFaults
  BY <1>1, Blanks, Parts DEF menuVars
<1> QED
  BY <1>1, <1>3, <1>4, <1>5, <1>6, MoveFrame

\* receive_max_orders up to the broker call.
LEMMA ReceiveMaxOrdersInv ==
    ASSUME IInv, NEW s \in Slots, ReceiveMaxOrders(s)
    PROVE  IInv'
<1>1. /\ upd[s].what = "cap_text" /\ upd[s].account # None
      /\ UNCHANGED <<brokerVars, prompts, menuVars, updates, faults, histVars>>
      /\ \/ fsm' \in {fsm, NoFsm} /\ Done(s)
         \/ /\ fsm' = fsm /\ fsm.cap = accountId[upd[s].account]
            /\ upd' = [upd EXCEPT ![s].at = "set", ![s].arg = fsm.cap]
  BY DEF ReceiveMaxOrders, Handling, At, Protected, PromptedFor
<1>2. CASE fsm' \in {fsm, NoFsm} /\ Done(s)
  BY <1>1, <1>2, FlowFrame
<1>3. CASE /\ fsm' = fsm /\ fsm.cap = accountId[upd[s].account]
           /\ upd' = [upd EXCEPT ![s].at = "set", ![s].arg = fsm.cap]
  <2>1. PICK w : w = [upd[s] EXCEPT !.at = "set", !.arg = fsm.cap]
    OBVIOUS
  <2>2. Moves(s) /\ upd'[s] = w
    BY <1>3, <2>1, Parts DEF Moves
  <2>3. fsm.cap \in Args
    BY Parts DEF Fsm, Args
  <2>4. /\ w \in Update /\ w.at = "set" /\ w.what = upd[s].what /\ w.tap = upd[s].tap /\ w.arg = fsm.cap
        /\ w.account = upd[s].account /\ w.since = upd[s].since /\ w.linked = upd[s].linked
      /\ w.denied = upd[s].denied
    BY <2>1, <2>3, Parts DEF Update
  <2>5. UpdateOK(w)
    BY <1>1, <1>3, <2>4, Parts DEF UpdateOK
  <2>6. /\ FsmOK(fsm') /\ fsm'.target = fsm.target /\ applied' \in {None, "start", "full"}
        /\ shown' \in {"start", "full"} /\ faults' \in 0..MaxFaults
    BY <1>1, <1>3, Parts DEF menuVars
  <2> QED
    BY <1>1, <2>2, <2>4, <2>5, <2>6, MoveFrame
<1> QED
  BY <1>1, <1>2, <1>3

\* Typed text goes to the flow the conversation is in.
LEMMA RouteInv ==
    ASSUME IInv, NEW s \in Slots, Route(s)
    PROVE  IInv'
<1> DEFINE Handlers == {"cap_text", "cap_cancel", "value_text", "cancel", "link_text", "alink_text", "new_text"}
           w(h) == [upd[s] EXCEPT !.what = h, !.at = "handle", !.arg = fsm.state]
<1>1. /\ UNCHANGED <<brokerVars, fsm, prompts, menuVars, updates, faults, histVars>>
      /\ Done(s) \/ \E h \in Handlers : upd' = [upd EXCEPT ![s] = w(h)]
  <2> DEFINE typed == upd[s].what = "text"
             handler ==
               CASE fsm.state = "cap" -> IF typed THEN "cap_text" ELSE "cap_cancel"
                 [] fsm.state \in FlowStates ->
                       IF typed THEN "value_text" ELSE IF FlowOf(fsm.state).cancels THEN "cancel" ELSE None
                 [] fsm.state = "link" -> IF typed THEN "link_text" ELSE None
                 [] fsm.state = "alink" -> IF typed THEN "alink_text" ELSE None
                 [] fsm.state = "new" -> IF typed THEN "new_text" ELSE None
                 [] OTHER -> None
  <2>1. handler \in Handlers \cup {None}
    <3>1. fsm.state \in {None, "link", "cap", "alink", "new", "magicmap", "symbols", "leverage",
                         "maxorders", "chats"}
      BY Parts, Flows DEF Fsm
    <3>2. CASE fsm.state = "cap"
      BY <3>2, Flows DEF None
    <3>3. CASE fsm.state \in FlowStates
      BY <3>3, Flows DEF None
    <3>4. CASE fsm.state \in {None, "link", "alink", "new"}
      BY <3>4, Flows DEF None
    <3> QED
      BY <3>1, <3>2, <3>3, <3>4, Flows
  <2>2. upd' = [upd EXCEPT ![s] = IF handler = None THEN Idle ELSE w(handler)]
    BY Parts DEF Route
  <2>3. UNCHANGED <<brokerVars, fsm, prompts, menuVars, updates, faults, histVars>>
    BY DEF Route
  <2> HIDE DEF handler, Handlers, w
  <2>4. CASE handler = None
    BY <2>2, <2>3, <2>4 DEF Done
  <2>5. CASE handler # None
    BY <2>1, <2>2, <2>3, <2>5
  <2> QED
    BY <2>4, <2>5
<1>2. CASE Done(s)
  BY <1>1, <1>2, FlowFrame
<1>3. ASSUME NEW h \in Handlers, upd' = [upd EXCEPT ![s] = w(h)] PROVE IInv'
  <2>1. h \in Kinds
    BY DEF Kinds, Protected
  <2>2. fsm.state \in Args
    BY Parts DEF Fsm, Args
  <2>3. /\ w(h) \in Update /\ w(h).at = "handle" /\ w(h).what = h /\ w(h).tap = upd[s].tap
        /\ w(h).account = upd[s].account /\ w(h).since = upd[s].since
    BY <2>1, <2>2, Parts DEF Update
  <2> HIDE DEF w
  <2>4. UpdateOK(w(h))
    BY <2>3, Parts DEF UpdateOK
  <2>5. Moves(s) /\ upd'[s] = w(h)
    BY <1>3, Parts DEF Moves
  <2>6. /\ FsmOK(fsm') /\ fsm'.target = fsm.target /\ applied' \in {None, "start", "full"}
        /\ shown' \in {"start", "full"} /\ faults' \in 0..MaxFaults
    BY <1>1, Parts DEF menuVars
  <2> QED
    BY <1>1, <2>3, <2>4, <2>5, <2>6, MoveFrame
<1> QED
  BY <1>1, <1>2, <1>3

-----------------------------------------------------------------------------
(* Handlers that act.                                                      *)

\* The state of menu and counters.
LEMMA BoundsFrame ==
    ASSUME IInv, NEW b \in BOOLEAN, UNCHANGED <<menuVars, updates>>, faults' = faults \/ Charge(b)
    PROVE  BoundsOK'
BY Charged DEF IInv, BoundsOK, menuVars

\* cb_confirm
LEMMA CbConfirmInv ==
    ASSUME IInv, NEW s \in Slots, NEW o \in Outcomes, CbConfirm(s, o)
    PROVE  IInv'
<1>1. /\ Charge(~o.says) /\ Done(s) /\ prompts' = prompts \ {upd[s].tap}
      /\ UNCHANGED <<brokerVars, fsm, menuVars, updates, histVars>>
  BY DEF CbConfirm
<1> QED
  BY <1>1, FlowFrame

\* cb_unlink
LEMMA CbUnlinkInv ==
    ASSUME IInv, NEW s \in Slots, NEW o \in Outcomes, CbUnlink(s, o)
    PROVE  IInv'
<1>1. /\ Charge(~o.says)
      /\ SetLinks(links \ {active}) \/ UNCHANGED brokerVars
      /\ prompts' = prompts \ {upd[s].tap}
      /\ \E at \in {"resolve", "end"} : upd' = [upd EXCEPT ![s].at = at, ![s].next = "end"]
      /\ UNCHANGED <<fsm, menuVars, updates, histVars>>
  BY DEF CbUnlink
<1>2. BrokerStep
  <2>1. BrokerOK /\ links \ {active} \in SUBSET Accounts
    BY Parts DEF BrokerOK
  <2> QED
    BY <1>1, <2>1, KeepBroker, SetLinksStep
<1>3. Moves(s) /\ UpdateOK(upd'[s]) /\ upd'[s].at # "send"
  <2>1. PICK at \in {"resolve", "end"} : upd' = [upd EXCEPT ![s].at = at, ![s].next = "end"]
    BY <1>1
  <2>2. PICK w : w = [upd[s] EXCEPT !.at = at, !.next = "end"]
    OBVIOUS
  <2>3. Moves(s) /\ upd'[s] = w
    BY <2>1, <2>2, Parts DEF Moves
  <2>4. /\ w \in Update /\ w.at = at /\ w.what = upd[s].what /\ w.tap = upd[s].tap /\ w.arg = upd[s].arg
        /\ w.account = upd[s].account /\ w.since = upd[s].since /\ w.linked = upd[s].linked
      /\ w.denied = upd[s].denied
    BY <2>2, Parts DEF Update
  <2>5. UpdateOK(w)
    BY <2>4, Parts DEF UpdateOK
  <2> QED
    BY <2>3, <2>4, <2>5
<1>4. FsmOK(fsm') /\ SlotStep(s)
  BY <1>1, <1>3, Parts DEF SlotStep, histVars
<1>5. BoundsOK' /\ acts' = acts
  BY <1>1, BoundsFrame DEF histVars
<1> QED
  BY <1>1, <1>2, <1>3, <1>4, <1>5, StepFrame

\* swacc:{uuid}
LEMMA CbSwitchInv ==
    ASSUME IInv, NEW s \in Slots, NEW o \in Outcomes, CbSwitch(s, o)
    PROVE  IInv'
<1>1. /\ Charge(~o.says) /\ Done(s) /\ prompts' = prompts \ {upd[s].tap}
      /\ UNCHANGED <<fsm, menuVars, updates, histVars>>
      /\ \/ UNCHANGED brokerVars
         \/ /\ upd[s].arg \in links /\ active' = upd[s].arg
            /\ moves' = IF active = upd[s].arg THEN moves ELSE moves + 1
            /\ UNCHANGED <<links, accountId, held>>
  BY DEF CbSwitch
<1>2. BrokerStep
  <2>1. CASE UNCHANGED brokerVars
    BY <2>1, KeepBroker, Parts
  <2>2. CASE /\ upd[s].arg \in links /\ active' = upd[s].arg
             /\ moves' = IF active = upd[s].arg THEN moves ELSE moves + 1
             /\ UNCHANGED <<links, accountId, held>>
    <3>1. active' \in Accounts /\ active' \in links' /\ active' # None /\ active' \in Account
      BY <2>2, Parts, PromptsAssumption DEF BrokerOK, Account
    <3>2. moves \in Nat /\ moves' \in Nat /\ moves' >= moves /\ (moves' = moves => active' = active)
      BY <2>2, Parts DEF BrokerOK
    <3>3. held' \in BOOLEAN /\ (held' => links' # {}) /\ (held' => held)
      BY <2>2, Parts DEF BrokerOK
    <3>4. links' \subseteq Accounts /\ accountId' = accountId /\ accountId' \in [Accounts -> Ids]
      BY <2>2, Parts DEF BrokerOK
    <3> QED
      BY <3>1, <3>2, <3>3, <3>4 DEF BrokerStep, BrokerOK
  <2> QED
    BY <1>1, <2>1, <2>2
<1>3. FsmOK(fsm') /\ SlotStep(s)
  BY <1>1, DoneMoves, Parts DEF SlotStep, histVars
<1>4. BoundsOK' /\ acts' = acts
  BY <1>1, BoundsFrame DEF histVars
<1> QED
  BY <1>1, <1>2, <1>3, <1>4, DoneMoves, StepFrame

\* The write of a cap, and the state cleared after it.
LEMMA SetMaxOrdersInv ==
    ASSUME IInv, NEW s \in Slots, NEW o \in Outcomes, SetMaxOrders(s, o)
    PROVE  IInv'
<1> DEFINE x == Act("cap", {upd[s].arg}, {accountId[active]}, upd[s].since)
<1>1. /\ upd[s].at = "set" /\ Charge(~o.says) /\ Done(s) /\ fsm' = NoFsm
      /\ acts' = acts \/ acts' = acts \cup {x}
      /\ UNCHANGED <<brokerVars, prompts, menuVars, updates, arms, flats>>
  BY DEF SetMaxOrders, At
<1>2. Was(upd[s].account, upd[s].since) /\ upd[s].arg = accountId[upd[s].account]
  BY <1>1, Parts DEF UpdateOK
<1>3. ActOK(x)
  <2>1. x.named = {upd[s].arg} /\ x.on = {accountId[active]} /\ x.moved = (moves # upd[s].since)
    BY DEF Act
  <2> HIDE DEF x
  <2> QED
    BY <1>2, <2>1 DEF ActOK, Was
<1> HIDE DEF x
<1>4. BrokerStep /\ FsmOK(fsm') /\ fsm'.target = {}
  BY <1>1, KeepBroker, Parts, Blanks
<1>5. SlotStep(s)
  BY <1>1, <1>4, DoneMoves DEF SlotStep
<1>6. BoundsOK'
  BY <1>1, BoundsFrame
<1> QED
  BY <1>1, <1>3, <1>4, <1>5, <1>6, DoneMoves, StepFrame

\* A code links an account, on the spot or typed.
LEMMA LinkInv ==
    ASSUME IInv, NEW s \in Slots, NEW o \in Outcomes, ReceiveToken(s, o) \/ StartDeepLink(s, o)
    PROVE  IInv'
<1> DEFINE ask == [NoFsm EXCEPT !.state = "link"]
<1>1. /\ Charge(~o.says) /\ UNCHANGED <<prompts, menuVars, updates, histVars>>
      /\ UNCHANGED brokerVars \/ \E a \in Accounts : SetLinks(links \cup {a})
      /\ \/ fsm' = NoFsm /\ SyncOrSkip(s, upd[s], TRUE, "end")
         \/ fsm' = fsm /\ Done(s)
         \/ fsm' = ask /\ Done(s)
  BY PromptsAssumption DEF ReceiveToken, StartDeepLink
<1>2. BrokerStep
  <2>1. BrokerOK /\ \A a \in Accounts : links \cup {a} \in SUBSET Accounts
    BY Parts DEF BrokerOK
  <2> QED
    BY <1>1, <2>1, KeepBroker, SetLinksStep
<1>3. FsmOK(ask) /\ ask.target = {}
  <2>1. FsmOK(NoFsm) /\ NoFsm.target = {}
    BY Blanks
  <2> QED
    BY <2>1, StateOK
<1> HIDE DEF ask
<1>4. FsmOK(fsm') /\ fsm'.target \in {fsm.target, {}}
  BY <1>1, <1>3, Blanks, Parts
<1>5. Moves(s) /\ UpdateOK(upd'[s]) /\ upd'[s].at # "send"
  <2>1. CASE Done(s)
    BY <2>1, DoneMoves
  <2>2. CASE SyncOrSkip(s, upd[s], TRUE, "end")
    BY <2>2, SyncMoves, Parts
  <2> QED
    BY <1>1, <2>1, <2>2
<1>6. SlotStep(s)
  BY <1>1, <1>4, <1>5 DEF SlotStep, histVars
<1>7. BoundsOK' /\ acts' = acts
  BY <1>1, BoundsFrame DEF histVars
<1> QED
  BY <1>1, <1>2, <1>4, <1>5, <1>6, <1>7, StepFrame

\* arot:{account_id}:ok|no
LEMMA CbRotateInv ==
    ASSUME IInv, NEW s \in Slots, NEW o \in Outcomes, CbRotate(s, o)
    PROVE  IInv'
<1>1. /\ Charge(~o.says) /\ Done(s) /\ prompts' = prompts \ {upd[s].tap}
      /\ UNCHANGED brokerVars \/ \E a \in UNION {Namesakes(n) : n \in upd[s].tap.names} : SetLinks(links \ {a})
      /\ UNCHANGED <<fsm, menuVars, updates, histVars>>
  BY DEF CbRotate
<1>2. BrokerStep
  <2>1. BrokerOK /\ \A a : links \ {a} \in SUBSET Accounts
    BY Parts DEF BrokerOK
  <2> QED
    BY <1>1, <2>1, KeepBroker, SetLinksStep
<1>3. FsmOK(fsm') /\ SlotStep(s)
  BY <1>1, DoneMoves, Parts DEF SlotStep, histVars
<1>4. BoundsOK' /\ acts' = acts
  BY <1>1, BoundsFrame DEF histVars
<1> QED
  BY <1>1, <1>2, <1>3, <1>4, DoneMoves, StepFrame

\* A step that may put a target in the slot.
LEMMA ArmFrame ==
    ASSUME IInv, NEW s \in Slots, NEW b \in BOOLEAN, Done(s), faults' = faults \/ Charge(b),
           UNCHANGED <<brokerVars, menuVars, updates, acts, flats>>, FsmOK(fsm'),
           arms' = arms + 1 \/ (arms' = arms /\ fsm'.target \in {fsm.target, {}}),
           \A p \in prompts' : p \in prompts \/ PromptOK(p)
    PROVE  IInv'
<1>1. BrokerStep
  BY KeepBroker, Parts
<1>2. BoundsOK'
  BY BoundsFrame
<1>3. SlotStep(s)
  BY DoneMoves DEF SlotStep
<1> QED
  BY <1>1, <1>2, <1>3, DoneMoves, StepFrame

\* The slot of /admin_flat with a target, or with candidates.
LEMMA TargetOK ==
    ASSUME NEW f, FsmOK(f), NEW g, g \in Fsm, g.state = f.state, g.cap = f.cap, g.uuid = f.uuid,
           g.pair = f.pair, g.target = {} \/ \E x \in Accounts \cup {All} : g.target = {x}
    PROVE  FsmOK(g)
BY DEF FsmOK

\* /admin_flat without an account: everything, narrowed leg by leg.
LEMMA StartScopeInv ==
    ASSUME IInv, NEW s \in Slots, NEW ok \in BOOLEAN, StartScope(s, ok)
    PROVE  IInv'
<1>1. PICK g : g = [fsm EXCEPT !.target = {All}, !.candidates = {}, !.strategies = ok, !.scope = {}]
  OBVIOUS
<1>2. /\ g \in Fsm /\ g.state = fsm.state /\ g.cap = fsm.cap /\ g.uuid = fsm.uuid /\ g.pair = fsm.pair
      /\ g.target = {All}
  BY <1>1, Parts DEF Fsm
<1>3. FsmOK(g)
  BY <1>2, TargetOK, Parts
<1>4. PromptOK(NextPicker(0, {}))
  <2>1. 0 \in 0..Len(Legs)
    BY PromptsAssumption
  <2> QED
    BY <2>1, NextPickerOK
<1>5. /\ Charge(~ok) /\ Done(s) /\ fsm' = g /\ prompts' = prompts \cup {NextPicker(0, {})}
      /\ arms' = arms + 1 /\ UNCHANGED <<brokerVars, menuVars, updates, acts, flats>>
  BY <1>1 DEF StartScope
<1> QED
  BY <1>3, <1>4, <1>5, ArmFrame

\* /admin_flat with an account, and the pick between several.
LEMMA AflatInv ==
    ASSUME IInv, NEW s \in Slots, NEW ok \in BOOLEAN, CmdAflat(s, ok) \/ PickCandidate(s)
    PROVE  IInv'
<1>1. PICK g : g = [fsm EXCEPT !.target = {upd[s].arg}, !.candidates = {}]
  OBVIOUS
<1>2. PICK h : h = [fsm EXCEPT !.target = {}, !.candidates = Namesakes(upd[s].arg)]
  OBVIOUS
<1> DEFINE q == Prompt("aflat", {upd[s].arg}, 0)
           r == Prompt("pick", Namesakes(upd[s].arg), 0)
<1>3. /\ upd[s].what \in {"aflat", "tap_pick"} /\ Done(s)
      /\ faults' = faults \/ Charge(~ok)
      /\ UNCHANGED <<brokerVars, menuVars, updates, acts, flats>>
      /\ \/ UNCHANGED <<fsm, prompts, arms>>
         \/ fsm' = g /\ prompts' \subseteq prompts \cup {q} /\ arms' = arms + 1
         \/ fsm' = h /\ prompts' = prompts \cup {r} /\ arms' = arms
  BY <1>1, <1>2 DEF CmdAflat, PickCandidate, At
<1>4. upd[s].arg \in Accounts /\ Namesakes(upd[s].arg) \in SUBSET Accounts
  BY <1>3, Parts DEF UpdateOK, Namesakes
<1>5. /\ g \in Fsm /\ g.state = fsm.state /\ g.cap = fsm.cap /\ g.uuid = fsm.uuid /\ g.pair = fsm.pair
      /\ g.target = {upd[s].arg}
  BY <1>1, <1>4, Parts DEF Fsm
<1>6. /\ h \in Fsm /\ h.state = fsm.state /\ h.cap = fsm.cap /\ h.uuid = fsm.uuid /\ h.pair = fsm.pair
      /\ h.target = {}
  BY <1>2, <1>4, Parts DEF Fsm
<1>7. FsmOK(fsm) /\ FsmOK(g) /\ FsmOK(h)
  BY <1>4, <1>5, <1>6, TargetOK, Parts
<1>8. PromptOK(q) /\ PromptOK(r)
  BY <1>4, PlainPrompt
<1> HIDE DEF q, r
<1>9. \A p \in prompts' : p \in prompts \/ PromptOK(p)
  BY <1>3, <1>8
<1>10. FsmOK(fsm') /\ (arms' = arms + 1 \/ (arms' = arms /\ fsm'.target \in {fsm.target, {}}))
  BY <1>3, <1>6, <1>7
<1> QED
  BY <1>3, <1>9, <1>10, ArmFrame

\* cb_aflat empties the slot before it does anything else.
LEMMA CbAflatInv ==
    ASSUME IInv, NEW s \in Slots, CbAflat(s)
    PROVE  IInv'
<1> DEFINE target == IF All \in fsm.target THEN {All} \cup fsm.scope ELSE fsm.target
<1>1. /\ fsm' = TakeSlot /\ UNCHANGED <<brokerVars, menuVars, updates, faults, histVars>>
      /\ \/ /\ target # {} /\ prompts' = prompts
            /\ upd' = [upd EXCEPT ![s].at = "send", ![s].target = target]
         \/ Done(s) /\ prompts' = prompts \ {upd[s].tap}
  BY DEF CbAflat
<1>2. TakeSlot \in Fsm /\ FsmOK(TakeSlot) /\ TakeSlot.target = {}
  <2>1. PICK g : g = TakeSlot
    OBVIOUS
  <2>2. /\ g \in Fsm /\ g.state = fsm.state /\ g.cap = fsm.cap /\ g.uuid = fsm.uuid /\ g.pair = fsm.pair
        /\ g.target = {}
    BY <2>1, Parts DEF TakeSlot, Fsm
  <2> QED
    BY <2>1, <2>2, TargetOK, Parts
<1>3. CASE Done(s) /\ prompts' = prompts \ {upd[s].tap}
  <2>1. FsmOK(fsm') /\ fsm'.target = {} /\ faults' \in 0..MaxFaults
    BY <1>1, <1>2, Parts
  <2> QED
    BY <1>1, <1>3, <2>1, DoneFrame
<1>4. CASE /\ target # {} /\ prompts' = prompts
           /\ upd' = [upd EXCEPT ![s].at = "send", ![s].target = target]
  <2>1. target \in SUBSET (Accounts \cup {All} \cup LegNames) /\ fsm.target # {}
    BY <1>4, Parts DEF Fsm
  <2> HIDE DEF target
  <2>2. PICK w : w = [upd[s] EXCEPT !.at = "send", !.target = target]
    OBVIOUS
  <2>3. Moves(s) /\ upd'[s] = w
    BY <1>4, <2>2, Parts DEF Moves
  <2>4. /\ w \in Update /\ w.at = "send" /\ w.what = upd[s].what /\ w.tap = upd[s].tap /\ w.arg = upd[s].arg
        /\ w.account = upd[s].account /\ w.since = upd[s].since /\ w.linked = upd[s].linked
      /\ w.denied = upd[s].denied
    BY <2>1, <2>2, Parts DEF Update
  <2>5. UpdateOK(w)
    BY <2>4, Parts DEF UpdateOK
  <2>6. BrokerStep
    BY <1>1, KeepBroker, Parts
  <2>7. SlotStep(s)
    BY <1>1, <1>2, <2>1 DEF SlotStep, histVars
  <2>8. BoundsOK' /\ acts' = acts
    BY <1>1, BoundsFrame DEF histVars
  <2> QED
    BY <1>1, <1>2, <1>4, <2>3, <2>5, <2>6, <2>7, <2>8, StepFrame
<1> QED
  BY <1>1, <1>3, <1>4

\* The FLAT itself.
LEMMA SendAflatInv ==
    ASSUME IInv, NEW s \in Slots, NEW o \in Outcomes, SendAflat(s, o)
    PROVE  IInv'
<1> DEFINE x == Act("aflat", upd[s].tap.names, upd[s].target, moves)
<1>1. /\ upd[s].at = "send" /\ Charge(~o.says) /\ Done(s)
      /\ \/ flats' = flats + 1 /\ acts' = acts \cup {x}
         \/ flats' = flats /\ acts' = acts
      /\ prompts' = prompts \ {upd[s].tap}
      /\ UNCHANGED <<brokerVars, fsm, menuVars, updates, arms>>
  BY DEF SendAflat, At
<1>2. ActOK(x)
  BY DEF ActOK, Act
<1> HIDE DEF x
<1>3. BrokerStep /\ FsmOK(fsm')
  BY <1>1, KeepBroker, Parts
<1>4. SlotStep(s)
  BY <1>1, DoneMoves DEF SlotStep
<1>5. BoundsOK'
  BY <1>1, BoundsFrame
<1> QED
  BY <1>1, <1>2, <1>3, <1>4, <1>5, DoneMoves, StepFrame

-----------------------------------------------------------------------------
(* New updates, changes made elsewhere, restarts.                          *)

\* A command as it arrives.
LEMMA CommandOK ==
    ASSUME NEW c \in Commands
    PROVE  /\ c.what \in Kinds /\ c.arg \in Args
           /\ c.what \in {"aflat", "rotate"} => c.arg \in Accounts
           /\ c.what = "ask" => c.arg \in FlowStates
           /\ c.what \notin {"tap_switch", "tap_alink", "tap_pick", "tap_leg"}
<1> DEFINE W == {"control", "unlink", "maxorders", "switch", "subscribe", "read", "start", "deeplink",
                 "link", "text", "cancel", "aflat_all", "linkaccount", "newaccount", "setting"}
<1>1. \/ \E w \in W : c = [what |-> w, arg |-> None]
      \/ \E w \in {"aflat", "rotate"} : \E a \in Accounts : c = [what |-> w, arg |-> a]
      \/ \E f \in FlowStates : c = [what |-> "ask", arg |-> f]
  BY DEF Commands
<1>2. ASSUME NEW w \in W, c = [what |-> w, arg |-> None] PROVE c.what = w /\ c.arg = None
  BY <1>2
<1>3. ASSUME NEW w \in {"aflat", "rotate"}, NEW a \in Accounts, c = [what |-> w, arg |-> a]
      PROVE  c.what = w /\ c.arg = a
  BY <1>3
<1>4. ASSUME NEW f \in FlowStates, c = [what |-> "ask", arg |-> f] PROVE c.what = "ask" /\ c.arg = f
  BY <1>4
<1>5. \/ c.what \in W /\ c.arg = None
      \/ c.what \in {"aflat", "rotate"} /\ c.arg \in Accounts
      \/ c.what = "ask" /\ c.arg \in FlowStates
  BY <1>1, <1>2, <1>3, <1>4
<1>6. c.what \in Kinds /\ c.arg \in Args
  BY <1>5 DEF Kinds, Protected, Args
<1> QED
  BY <1>5, <1>6

\* A button of a prompt as it arrives.
LEMMA TapOK ==
    ASSUME IInv, NEW p \in prompts, NEW c \in Taps(p)
    PROVE  /\ c.what \in Kinds /\ c.arg \in Args
           /\ c.what \in {"tap_switch", "tap_alink", "tap_pick"} => c.arg \in Accounts
           /\ c.what = "tap_leg" => p.kind = "leg"
           /\ c.what \notin {"aflat", "rotate", "ask"}
<1>1. /\ PromptOK(p) /\ p \in Prompted
      /\ p.kind \in {None, "control", "unlink", "rotate", "aflat", "switch", "alink", "pick", "leg", "new"}
  BY DEF IInv, PromptOK, Prompted
<1>2. ASSUME NEW w, NEW D, NEW e \in {[what |-> w, arg |-> d] : d \in D}
      PROVE  e.what = w /\ e.arg \in D
  BY <1>2
<1>3. CASE p.kind \in {"control", "unlink", "rotate", "aflat"}
  <2>1. \/ p.kind = "control" /\ c \in YesNo("tap_control")
        \/ p.kind = "unlink" /\ c \in YesNo("tap_unlink")
        \/ p.kind = "rotate" /\ c \in YesNo("tap_rotate")
        \/ p.kind = "aflat" /\ c \in YesNo("tap_aflat")
    BY <1>3 DEF Taps
  <2>2. /\ c.arg \in {"confirm", "cancel"}
        /\ c.what \in {"tap_control", "tap_unlink", "tap_rotate", "tap_aflat"}
    BY <2>1, <1>2 DEF YesNo
  <2> QED
    BY <2>2 DEF Kinds, Protected, Args
<1>4. CASE p.kind \in {"switch", "alink", "pick"}
  <2>1. p.names \subseteq Accounts
    BY <1>1, <1>4 DEF PromptOK
  <2>2. \E w \in {"tap_switch", "tap_alink", "tap_pick"} : c \in PickOf(w, p.names)
    BY <1>4 DEF Taps
  <2>3. c.what \in {"tap_switch", "tap_alink", "tap_pick"} /\ c.arg \in Accounts
    BY <2>1, <2>2, <1>2 DEF PickOf
  <2> QED
    BY <2>3 DEF Kinds, Protected, Args
<1>5. CASE p.kind = "leg"
  <2>1. c \in {[what |-> "tap_leg", arg |-> d] : d \in {"narrow", "all"}}
    BY <1>5 DEF Taps
  <2>2. c.what = "tap_leg" /\ c.arg \in {"narrow", "all"}
    BY <2>1, <1>2
  <2> QED
    BY <1>5, <2>2 DEF Kinds, Args
<1>6. CASE p.kind = "new"
  <2>1. c = [what |-> "tap_new", arg |-> None]
    BY <1>6 DEF Taps
  <2>2. c.what = "tap_new" /\ c.arg = None
    BY <2>1
  <2> QED
    BY <2>2 DEF Kinds, Args
<1>7. p.kind # None
  BY <1>1 DEF PromptOK
<1> QED
  BY <1>1, <1>3, <1>4, <1>5, <1>6, <1>7

\* An update arrives.
LEMMA ArriveInv ==
    ASSUME IInv, NEW s \in Slots, NEW c, NEW p, Arrive(s, c, p), p \in Prompted,
           p.kind # None => PromptOK(p), c.what \in Kinds, c.arg \in Args,
           c.what \in {"aflat", "rotate", "tap_switch", "tap_alink", "tap_pick"} => c.arg \in Accounts,
           c.what = "ask" => c.arg \in FlowStates,
           c.what = "tap_leg" => p.kind = "leg"
    PROVE  IInv'
<1>1. PICK w : w = [Idle EXCEPT !.what = c.what, !.arg = c.arg, !.tap = p, !.at = "resolve",
                       !.next = IF c.what \in {"text", "cancel"} THEN "route" ELSE "handle"]
  OBVIOUS
<1>2. /\ updates < MaxUpdates /\ updates' = updates + 1 /\ upd' = [upd EXCEPT ![s] = w]
      /\ UNCHANGED <<brokerVars, fsm, prompts, menuVars, faults, histVars>>
  BY <1>1 DEF Arrive
<1>3. /\ w \in Update /\ w.at = "resolve" /\ w.what = c.what /\ w.arg = c.arg /\ w.tap = p
      /\ w.account = None
  BY <1>1, Blanks DEF Update
<1>4. UpdateOK(w)
  BY <1>3 DEF UpdateOK
<1>5. Moves(s) /\ upd'[s] = w
  BY <1>2, Parts DEF Moves
<1>6. BrokerStep /\ FsmOK(fsm')
  BY <1>2, KeepBroker, Parts
<1>7. SlotStep(s) /\ acts' = acts
  BY <1>2, <1>3, <1>5 DEF SlotStep, histVars
<1>8. BoundsOK'
  <2>1. updates' \in 0..MaxUpdates
    BY <1>2, PromptsAssumption DEF IInv, BoundsOK
  <2> QED
    BY <1>2, <2>1 DEF IInv, BoundsOK, menuVars
<1> QED
  BY <1>2, <1>4, <1>5, <1>6, <1>7, <1>8, StepFrame

\* From another chat, or by another admin.
LEMMA ElsewhereInv ==
    ASSUME IInv, Elsewhere
    PROVE  IInv'
<1>1. /\ Charge(TRUE) /\ UNCHANGED <<fsm, prompts, menuVars, upd, updates, histVars>>
      /\ \/ \E a \in Accounts : SetLinks(links \cup {a}) \/ SetLinks(links \ {a})
         \/ /\ \E a \in links \ {active} : active' = a
            /\ moves' = moves + 1 /\ UNCHANGED <<links, accountId, held>>
  BY DEF Elsewhere
<1>2. BrokerOK
  BY DEF IInv
<1>3. BrokerStep
  <2>1. ASSUME NEW a \in Accounts, SetLinks(links \cup {a}) \/ SetLinks(links \ {a}) PROVE BrokerStep
    <3>1. links \cup {a} \in SUBSET Accounts /\ links \ {a} \in SUBSET Accounts
      BY <1>2 DEF BrokerOK
    <3> QED
      BY <1>2, <2>1, <3>1, SetLinksStep
  <2>2. CASE /\ \E a \in links \ {active} : active' = a
             /\ moves' = moves + 1 /\ UNCHANGED <<links, accountId, held>>
    <3>1. active' \in links /\ active' \in Account /\ active' # None /\ links' = links
      BY <1>2, <2>2, PromptsAssumption DEF BrokerOK, Account
    <3>2. moves \in Nat /\ moves' \in Nat /\ moves' >= moves /\ moves' # moves
      BY <1>2, <2>2 DEF BrokerOK
    <3>3. held' \in BOOLEAN /\ (held' => links' # {}) /\ (held' => held)
      BY <1>2, <2>2 DEF BrokerOK
    <3>4. links' \subseteq Accounts /\ accountId' = accountId /\ accountId' \in [Accounts -> Ids]
      BY <1>2, <2>2 DEF BrokerOK
    <3> QED
      BY <3>1, <3>2, <3>3, <3>4 DEF BrokerStep, BrokerOK
  <2> QED
    BY <1>1, <2>1, <2>2
<1>4. \A q \in prompts' : PromptOK(q)'
  BY <1>1, <1>2, <1>3, PromptStays DEF IInv
<1>5. \A t \in Slots : UpdateOK(upd[t])'
  <2> TAKE t \in Slots
  <2>1. PICK u : u = upd[t]
    OBVIOUS
  <2>2. UpdateOK(u)'
    BY <1>2, <1>3, <2>1, UpdateStays DEF IInv
  <2> QED
    BY <1>1, <2>1, <2>2
<1>6. SlotOK'
  BY <1>1 DEF IInv, SlotOK, Sending, histVars
<1>7. BoundsOK'
  BY <1>1, BoundsFrame
<1>8. FsmOK(fsm') /\ upd' \in [Slots -> Update] /\ \A x \in acts' : ActOK(x)
  BY <1>1 DEF IInv, histVars
<1> QED
  BY <1>3, <1>4, <1>5, <1>6, <1>7, <1>8 DEF IInv, BrokerStep

\* Every slot idle but one, which runs the menu's setup.
LEMMA SetupOK ==
    ASSUME NEW s \in Slots, NEW u, u = [o \in Slots |-> IF o = s THEN SetupRun ELSE Idle]
    PROVE  /\ u \in [Slots -> Update]
           /\ \A o \in Slots : UpdateOK(u[o]) /\ u[o].at # "send"
<1>1. /\ SetupRun \in Update /\ SetupRun.what = "setup" /\ SetupRun.at = "resolve"
      /\ SetupRun.account = None /\ SetupRun.tap = NoPrompt
  BY Blanks DEF SetupRun, Update, Kinds
<1>2. UpdateOK(SetupRun)
  BY <1>1, Blanks DEF UpdateOK
<1> QED
  BY <1>1, <1>2, IdleOK, Blanks

\* The bot starts anew.
LEMMA RestartInv ==
    ASSUME IInv, NEW s \in Slots, Restart(s)
    PROVE  IInv'
<1>1. /\ Charge(TRUE) /\ fsm' = NoFsm /\ applied' = None
      /\ upd' = [o \in Slots |-> IF o = s THEN SetupRun ELSE Idle]
      /\ UNCHANGED <<brokerVars, prompts, shown, updates, histVars>>
  BY DEF Restart
<1>2. upd' \in [Slots -> Update] /\ \A o \in Slots : UpdateOK(upd'[o]) /\ upd'[o].at # "send"
  BY <1>1, SetupOK
<1>3. BrokerStep /\ BrokerOK
  BY <1>1, KeepBroker DEF IInv
<1>4. \A t \in Slots : UpdateOK(upd[t])'
  <2> TAKE t \in Slots
  <2>1. PICK u : u = upd'[t]
    OBVIOUS
  <2>2. UpdateOK(u)'
    BY <1>2, <1>3, <2>1, UpdateStays
  <2> QED
    BY <2>1, <2>2
<1>5. \A q \in prompts' : PromptOK(q)'
  BY <1>1, <1>3, PromptStays DEF IInv
<1>6. SlotOK'
  <2>1. Sending' = {}
    BY <1>2 DEF Sending
  <2>2. Cardinality(Sending') = 0 /\ Loaded(fsm') = 0
    BY <1>1, <2>1, Blanks, FS_EmptySet DEF Loaded
  <2>3. /\ arms \in Nat /\ flats \in Nat /\ flats + Cardinality(Sending) + Loaded(fsm) <= arms
        /\ Cardinality(Sending) \in Nat /\ Loaded(fsm) \in {0, 1}
    BY PromptsAssumption, FS_Subset, FS_CardinalityType DEF IInv, SlotOK, Sending, Loaded
  <2>4. flats' + 0 + 0 <= arms' /\ arms' \in Nat /\ flats' \in Nat
    BY <1>1, <2>3 DEF histVars
  <2> QED
    BY <2>2, <2>4 DEF SlotOK
<1>7. BoundsOK'
  BY <1>1, Charged DEF IInv, BoundsOK
<1>8. FsmOK(fsm') /\ \A x \in acts' : ActOK(x)
  BY <1>1, Blanks DEF IInv, histVars
<1> QED
  BY <1>2, <1>3, <1>4, <1>5, <1>6, <1>7, <1>8 DEF IInv, BrokerStep

\* IInv holds at the start.
LEMMA InitIInv == Init => IInv
<1> SUFFICES ASSUME Init PROVE IInv
  OBVIOUS
<1>1. PICK s \in Slots : upd = [o \in Slots |-> IF o = s THEN SetupRun ELSE Idle]
  BY DEF Init
<1>2. upd \in [Slots -> Update] /\ \A o \in Slots : UpdateOK(upd[o]) /\ upd[o].at # "send"
  BY <1>1, SetupOK
<1>3. BrokerOK
  <2>1. links \subseteq Accounts /\ accountId \in [Accounts -> Ids] /\ moves = 0 /\ held = (links # {})
    BY PromptsAssumption DEF Init
  <2>2. (links = {} /\ active = None) \/ (links # {} /\ active \in links)
    BY DEF Init
  <2>3. active \in Account /\ (active = None <=> links = {})
    BY <2>1, <2>2, PromptsAssumption DEF Account
  <2> QED
    BY <2>1, <2>2, <2>3 DEF BrokerOK
<1>4. SlotOK
  <2>1. Sending = {}
    BY <1>2 DEF Sending
  <2>2. Cardinality(Sending) = 0 /\ Loaded(fsm) = 0
    BY <2>1, Blanks, FS_EmptySet DEF Loaded, Init
  <2> QED
    BY <2>2 DEF SlotOK, Init
<1>5. BoundsOK /\ FsmOK(fsm) /\ prompts = {} /\ acts = {}
  BY Blanks, PromptsAssumption DEF BoundsOK, Init
<1> QED
  BY <1>2, <1>3, <1>4, <1>5 DEF IInv

\* Every step keeps IInv.
LEMMA NextIInv == IInv /\ [Next]_vars => IInv'
<1> SUFFICES ASSUME IInv, [Next]_vars PROVE IInv'
  OBVIOUS
<1>1. ASSUME NEW s \in Slots, NEW c \in Commands, Arrive(s, c, NoPrompt) PROVE IInv'
  BY <1>1, ArriveInv, CommandOK, Blanks
<1>2. ASSUME NEW s \in Slots, NEW p \in prompts, NEW c \in Taps(p), Arrive(s, c, p) PROVE IInv'
  <2>1. PromptOK(p) /\ p \in Prompted
    BY DEF IInv, PromptOK
  <2> QED
    BY <1>2, <2>1, ArriveInv, TapOK
<1>3. ASSUME NEW s \in Slots, Handle(s) PROVE IInv'
  <2>1. [does |-> TRUE, says |-> TRUE] \in Outcomes
    BY DEF Outcomes
  <2> QED
    BY <1>3, <2>1, CmdConfirmInv, FetchInv, ReceiveMaxOrdersInv, RouteInv, FlowHandlers, AdminPrompts, FlowData,
       AflatInv, PickLegInv, CbAflatInv, QuietHandlers DEF Handle
<1>4. ASSUME NEW s \in Slots, NEW ok \in BOOLEAN, Ask(s, ok) PROVE IInv'
  <2>1. [does |-> TRUE, says |-> TRUE] \in Outcomes
    BY DEF Outcomes
  <2> QED
    BY <1>4, <2>1, MenuInv, AuthInv, CmdSwitchInv, FlowData, FlowHandlers, AdminPrompts, StartScopeInv,
       AflatInv DEF Ask
<1>5. ASSUME NEW s \in Slots, NEW o \in Outcomes, Do(s, o) PROVE IInv'
  BY <1>5, CbConfirmInv, CbUnlinkInv, QuietHandlers, CbSwitchInv, SetMaxOrdersInv, LinkInv, FlowHandlers,
     CbRotateInv, SendAflatInv DEF Do
<1>6. ASSUME NEW s \in Slots, NEW o \in Lookups, Resolve(s, o) PROVE IInv'
  BY <1>6, ResolveInv
<1>7. CASE UNCHANGED vars
  BY <1>7 DEF vars, IInv, BrokerOK, FsmOK, PromptOK, Was, UpdateOK, SlotOK, Sending, BoundsOK
<1> QED
  BY <1>1, <1>2, <1>3, <1>4, <1>5, <1>6, <1>7, RestartInv, ElsewhereInv DEF Next

-----------------------------------------------------------------------------
(* The theorems.                                                           *)

\* IInv holds in every state of the chat.
THEOREM Inductive == Spec => []IInv
BY InitIInv, NextIInv, PTL DEF Spec

\* Accounts, conversation and updates keep their types: a flow finds the data
\* it needs in the conversation all flows share, and a user's active account
\* is one the user holds.
THEOREM TypeCorrect == Spec => []TypeOK
<1>1. IInv => TypeOK
  <2> SUFFICES ASSUME IInv PROVE TypeOK
    OBVIOUS
  <2>1. fsm \in Fsm /\ FsmOK(fsm)
    BY DEF IInv, FsmOK
  <2>2. Cardinality(fsm.target) <= 1
    <3>1. CASE fsm.target = {}
      BY <3>1, FS_EmptySet
    <3>2. ASSUME NEW x, fsm.target = {x} PROVE Cardinality(fsm.target) <= 1
      <4>1. Cardinality({x}) = 1
        BY FS_Singleton
      <4> QED
        BY <3>2, <4>1
    <3> QED
      BY <2>1, <3>1, <3>2 DEF FsmOK
  <2>3. /\ fsm.state \in {None, "link", "cap", "alink", "new"} \cup FlowStates
        /\ fsm.cap \in Ids \cup {None} /\ fsm.uuid \in Accounts \cup {None}
        /\ fsm.target \subseteq Accounts \cup {All}
        /\ fsm.candidates \subseteq Accounts /\ fsm.scope \subseteq LegNames
    BY <2>1 DEF Fsm, Account
  <2>4. fsm.pair \in BOOLEAN /\ fsm.strategies \in BOOLEAN
    BY <2>1 DEF Fsm
  <2>5. /\ fsm.state = "cap" => fsm.cap # None
        /\ fsm.state = "alink" => fsm.uuid # None
        /\ fsm.state = "new" => fsm.pair
    BY <2>1 DEF FsmOK
  <2>6. \A s \in Slots : upd[s].what \in Kinds /\ upd[s].account \in Accounts \cup {None}
    BY DEF IInv, Update, Account
  <2>7. /\ links \subseteq Accounts /\ active \in Accounts \cup {None}
        /\ active = None <=> links = {}
        /\ active # None => active \in links
        /\ accountId \in [Accounts -> Ids] /\ moves \in Nat /\ held \in BOOLEAN
    BY DEF IInv, BrokerOK, Account
  <2>8. /\ arms \in Nat /\ flats \in Nat
        /\ applied \in {None, "start", "full"} /\ shown \in {"start", "full"}
        /\ updates \in 0..MaxUpdates /\ faults \in 0..MaxFaults
    BY DEF IInv, SlotOK, BoundsOK
  <2> QED
    BY <2>2, <2>3, <2>4, <2>5, <2>6, <2>7, <2>8 DEF TypeOK
<1> QED
  BY <1>1, Inductive, PTL

\* A typed cap is set on an account with the account_id its prompt was about,
\* unless the active account was changed after the reply had been looked up.
THEOREM CapReaches == Spec => []CapReachesPromptedId
<1>1. IInv => CapReachesPromptedId
  BY DEF IInv, ActOK, CapReachesPromptedId
<1> QED
  BY <1>1, Inductive, PTL

\* There are never more FLATs than times a target was put in the slot,
\* however taps, commands and restarts interleave.
THEOREM FlatOnce == Spec => []FlatOncePerTarget
<1>1. IInv => FlatOncePerTarget
  <2> SUFFICES ASSUME IInv PROVE flats <= arms
    BY DEF FlatOncePerTarget
  <2>1. /\ arms \in Nat /\ flats \in Nat /\ flats + Cardinality(Sending) + Loaded(fsm) <= arms
        /\ Cardinality(Sending) \in Nat /\ Loaded(fsm) \in {0, 1}
    BY PromptsAssumption, FS_Subset, FS_CardinalityType DEF IInv, SlotOK, Sending, Loaded
  <2> QED
    BY <2>1
<1> QED
  BY <1>1, Inductive, PTL

\* Only set_my_commands changes the menu Telegram shows.
LEMMA OnlySetMenu ==
    ASSUME [Next]_vars
    PROVE  shown' = shown \/ \E s \in Slots : \E ok \in BOOLEAN : SetMenu(s, ok)
<1> USE DEF menuVars
<1>1. ASSUME NEW s \in Slots, NEW c, NEW p, Arrive(s, c, p) PROVE shown' = shown
  BY <1>1 DEF Arrive
<1>2. ASSUME NEW s \in Slots, Handle(s) PROVE shown' = shown
  BY <1>2 DEF Handle, CmdConfirm, CmdMaxOrders, ReceiveMaxOrders, Route, Cancel, CmdAsk, CmdRotate, CbLinkAccount,
              CmdNewAccount, PickCandidate, PickLeg, CbAflat, End
<1>3. ASSUME NEW s \in Slots, NEW ok \in BOOLEAN, Ask(s, ok) PROVE shown' = shown \/ SetMenu(s, ok)
  BY <1>3 DEF Ask, MenuAnswer, Auth, CmdSwitch, PromptMaxOrders, CmdStart, PromptValue, CmdLinkAccount,
              CbNewAccount, StartScope, CmdAflat
<1>4. ASSUME NEW s \in Slots, NEW o \in Outcomes, Do(s, o) PROVE shown' = shown
  BY <1>4 DEF Do, CbConfirm, CbUnlink, Subscribe, CbSwitch, SetMaxOrders, ReceiveToken, StartDeepLink, ReceiveValue,
              SetSetting, CbRotate, ReceiveLinkId, ReceiveNewId, SendAflat
<1>5. ASSUME NEW s \in Slots, Restart(s) PROVE shown' = shown
  BY <1>5 DEF Restart
<1>6. CASE Elsewhere
  BY <1>6 DEF Elsewhere
<1>7. ASSUME NEW s \in Slots, NEW o \in Lookups, Resolve(s, o) PROVE shown' = shown
  BY <1>7 DEF Resolve
<1>8. CASE UNCHANGED vars
  BY <1>8 DEF vars
<1> QED
  BY <1>1, <1>2, <1>3, <1>4, <1>5, <1>6, <1>7, <1>8 DEF Next

\* A user who has held an account all along loses the full menu only to an
\* update whose lookup the broker denied, whatever else fails or restarts.
THEOREM CommandsKept == Spec => KeepsCommands
<1> DEFINE Denied == \E s \in Slots : upd[s].denied /\ upd[s].at = "setmenu" /\ upd'[s] # upd[s]
<1>1. IInv /\ [Next]_vars => (held /\ shown = "full" /\ shown' # "full" => Denied)
  <2> SUFFICES ASSUME IInv, [Next]_vars, held, shown = "full", shown' # "full" PROVE Denied
    OBVIOUS
  <2>1. PICK s \in Slots : \E ok \in BOOLEAN : SetMenu(s, ok)
    BY OnlySetMenu
  <2>2. PICK ok \in BOOLEAN : SetMenu(s, ok)
    BY <2>1
  <2>3. upd[s].at = "setmenu" /\ ~upd[s].linked
    BY <2>2 DEF SetMenu, MenuFor
  <2>4. upd[s].denied
    BY <2>3 DEF IInv, UpdateOK
  <2>5. upd'[s] # upd[s]
    <3>1. Goto(s, IF ok THEN "menuack" ELSE "menufail")
      BY <2>2 DEF SetMenu
    <3>2. upd'[s].at = IF ok THEN "menuack" ELSE "menufail"
      BY <3>1, Parts DEF Goto, Update
    <3> QED
      BY <2>3, <3>2
  <2> QED
    BY <2>3, <2>4, <2>5
<1> QED
  BY <1>1, Inductive, PTL DEF Spec, KeepsCommands

=============================================================================
