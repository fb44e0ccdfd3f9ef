--------------------------- MODULE WorkerSettings ---------------------------
(***************************************************************************)
(* What a connected worker runs on against what the broker has stored: the *)
(* WORKER_CONNECTED handshake of SystemEventConsumer, and the requests of  *)
(* owners and admins that write a setting and then push it to the worker.  *)
(*                                                                         *)
(* The model follows one crypto account and its worker.  The database read *)
(* or write and the publish of a handler are steps of their own, and any   *)
(* number of handlers run at once.  Core NATS delivers at most once, in    *)
(* order on each subject, and only to a worker that is connected.          *)
(*                                                                         *)
(* A worker cannot always agree with the store: a push may be lost or be   *)
(* built from values that changed since.  tainted names the groups of      *)
(* settings this happened to since the last handshake that made up for it, *)
(* and is derived from what happened, never from the values.               *)
(***************************************************************************)
EXTENDS Integers, Sequences, FiniteSets

CONSTANTS
    Handlers,   \* requests that can be under way at once
    Caps,       \* values of max_open_orders
    Levs,       \* values of crypto_max_leverage
    MaxWrites,  \* bound: requests
    MaxAsks,    \* bound: handshakes
    MaxFaults   \* bound: failed reads, writes and publishes

\* An unset value, and DEFAULT_MAX_OPEN_ORDERS.
Null == 0
DefaultCap == 9

ASSUME SettingsAssumption ==
    /\ Caps \subseteq Nat \ {Null} /\ Levs \subseteq Nat \ {Null} /\ Levs # {}
    /\ MaxWrites \in Nat /\ MaxAsks \in Nat /\ MaxFaults \in Nat

\* Settings that travel together: the account's block (signal_blocked and
\* max_open_orders), the crypto leverage, the strategy magic map.
Groups == {"block", "lev", "magic"}
Kinds == {"prevent", "cap", "gcap", "lev", "magic"}
GroupOf(kind) == IF kind \in {"lev", "magic"} THEN kind ELSE "block"

VARIABLES
    stored,   \* the settings in the database
    gateway,  \* whether the accounts row has a gateway
    cache,    \* crypto settings and magic map cached by the handshake
    worker,   \* what the worker runs on
    conn,     \* the worker: off, asking, on
    hs,       \* the handshake being handled
    req,      \* each request under way
    chan,     \* messages in flight on each subject
    tainted,  \* groups in which the worker may differ from the store
    fresh,    \* groups the handshake under way has read and nobody wrote since
    writes, asks, faults

vars == <<stored, gateway, cache, worker, conn, hs, req, chan, tainted, fresh,
          writes, asks, faults>>

CapOrNull == Caps \cup {Null}
LevOrNull == Levs \cup {Null}
AnyCap == CapOrNull \cup {DefaultCap}

Stored == [blocked: BOOLEAN, cap: CapOrNull, gcap: CapOrNull, lev: LevOrNull, magic: Levs]
Config == [blocked: BOOLEAN, cap: AnyCap, lev: LevOrNull, magic: LevOrNull]

\* What a message or a handler carries: some fields of a configuration.
NoFields == <<>>
Messages ==
    {NoFields} \cup [blocked: BOOLEAN] \cup [cap: AnyCap] \cup [lev: Levs]
        \cup [blocked: BOOLEAN, cap: AnyCap] \cup Config

\* A cache entry: its value, and whether a write has overtaken it.
Cold == [warm |-> FALSE, value |-> Null, old |-> FALSE]
Entry == [warm: BOOLEAN, value: LevOrNull, old: BOOLEAN]

NoReq == [kind |-> "none", at |-> "idle", value |-> Null, conf |-> NoFields]

TypeOK ==
    /\ stored \in Stored
    /\ gateway \in BOOLEAN
    /\ cache \in [{"lev", "magic"} -> Entry]
    /\ worker \in Config
    /\ conn \in {"off", "asking", "on"}
    /\ hs.at \in {"none", "crypto", "magic", "settings", "global", "ack"}
    /\ hs.conf \in Config
    /\ \A h \in Handlers : /\ req[h].kind \in Kinds \cup {"none"}
                           /\ req[h].at \in {"idle", "read", "accounts", "publish"}
                           /\ req[h].conf \in Messages
    /\ \A s \in {"ADMIN", "SYSTEM", "inbox"} : chan[s] \in Seq(Messages)
    /\ Len(chan["inbox"]) <= 1
    /\ tainted \subseteq Groups /\ fresh \subseteq Groups
    /\ writes \in 0..MaxWrites /\ asks \in 0..MaxAsks /\ faults \in 0..MaxFaults

Blank == [blocked |-> FALSE, cap |-> Null, lev |-> Null, magic |-> Null]
NoHandshake == [at |-> "none", conf |-> Blank]

Init ==
    /\ stored \in [blocked: {FALSE}, cap: {Null}, gcap: {Null}, lev: LevOrNull,
                   magic: {CHOOSE m \in Levs : TRUE}]
    /\ gateway = FALSE
    /\ cache = [k \in {"lev", "magic"} |-> Cold]
    /\ worker = Blank
    /\ conn = "off"
    /\ hs = NoHandshake
    /\ req = [h \in Handlers |-> NoReq]
    /\ chan = [s \in {"ADMIN", "SYSTEM", "inbox"} |-> <<>>]
    /\ tainted = {} /\ fresh = {}
    /\ writes = 0 /\ asks = 0 /\ faults = 0

Fault == faults < MaxFaults /\ faults' = faults + 1
TaintUnless(ok, g) ==
    /\ tainted' = IF ok THEN tainted ELSE tainted \cup {g}
    /\ fresh' = IF ok THEN fresh ELSE fresh \ {g}
OrFault(ok) == IF ok THEN UNCHANGED faults ELSE Fault

-----------------------------------------------------------------------------
(* account_settings_service.                                               *)

\* parse_global_max_open_orders
GlobalCap(raw) == IF raw = Null THEN DefaultCap ELSE raw

\* resolve_account_settings
ResolveCap(own, global) == IF own = Null THEN global ELSE own

\* The configuration the stored settings stand for.
Resolved ==
    [blocked |-> stored.blocked, cap |-> ResolveCap(stored.cap, GlobalCap(stored.gcap)),
     lev |-> stored.lev, magic |-> stored.magic]

-----------------------------------------------------------------------------
(* Core NATS and the worker.                                               *)

GroupOfField(f) == IF f \in {"blocked", "cap"} THEN "block" ELSE f
GroupsIn(conf) == {GroupOfField(f) : f \in DOMAIN conf}

\* Values of a group on their way to the worker.
InFlight(g) ==
    \/ \E s \in DOMAIN chan : \E i \in DOMAIN chan[s] : g \in GroupsIn(chan[s][i])
    \/ \E h \in Handlers : g \in GroupsIn(req[h].conf)
    \/ g \in fresh

\* nc.publish: gone unless the worker is connected.
Send(s, conf) == chan' = IF conn = "off" THEN chan ELSE [chan EXCEPT ![s] = Append(@, conf)]

\* The worker applies a pushed message.
Receive(s) ==
    /\ chan[s] # <<>> /\ s # "inbox"
    /\ LET conf == Head(chan[s])
       IN  worker' = [f \in DOMAIN worker |-> IF f \in DOMAIN conf THEN conf[f] ELSE worker[f]]
    /\ chan' = [chan EXCEPT ![s] = Tail(@)]
    /\ UNCHANGED <<stored, gateway, cache, conn, hs, req, tainted, fresh, writes, asks, faults>>

\* The worker gets its answer: an ACK with the whole configuration, or an
\* error, after which it will ask again.
ReceiveAnswer ==
    /\ chan["inbox"] # <<>>
    /\ LET conf == Head(chan["inbox"])
       IN  IF conf = NoFields
           THEN conn' = "off" /\ UNCHANGED <<worker, tainted>>
           ELSE conn' = "on" /\ worker' = conf /\ tainted' = tainted \ fresh
    /\ chan' = IF conn' = "off" THEN [s \in DOMAIN chan |-> <<>>]
               ELSE [chan EXCEPT !["inbox"] = <<>>]
    /\ fresh' = {}
    /\ UNCHANGED <<stored, gateway, cache, hs, req, writes, asks, faults>>

\* The worker loses its connection, and every message on the way to it.
Disconnect ==
    /\ conn # "off" /\ asks < MaxAsks
    /\ conn' = "off"
    /\ chan' = [s \in DOMAIN chan |-> <<>>]
    /\ fresh' = IF hs.at = "none" THEN {} ELSE fresh
    /\ UNCHANGED <<stored, gateway, cache, worker, hs, req, tainted, writes, asks, faults>>

\* The worker connects and announces itself; the subscription's callback
\* handles one announcement at a time.  _remember_worker stores the gateway
\* first; a failure is logged.
Connect(ok) ==
    /\ conn = "off" /\ asks < MaxAsks /\ hs.at = "none" /\ OrFault(ok)
    /\ conn' = "asking"
    /\ asks' = asks + 1
    /\ gateway' = (gateway \/ ok)
    /\ hs' = [at |-> "crypto", conf |-> Blank]
    /\ UNCHANGED <<stored, cache, worker, req, chan, tainted, fresh, writes>>

-----------------------------------------------------------------------------
(* handle_subject_system.                                                  *)

\* A group was read for the answer.  The answer makes up for the past of the
\* group unless an older value of it is still on its way.
ReadGroup(g, good) ==
    /\ fresh' = IF good /\ ~(g \in tainted /\ InFlight(g)) THEN fresh \cup {g} ELSE fresh
    /\ tainted' = IF good THEN tainted ELSE tainted \cup {g}

\* A read through one of the caches: the entry while it is within its TTL,
\* else the database; an empty or failed read is cached like any other.
CachedRead(k, hit, ok, value) ==
    LET entry == IF hit THEN cache[k]
                 ELSE [warm |-> TRUE, value |-> IF ok THEN value ELSE Null, old |-> ~ok]
    IN  /\ hit => cache[k].warm /\ ok
        /\ OrFault(ok)
        /\ cache' = [cache EXCEPT ![k] = entry]
        /\ ReadGroup(k, ~entry.old)
        /\ hs' = [hs EXCEPT !.conf[k] = entry.value,
                            !.at = IF k = "magic" THEN "settings"
                                   ELSE IF entry.value = Null THEN "none" ELSE "magic"]

\* Mutant of RejectUnconfigured: the handler returns without an answer.
RejectUnconfiguredSilently(conf) == UNCHANGED chan

\* Mutant of RejectUnconfigured: an error goes out whatever was read.
RejectUnconfiguredAlways(conf) == Send("inbox", NoFields)

\* _reply_error on the request's inbox.  An error that cannot be published
\* leaves the worker to time out: it is a Disconnect before the answer is read.
RejectUnconfigured(conf) == IF conf.lev = Null THEN Send("inbox", NoFields) ELSE UNCHANGED chan

\* _build_crypto_leverage: missing settings end the handshake with an error.
BuildCryptoLeverage(hit, ok) ==
    /\ hs.at = "crypto"
    /\ CachedRead("lev", hit, ok, stored.lev)
    /\ RejectUnconfigured(hs'.conf)
    /\ UNCHANGED <<stored, gateway, worker, conn, req, writes, asks>>

\* _build_strategy_magic_map, and _build_retry_signals after it.
BuildMagicMap(hit, ok) ==
    /\ hs.at = "magic"
    /\ CachedRead("magic", hit, ok, stored.magic)
    /\ UNCHANGED <<stored, gateway, worker, conn, req, chan, writes, asks>>

\* get_settings: a failed read gives the schema defaults.
BuildAccountSettings(ok) ==
    /\ hs.at = "settings" /\ OrFault(ok)
    /\ ReadGroup("block", ok)
    /\ hs' = [hs EXCEPT !.at = "global",
                        !.conf.blocked = ok /\ stored.blocked,
                        !.conf.cap = IF ok THEN stored.cap ELSE Null]
    /\ UNCHANGED <<stored, gateway, cache, worker, conn, req, chan, writes, asks>>

\* _get_global_max_open_orders, uncached, and the resolution against it.
ReadGlobalCap(ok) ==
    /\ hs.at = "global" /\ OrFault(ok)
    /\ hs' = [hs EXCEPT !.at = "ack",
                !.conf.cap = ResolveCap(@, GlobalCap(IF ok THEN stored.gcap ELSE Null))]
    /\ TaintUnless(ok, "block")
    /\ UNCHANGED <<stored, gateway, cache, worker, conn, req, chan, writes, asks>>

\* _reply_ack.  A worker whose answer was lost times out and asks again.
ReplyAck(ok) ==
    /\ hs.at = "ack" /\ OrFault(ok)
    /\ IF ok THEN Send("inbox", hs.conf) /\ UNCHANGED conn
       ELSE conn' = "off" /\ chan' = [s \in DOMAIN chan |-> <<>>]
    /\ fresh' = IF ok /\ conn # "off" THEN fresh ELSE {}
    /\ hs' = NoHandshake
    /\ UNCHANGED <<stored, gateway, cache, worker, req, tainted, writes, asks>>

-----------------------------------------------------------------------------
(* Requests: write the setting, then push it.                              *)

\* A write overtakes the values of its group that are on their way or cached;
\* a worker learns of a new magic map by the next handshake only.
Overtake(g) ==
    /\ tainted' = IF InFlight(g) \/ g = "magic" THEN tainted \cup {g} ELSE tainted
    /\ fresh' = fresh \ {g}
    /\ cache' = [k \in DOMAIN cache |->
                    IF k = g /\ cache[k].warm THEN [cache[k] EXCEPT !.old = TRUE] ELSE cache[k]]

\* Mutant of Merge: the patch replaces the account's settings.
MergeReplaces(s, kind, value) ==
    CASE kind = "prevent" -> [s EXCEPT !.blocked = (value # Null), !.cap = Null]
      [] kind = "cap"     -> [s EXCEPT !.cap = value, !.blocked = FALSE]
      [] kind = "gcap"    -> [s EXCEPT !.gcap = value]
      [] kind = "lev"     -> [s EXCEPT !.lev = value]
      [] kind = "magic"   -> [s EXCEPT !.magic = value]

\* update_settings (settings || patch) and SettingRepository.set.
Merge(s, kind, value) ==
    CASE kind = "prevent" -> [s EXCEPT !.blocked = (value # Null)]
      [] kind = "cap"     -> [s EXCEPT !.cap = value]
      [] kind = "gcap"    -> [s EXCEPT !.gcap = value]
      [] kind = "lev"     -> [s EXCEPT !.lev = value]
      [] kind = "magic"   -> [s EXCEPT !.magic = value]

\* A request commits its setting; a failure answers 500 and nothing is
\* published.  What /prevent will publish and the blob update_settings
\* returned are held from here on.  The magic map is never pushed.
Write(h, kind, value, ok) ==
    LET held == CASE kind = "prevent" -> [blocked |-> (value # Null)]
                  [] kind = "cap"     -> [blocked |-> stored.blocked, cap |-> value]
                  [] OTHER            -> NoFields
        at   == IF kind = "prevent" THEN "publish" ELSE "read"
    IN  /\ req[h] = NoReq /\ writes < MaxWrites /\ OrFault(ok)
        /\ writes' = writes + 1
        /\ IF ok
           THEN /\ stored' = Merge(stored, kind, value)
                /\ Overtake(GroupOf(kind))
           ELSE UNCHANGED <<stored, tainted, fresh, cache>>
        /\ req' = [req EXCEPT ![h] =
                     IF ~ok \/ kind = "magic" THEN NoReq
                     ELSE [kind |-> kind, at |-> at, value |-> value, conf |-> held]]
        /\ UNCHANGED <<gateway, worker, conn, hs, chan, asks>>

\* The broker-wide value is read back: the default cap of both cap requests,
\* the crypto settings of _push_crypto_leverage_init.  A failed read falls
\* back to the default cap, or skips the leverage push.
ReadBack(h, ok) ==
    LET r == req[h]
        g == GroupOf(r.kind)
        global == GlobalCap(IF ok THEN stored.gcap ELSE Null)
        read == CASE r.kind = "cap"  ->
                        [r EXCEPT !.at = "publish", !.conf.cap = ResolveCap(@, global)]
                  [] r.kind = "gcap" ->
                        [r EXCEPT !.at = "accounts", !.value = global, !.conf = [cap |-> global]]
                  [] r.kind = "lev"  ->
                        IF ok THEN [r EXCEPT !.at = "publish", !.conf = [lev |-> stored.lev]]
                        ELSE NoReq
    IN  /\ r.at = "read" /\ OrFault(ok)
        /\ req' = [req EXCEPT ![h] = read]
        /\ TaintUnless(ok, g)
        /\ UNCHANGED <<stored, gateway, cache, worker, conn, hs, chan, writes, asks>>

\* _push_max_open_orders: get_all, then the block of each account.
ReadAccounts(h) ==
    LET r == req[h]
    IN  /\ r.at = "accounts"
        /\ req' = [req EXCEPT ![h] =
                     [r EXCEPT !.at = "publish",
                               !.conf = [blocked |-> stored.blocked,
                                         cap |-> ResolveCap(stored.cap, r.value)]]]
        /\ UNCHANGED <<stored, gateway, cache, worker, conn, hs, chan, tainted, fresh,
                       writes, asks, faults>>

\* The publish: /prevent on the account's ADMIN subject, the others on SYSTEM.
\* An account without a gateway cannot be addressed; a failed publish is
\* logged (or, for /prevent, answered with 500 after the commit).
Push(h, ok) ==
    LET r == req[h]
        sent == ok /\ gateway
    IN  /\ r.at = "publish" /\ OrFault(ok)
        /\ IF sent THEN Send(IF r.kind = "prevent" THEN "ADMIN" ELSE "SYSTEM", r.conf)
           ELSE UNCHANGED chan
        /\ TaintUnless(sent, GroupOf(r.kind))
        /\ req' = [req EXCEPT ![h] = NoReq]
        /\ UNCHANGED <<stored, gateway, cache, worker, conn, hs, writes, asks>>

-----------------------------------------------------------------------------
Values(kind) ==
    CASE kind = "prevent" -> {Null, 1}
      [] kind = "cap"     -> CapOrNull
      [] kind = "gcap"    -> Caps
      [] OTHER            -> Levs

HandshakeStep ==
    \E ok \in BOOLEAN : \/ \E hit \in BOOLEAN : \/ BuildCryptoLeverage(hit, ok)
                                                \/ BuildMagicMap(hit, ok)
                        \/ BuildAccountSettings(ok) \/ ReadGlobalCap(ok) \/ ReplyAck(ok)

RequestStep(h) ==
    \/ ReadAccounts(h)
    \/ \E ok \in BOOLEAN : ReadBack(h, ok) \/ Push(h, ok)

Next ==
    \/ \E ok \in BOOLEAN : Connect(ok)
    \/ Disconnect \/ ReceiveAnswer
    \/ \E s \in DOMAIN chan : Receive(s)
    \/ HandshakeStep
    \/ \E h \in Handlers : \/ RequestStep(h)
                           \/ \E kind \in Kinds : \E v \in Values(kind) :
                                 \E ok \in BOOLEAN : Write(h, kind, v, ok)

Spec == Init /\ [][Next]_vars

\* Handlers run to their end, and NATS delivers what it holds.
Fairness ==
    /\ WF_vars(HandshakeStep)
    /\ WF_vars(ReceiveAnswer)
    /\ \A s \in {"ADMIN", "SYSTEM"} : WF_vars(Receive(s))
    /\ \A h \in Handlers : WF_vars(RequestStep(h))

FairSpec == Spec /\ Fairness

-----------------------------------------------------------------------------
(* Safety.                                                                 *)

Quiet ==
    /\ \A h \in Handlers : req[h] = NoReq
    /\ \A s \in DOMAIN chan : chan[s] = <<>>

\* With nothing under way, a connected worker runs on what the database
\* says: what was pushed while it was away, lost with its connection or
\* superseded is made up for by the handshake.  Only a failed read or
\* publish, a cache entry older than the last write, or a write that overtook
\* a value already on its way may leave a group of settings behind.
QuietWorkerAgrees ==
    conn = "on" /\ Quiet =>
        \A f \in DOMAIN worker : GroupOfField(f) \notin tainted =>
            worker[f] = Resolved[f]

-----------------------------------------------------------------------------
(* Liveness.                                                               *)

\* Every announcement is answered, or its answer was lost: the worker never
\* waits for an answer that nobody is going to send.
EveryAskIsAnswered == conn = "asking" ~> conn # "asking"

=============================================================================
