------------------------ MODULE WorkerSettingsProofs ------------------------
(***************************************************************************)
(* Proofs about WorkerSettings, for any set of values, any number of       *)
(* concurrent requests, handshakes and faults.                             *)
(*                                                                         *)
(* The idea: a group is trusted when it is not tainted, or was read by the *)
(* handshake under way and not written since.  Whatever is on its way to   *)
(* the worker in a trusted group is what the store says now, and a         *)
(* connected worker that differs in an untainted group has a message or a  *)
(* request coming that will correct it.                                    *)
(***************************************************************************)
EXTENDS WorkerSettings, SequenceTheorems, TLAPS

-----------------------------------------------------------------------------
(* The inductive invariant.                                                *)

Subjects == {"ADMIN", "SYSTEM", "inbox"}
Pushes == {"ADMIN", "SYSTEM"}
Stages == {"none", "crypto", "magic", "settings", "global", "ack"}

\* What Push puts on a subject.
Pushed == [blocked: BOOLEAN] \cup [blocked: BOOLEAN, cap: AnyCap] \cup [lev: Levs]

\* The cap the stored settings resolve to.
CapNow == ResolveCap(stored.cap, GlobalCap(stored.gcap))

\* Values of group g on their way are to be believed.
Trusted(g) == g \notin tainted \/ g \in fresh

\* What a request holds at each of its steps.
Requests == [kind: Kinds \cup {"none"}, at: {"idle", "read", "accounts", "publish"}, value: Nat, conf: Messages]
ReqShape(r) ==
    \/ r = NoReq
    \/ r.kind = "prevent" /\ r.at = "publish" /\ r.conf \in [blocked: BOOLEAN]
    \/ r.kind = "cap" /\ r.at = "read" /\ r.conf \in [blocked: BOOLEAN, cap: CapOrNull]
    \/ r.kind = "cap" /\ r.at = "publish" /\ r.conf \in [blocked: BOOLEAN, cap: AnyCap]
    \/ r.kind = "gcap" /\ r.at = "read" /\ r.conf = NoFields
    \/ r.kind = "gcap" /\ r.at = "accounts" /\ r.value \in AnyCap /\ r.conf = [cap |-> r.value]
    \/ r.kind = "gcap" /\ r.at = "publish" /\ r.conf \in [blocked: BOOLEAN, cap: AnyCap]
    \/ r.kind = "lev" /\ r.at = "read" /\ r.conf = NoFields /\ stored.lev # Null
    \/ r.kind = "lev" /\ r.at = "publish" /\ r.conf \in [lev: Levs]

\* In a trusted group it holds what the store says, as far as it has read.
ReqCurrent(r) ==
    /\ Trusted("block") =>
         /\ r.kind = "prevent" => r.conf.blocked = stored.blocked
         /\ r.kind = "cap" => r.conf.blocked = stored.blocked
         /\ r.kind = "cap" /\ r.at = "read" => r.conf.cap = stored.cap
         /\ r.kind = "cap" /\ r.at = "publish" => r.conf.cap = CapNow
         /\ r.kind = "gcap" /\ r.at = "accounts" => r.value = GlobalCap(stored.gcap)
         /\ r.kind = "gcap" /\ r.at = "publish" => r.conf.blocked = stored.blocked /\ r.conf.cap = CapNow
    /\ Trusted("lev") => (r.kind = "lev" /\ r.at = "publish" => r.conf.lev = stored.lev)

ReqInv == \A h \in Handlers : ReqShape(req[h]) /\ ReqCurrent(req[h])

\* So does a message.
MsgCurrent(m) ==
    /\ Trusted("block") /\ "blocked" \in DOMAIN m => m.blocked = stored.blocked
    /\ Trusted("block") /\ "cap" \in DOMAIN m => m.cap = CapNow
    /\ Trusted("lev") /\ "lev" \in DOMAIN m => m.lev = stored.lev

MsgInv ==
    \A s \in Pushes : chan[s] \in Seq(Pushed) /\ \A i \in 1..Len(chan[s]) : MsgCurrent(chan[s][i])

\* A cache entry no write has overtaken holds what is stored.
CacheInv ==
    /\ \A k \in {"lev", "magic"} : cache[k].warm /\ ~cache[k].old => cache[k].value = stored[k]
    /\ stored.lev = Null => cache["lev"].value = Null

\* What an answer holds of each group when it has read it.
ReadLev(c) == "lev" \in tainted \cup fresh /\ ("lev" \in fresh => c.lev = stored.lev)
ReadMagic(c) == "magic" \in tainted \cup fresh /\ ("magic" \in fresh => c.magic = stored.magic)
ReadBlock(c, cap) ==
    /\ "block" \in tainted \cup fresh
    /\ "block" \in fresh => c.blocked = stored.blocked /\ c.cap = cap

\* Nothing is fresh before it was read, but for a leverage found missing by a
\* handshake that ended with it.
Unread == fresh \subseteq {"lev"} /\ ("lev" \in fresh => stored.lev = Null)

\* The handshake, or the answer it has left in the worker's inbox.
Answer(c) == c \in Config /\ ReadLev(c) /\ ReadMagic(c) /\ ReadBlock(c, CapNow)
HsInv ==
    /\ hs.at = "crypto" => Unread
    /\ hs.at = "magic" => ReadLev(hs.conf) /\ fresh \subseteq {"lev"}
    /\ hs.at = "settings" => ReadLev(hs.conf) /\ ReadMagic(hs.conf) /\ "block" \notin fresh
    /\ hs.at = "global" => /\ ReadLev(hs.conf) /\ ReadMagic(hs.conf) /\ ReadBlock(hs.conf, stored.cap)
                           /\ hs.conf.cap \in CapOrNull
    /\ hs.at = "ack" => Answer(hs.conf)
    /\ hs.at = "none" /\ chan["inbox"] = <<>> => Unread

InboxInv ==
    \/ chan["inbox"] = <<>>
    \/ conn = "asking" /\ hs.at = "none" /\ chan["inbox"] = <<NoFields>> /\ Unread
    \/ conn = "asking" /\ hs.at = "none" /\ \E c \in Config : chan["inbox"] = <<c>> /\ Answer(c)

ConnInv ==
    /\ conn = "off" => \A s \in Subjects : chan[s] = <<>>
    /\ conn = "on" => hs.at = "none"

\* Something is coming that will set the field.
Sets(r) ==
    CASE r.kind = "prevent" -> {"blocked"}
      [] r.kind \in {"cap", "gcap"} -> {"blocked", "cap"}
      [] r.kind = "lev" -> {"lev"}
      [] OTHER -> {}
Pending(f) ==
    \/ \E s \in Pushes : \E i \in 1..Len(chan[s]) : f \in DOMAIN chan[s][i]
    \/ \E h \in Handlers : f \in Sets(req[h])

WorkerInv ==
    conn = "on" =>
        /\ "block" \notin tainted => /\ worker.blocked = stored.blocked \/ Pending("blocked")
                                     /\ worker.cap = CapNow \/ Pending("cap")
        /\ "lev" \notin tainted => worker.lev = stored.lev \/ Pending("lev")
        /\ "magic" \notin tainted => worker.magic = stored.magic

Typed ==
    /\ stored \in Stored /\ gateway \in BOOLEAN
    /\ cache \in [{"lev", "magic"} -> Entry]
    /\ worker \in Config /\ conn \in {"off", "asking", "on"}
    /\ hs \in [at: Stages, conf: Config]
    /\ req \in [Handlers -> Requests]
    /\ DOMAIN chan = Subjects /\ chan = [s \in Subjects |-> chan[s]]
    /\ tainted \subseteq Groups /\ fresh \subseteq Groups
    /\ writes \in 0..MaxWrites /\ asks \in 0..MaxAsks /\ faults \in 0..MaxFaults

IInv == Typed /\ ReqInv /\ MsgInv /\ CacheInv /\ HsInv /\ InboxInv /\ ConnInv /\ WorkerInv


\* A step keeps what is on its way to be believed: a group trusted after it was
\* trusted and not written, or has nothing on its way.
Kept ==
    /\ Trusted("block")' => \/ ~InFlight("block")
                            \/ /\ Trusted("block") /\ stored'.blocked = stored.blocked
                               /\ stored'.cap = stored.cap /\ stored'.gcap = stored.gcap
    /\ Trusted("lev")' => ~InFlight("lev") \/ (Trusted("lev") /\ stored'.lev = stored.lev)
    /\ stored.lev # Null => stored'.lev # Null

\* A step keeps what the answer has read.
AnswerKept ==
    /\ fresh' \subseteq fresh /\ tainted \subseteq tainted' /\ fresh \subseteq fresh' \cup tainted'
    /\ "block" \in fresh' => /\ stored'.blocked = stored.blocked
                             /\ stored'.cap = stored.cap /\ stored'.gcap = stored.gcap
    /\ "lev" \in fresh' => stored'.lev = stored.lev
    /\ "magic" \in fresh' => stored'.magic = stored.magic

-----------------------------------------------------------------------------
(* Values and messages.                                                    *)

\* The fields of a message tell its kind.
LEMMA PushedShape ==
    ASSUME NEW m \in Pushed
    PROVE  /\ m \in Messages
           /\ "magic" \notin DOMAIN m
           /\ "blocked" \in DOMAIN m => m.blocked \in BOOLEAN
           /\ "cap" \in DOMAIN m => m.cap \in AnyCap /\ "blocked" \in DOMAIN m
           /\ "lev" \in DOMAIN m => m.lev \in Levs
           /\ \A f \in DOMAIN m : f \in {"blocked", "cap", "lev"}
<1>1. CASE m \in [blocked: BOOLEAN]
  <2>1. DOMAIN m = {"blocked"}
    BY <1>1
  <2> QED
    BY <1>1, <2>1 DEF Messages
<1>2. CASE m \in [blocked: BOOLEAN, cap: AnyCap]
  <2>1. DOMAIN m = {"blocked", "cap"}
    BY <1>2
  <2> QED
    BY <1>2, <2>1 DEF Messages
<1>3. CASE m \in [lev: Levs]
  <2>1. DOMAIN m = {"lev"}
    BY <1>3
  <2> QED
    BY <1>3, <2>1 DEF Messages
<1> QED
  BY <1>1, <1>2, <1>3 DEF Pushed

\* A resolved cap is a cap, and one that is set.
LEMMA CapsResolve ==
    ASSUME NEW own \in CapOrNull, NEW raw \in CapOrNull
    PROVE  /\ GlobalCap(raw) \in AnyCap \ {Null} /\ GlobalCap(raw) \in Nat
           /\ ResolveCap(own, GlobalCap(raw)) \in AnyCap
BY SettingsAssumption DEF GlobalCap, ResolveCap, AnyCap, CapOrNull, Null, DefaultCap

\* Nothing of the account's block is on its way.
LEMMA NoBlock ==
    ASSUME IInv, ~InFlight("block")
    PROVE  /\ \A h \in Handlers : req[h].kind \notin {"prevent", "cap"} /\ (req[h].kind = "gcap" => req[h].at = "read")
           /\ \A s \in Pushes : \A i \in 1..Len(chan[s]) :
                 "blocked" \notin DOMAIN chan[s][i] /\ "cap" \notin DOMAIN chan[s][i]
<1>1. ASSUME NEW m, NEW f \in DOMAIN m, f \in {"blocked", "cap"} PROVE "block" \in GroupsIn(m)
  BY <1>1 DEF GroupsIn, GroupOfField
<1>2. ASSUME NEW h \in Handlers
      PROVE  req[h].kind \notin {"prevent", "cap"} /\ (req[h].kind = "gcap" => req[h].at = "read")
  <2> PICK r : r = req[h]
    OBVIOUS
  <2>1. "blocked" \notin DOMAIN r.conf /\ "cap" \notin DOMAIN r.conf
    BY <1>1 DEF InFlight
  <2>2. ReqShape(r)
    BY DEF IInv, ReqInv
  <2>3. ASSUME NEW c, c \in [blocked: BOOLEAN] \/ c \in [blocked: BOOLEAN, cap: AnyCap] \/ c \in [blocked: BOOLEAN, cap: CapOrNull]
        PROVE  "blocked" \in DOMAIN c
    BY <2>3
  <2>4. r.conf = [cap |-> r.value] => "cap" \in DOMAIN r.conf
    OBVIOUS
  <2> QED
    BY <2>1, <2>2, <2>3, <2>4 DEF ReqShape, NoReq
<1>3. ASSUME NEW s \in Pushes, NEW i \in 1..Len(chan[s])
      PROVE  "blocked" \notin DOMAIN chan[s][i] /\ "cap" \notin DOMAIN chan[s][i]
  <2>1. s \in DOMAIN chan /\ i \in DOMAIN chan[s]
    BY DEF IInv, Typed, MsgInv, Pushes, Subjects
  <2> QED
    BY <1>1, <2>1 DEF InFlight
<1> QED
  BY <1>2, <1>3

\* Nothing of the leverage is on its way.
LEMMA NoLev ==
    ASSUME IInv, ~InFlight("lev")
    PROVE  /\ \A h \in Handlers : req[h].kind = "lev" => req[h].at = "read"
           /\ \A s \in Pushes : \A i \in 1..Len(chan[s]) : "lev" \notin DOMAIN chan[s][i]
<1>1. ASSUME NEW m, "lev" \in DOMAIN m PROVE "lev" \in GroupsIn(m)
  BY <1>1 DEF GroupsIn, GroupOfField
<1>2. ASSUME NEW h \in Handlers, req[h].kind = "lev" PROVE req[h].at = "read"
  <2> PICK r : r = req[h]
    OBVIOUS
  <2>1. "lev" \notin DOMAIN r.conf
    BY <1>1 DEF InFlight
  <2>2. ReqShape(r)
    BY DEF IInv, ReqInv
  <2>3. r.conf \in [lev: Levs] => "lev" \in DOMAIN r.conf
    OBVIOUS
  <2> QED
    BY <1>2, <2>1, <2>2, <2>3 DEF ReqShape, NoReq
<1>3. ASSUME NEW s \in Pushes, NEW i \in 1..Len(chan[s]) PROVE "lev" \notin DOMAIN chan[s][i]
  <2>1. s \in DOMAIN chan /\ i \in DOMAIN chan[s]
    BY DEF IInv, Typed, MsgInv, Pushes, Subjects
  <2> QED
    BY <1>1, <2>1 DEF InFlight
<1> QED
  BY <1>2, <1>3

-----------------------------------------------------------------------------
(* What a step leaves standing.                                            *)

\* A request that does not move stays current.
LEMMA ReqStays ==
    ASSUME IInv, Kept, NEW h \in Handlers, NEW r, r = req[h]
    PROVE  ReqShape(r)' /\ ReqCurrent(r)'
<1>1. ReqShape(r) /\ ReqCurrent(r)
  BY DEF IInv, ReqInv
<1>2. ReqShape(r)'
  BY <1>1 DEF ReqShape, Kept
<1>3. Trusted("block")' => \/ r.kind \notin {"prevent", "cap"} /\ (r.kind = "gcap" => r.at = "read")
                           \/ /\ Trusted("block") /\ stored'.blocked = stored.blocked
                              /\ stored'.cap = stored.cap /\ stored'.gcap = stored.gcap
  BY NoBlock DEF Kept
<1>4. Trusted("lev")' => (r.kind = "lev" => r.at = "read") \/ (Trusted("lev") /\ stored'.lev = stored.lev)
  BY NoLev DEF Kept
<1> QED
  BY <1>1, <1>2, <1>3, <1>4 DEF ReqCurrent, CapNow

\* So does a message.
LEMMA MsgStays ==
    ASSUME IInv, Kept, NEW s \in Pushes, NEW i \in 1..Len(chan[s]), NEW m, m = chan[s][i]
    PROVE  MsgCurrent(m)'
<1>1. MsgCurrent(m)
  BY DEF IInv, MsgInv
<1>2. Trusted("block")' => \/ "blocked" \notin DOMAIN m /\ "cap" \notin DOMAIN m
                           \/ /\ Trusted("block") /\ stored'.blocked = stored.blocked
                              /\ stored'.cap = stored.cap /\ stored'.gcap = stored.gcap
  BY NoBlock DEF Kept
<1>3. Trusted("lev")' => "lev" \notin DOMAIN m \/ (Trusted("lev") /\ stored'.lev = stored.lev)
  BY NoLev DEF Kept
<1> QED
  BY <1>1, <1>2, <1>3 DEF MsgCurrent, CapNow

\* Requests that all stand still.
LEMMA ReqsStay ==
    ASSUME IInv, Kept, req' = req
    PROVE  ReqInv'
<1> SUFFICES ASSUME NEW h \in Handlers PROVE ReqShape(req[h])' /\ ReqCurrent(req[h])'
  BY DEF ReqInv
<1>1. PICK r : r = req[h]
  OBVIOUS
<1>2. ReqShape(r)' /\ ReqCurrent(r)'
  BY <1>1, ReqStays
<1> QED
  BY <1>1, <1>2 DEF ReqShape, ReqCurrent

\* A subject nothing is sent to.
LEMMA MsgsStay ==
    ASSUME IInv, Kept, NEW s \in Pushes, chan'[s] = chan[s]
    PROVE  chan'[s] \in Seq(Pushed) /\ \A i \in 1..Len(chan'[s]) : MsgCurrent(chan[s][i])'
<1>1. chan'[s] \in Seq(Pushed)
  BY DEF IInv, MsgInv
<1> SUFFICES ASSUME NEW i \in 1..Len(chan'[s]) PROVE MsgCurrent(chan[s][i])'
  BY <1>1
<1>2. PICK m : m = chan[s][i]
  OBVIOUS
<1>3. MsgCurrent(m)'
  BY <1>2, MsgStays
<1> QED
  BY <1>2, <1>3 DEF MsgCurrent

\* What an answer has read.
LEMMA AnswerStays ==
    ASSUME IInv, AnswerKept, NEW c
    PROVE  /\ ReadLev(c) => ReadLev(c)'
           /\ ReadMagic(c) => ReadMagic(c)'
           /\ ReadBlock(c, stored.cap) => ReadBlock(c, stored.cap)'
           /\ ReadBlock(c, CapNow) => ReadBlock(c, CapNow)'
           /\ Answer(c) => Answer(c)'
           /\ Unread => Unread'
BY DEF AnswerKept, ReadLev, ReadMagic, ReadBlock, Answer, Unread, CapNow

\* The handshake while nobody works on it.
LEMMA HandshakeStays ==
    ASSUME IInv, AnswerKept, hs' = hs, conn' = conn, chan'["inbox"] = chan["inbox"]
    PROVE  HsInv' /\ InboxInv'
<1>1. PICK c : c = hs.conf
  OBVIOUS
<1>2. HsInv'
  <2>1. /\ hs.at = "crypto" => Unread'
        /\ hs.at = "magic" => ReadLev(c)' /\ fresh' \subseteq {"lev"}
        /\ hs.at = "settings" => ReadLev(c)' /\ ReadMagic(c)' /\ "block" \notin fresh'
        /\ hs.at = "global" => ReadLev(c)' /\ ReadMagic(c)' /\ ReadBlock(c, stored.cap)' /\ c.cap \in CapOrNull
        /\ hs.at = "ack" => Answer(c)'
        /\ hs.at = "none" /\ chan["inbox"] = <<>> => Unread'
    BY <1>1, AnswerStays DEF IInv, HsInv, AnswerKept
  <2> QED
    BY <1>1, <2>1 DEF HsInv, ReadLev, ReadMagic, ReadBlock, Answer
<1>3. InboxInv'
  <2>1. CASE chan["inbox"] = <<>>
    BY <2>1 DEF InboxInv
  <2>2. CASE conn = "asking" /\ hs.at = "none" /\ chan["inbox"] = <<NoFields>> /\ Unread
    BY <2>2, AnswerStays DEF InboxInv
  <2>3. ASSUME NEW d \in Config, conn = "asking", hs.at = "none", chan["inbox"] = <<d>>, Answer(d) PROVE InboxInv'
    BY <2>3, AnswerStays DEF InboxInv
  <2> QED
    BY <2>1, <2>2, <2>3 DEF IInv, InboxInv
<1> QED
  BY <1>2, <1>3

\* The worker while it gets nothing and the store does not change.
LEMMA WorkerStays ==
    ASSUME IInv, conn' = conn, worker' = worker, stored' = stored, tainted \subseteq tainted',
           "block" \notin tainted' => \A f \in {"blocked", "cap"} : Pending(f) => Pending(f)',
           "lev" \notin tainted' => (Pending("lev") => Pending("lev")')
    PROVE  WorkerInv'
BY DEF IInv, WorkerInv, CapNow

-----------------------------------------------------------------------------
(* The initial state.                                                      *)

\* IInv holds initially.
LEMMA InitIInv == Init => IInv
<1> SUFFICES ASSUME Init PROVE IInv
  OBVIOUS
<1>1. (CHOOSE m \in Levs : TRUE) \in Levs
  BY SettingsAssumption
<1>2. Typed
  <2>1. stored \in Stored
    BY <1>1 DEF Init, Stored, CapOrNull
  <2>2. cache \in [{"lev", "magic"} -> Entry]
    BY DEF Init, Cold, Entry, LevOrNull
  <2>3. Blank \in Config
    BY DEF Blank, Config, AnyCap, CapOrNull, LevOrNull
  <2>4. hs \in [at: Stages, conf: Config] /\ worker \in Config
    BY <2>3 DEF Init, NoHandshake, Stages
  <2>5. NoReq \in Requests
    BY DEF NoReq, Requests, Messages, Null
  <2>6. req \in [Handlers -> Requests]
    BY <2>5 DEF Init
  <2>7. DOMAIN chan = Subjects /\ chan = [s \in Subjects |-> chan[s]]
    BY DEF Init, Subjects
  <2>8. writes \in 0..MaxWrites /\ asks \in 0..MaxAsks /\ faults \in 0..MaxFaults
    BY SettingsAssumption DEF Init
  <2>9. gateway \in BOOLEAN /\ conn \in {"off", "asking", "on"} /\ tainted \subseteq Groups /\ fresh \subseteq Groups
    BY DEF Init
  <2> QED
    BY <2>1, <2>2, <2>4, <2>6, <2>7, <2>8, <2>9 DEF Typed
<1>3. ReqInv
  <2>1. \A h \in Handlers : req[h] = NoReq
    BY DEF Init
  <2>2. NoReq.kind = "none" /\ ReqShape(NoReq)
    BY DEF NoReq, ReqShape
  <2>3. ReqCurrent(NoReq)
    BY <2>2 DEF ReqCurrent
  <2> QED
    BY <2>1, <2>2, <2>3 DEF ReqInv
<1>4. MsgInv
  BY DEF Init, MsgInv, Pushes
<1>5. CacheInv
  BY DEF Init, CacheInv, Cold
<1>6. HsInv /\ InboxInv /\ ConnInv /\ WorkerInv
  BY DEF Init, NoHandshake, HsInv, Unread, InboxInv, ConnInv, Subjects, WorkerInv
<1> QED
  BY <1>2, <1>3, <1>4, <1>5, <1>6 DEF IInv

-----------------------------------------------------------------------------
(* The worker.                                                             *)

\* A step of the worker that leaves the trust in every group where it was.
LEMMA SameTrust ==
    ASSUME IInv, stored' = stored, \A g \in Groups : Trusted(g)' => Trusted(g)
    PROVE  Kept
BY DEF Kept, Groups

\* What the worker runs on after a pushed message.
LEMMA Applied ==
    ASSUME NEW w \in Config, NEW m \in Pushed, NEW v,
           v = [f \in DOMAIN w |-> IF f \in DOMAIN m THEN m[f] ELSE w[f]]
    PROVE  /\ v \in Config
           /\ v.blocked = IF "blocked" \in DOMAIN m THEN m.blocked ELSE w.blocked
           /\ v.cap = IF "cap" \in DOMAIN m THEN m.cap ELSE w.cap
           /\ v.lev = IF "lev" \in DOMAIN m THEN m.lev ELSE w.lev
           /\ v.magic = w.magic
<1>1. DOMAIN w = {"blocked", "cap", "lev", "magic"}
  BY DEF Config
<1>2. /\ v.blocked = IF "blocked" \in DOMAIN m THEN m.blocked ELSE w.blocked
      /\ v.cap = IF "cap" \in DOMAIN m THEN m.cap ELSE w.cap
      /\ v.lev = IF "lev" \in DOMAIN m THEN m.lev ELSE w.lev
      /\ v.magic = w.magic
  BY <1>1, PushedShape
<1>3. v.blocked \in BOOLEAN /\ v.cap \in AnyCap /\ v.lev \in LevOrNull /\ v.magic \in LevOrNull
  BY <1>2, PushedShape DEF Config, LevOrNull
<1>4. v = [blocked |-> v.blocked, cap |-> v.cap, lev |-> v.lev, magic |-> v.magic]
  BY <1>1
<1> QED
  BY <1>2, <1>3, <1>4 DEF Config

\* The worker takes a pushed message.
LEMMA ReceiveInv ==
    ASSUME IInv, NEW s \in DOMAIN chan, Receive(s)
    PROVE  IInv'
<1>1. s \in Pushes /\ DOMAIN chan = Subjects /\ chan = [x \in Subjects |-> chan[x]]
  BY DEF Receive, IInv, Typed, Subjects, Pushes
<1>2. chan[s] \in Seq(Pushed) /\ chan[s] # <<>>
  BY <1>1 DEF Receive, IInv, MsgInv
<1>3. PICK m : m = Head(chan[s])
  OBVIOUS
<1>4. m = chan[s][1] /\ m \in Pushed /\ 1 \in 1..Len(chan[s])
  BY <1>2, <1>3
<1>5. /\ worker \in Config
      /\ worker' = [f \in DOMAIN worker |-> IF f \in DOMAIN m THEN m[f] ELSE worker[f]]
  BY <1>3 DEF Receive, IInv, Typed
<1>6. /\ worker' \in Config
      /\ worker'.blocked = IF "blocked" \in DOMAIN m THEN m.blocked ELSE worker.blocked
      /\ worker'.cap = IF "cap" \in DOMAIN m THEN m.cap ELSE worker.cap
      /\ worker'.lev = IF "lev" \in DOMAIN m THEN m.lev ELSE worker.lev
      /\ worker'.magic = worker.magic
  BY <1>4, <1>5, Applied
<1>7. chan' = [x \in Subjects |-> IF x = s THEN Tail(chan[s]) ELSE chan[x]]
  BY <1>1 DEF Receive
<1>8. /\ \A x \in Subjects : x # s => chan'[x] = chan[x]
      /\ chan'[s] = Tail(chan[s]) /\ chan'["inbox"] = chan["inbox"] /\ DOMAIN chan' = Subjects
      /\ chan' = [x \in Subjects |-> chan'[x]]
  BY <1>1, <1>7 DEF Pushes, Subjects
<1>9. UNCHANGED <<stored, gateway, cache, conn, hs, req, tainted, fresh, writes, asks, faults>>
  BY DEF Receive
<1>10. Kept /\ AnswerKept
  BY <1>9, SameTrust DEF AnswerKept, Trusted
<1>11. Typed'
  BY <1>6, <1>8, <1>9 DEF IInv, Typed
<1>12. MsgInv'
  <2> SUFFICES ASSUME NEW x \in Pushes
               PROVE  chan'[x] \in Seq(Pushed) /\ \A i \in 1..Len(chan'[x]) : MsgCurrent(chan[x][i])'
    BY DEF MsgInv
  <2>1. CASE x # s
    BY <2>1, <1>8, <1>10, MsgsStay DEF Pushes, Subjects
  <2>2. CASE x = s
    <3>1. chan'[x] \in Seq(Pushed) /\ Len(chan'[x]) = Len(chan[s]) - 1
      BY <2>2, <1>2, <1>8
    <3>2. ASSUME NEW i \in 1..Len(chan'[x]) PROVE MsgCurrent(chan[x][i])'
      <4>1. PICK y : y = chan[s][i + 1]
        OBVIOUS
      <4>2. i + 1 \in 1..Len(chan[s]) /\ chan'[x][i] = y
        BY <2>2, <3>1, <4>1, <1>2, <1>8
      <4>3. MsgCurrent(y)'
        BY <4>1, <4>2, <1>1, <1>10, MsgStays
      <4> QED
        BY <4>2, <4>3 DEF MsgCurrent
    <3> QED
      BY <3>1, <3>2
  <2> QED
    BY <2>1, <2>2
<1>13. CacheInv' /\ ConnInv'
  BY <1>2, <1>8, <1>9 DEF IInv, CacheInv, ConnInv, Subjects
<1>14. HsInv' /\ InboxInv'
  BY <1>8, <1>9, <1>10, HandshakeStays
<1>15. WorkerInv'
  <2>1. MsgCurrent(m) /\ WorkerInv
    BY <1>1, <1>4 DEF IInv, MsgInv
  <2>2. ASSUME NEW f, Pending(f), f \notin DOMAIN m PROVE Pending(f)'
    <3>1. CASE \E h \in Handlers : f \in Sets(req[h])
      BY <3>1, <1>9 DEF Pending, Sets
    <3>2. ASSUME NEW x \in Pushes, NEW i \in 1..Len(chan[x]), f \in DOMAIN chan[x][i] PROVE Pending(f)'
      <4>1. CASE x # s
        BY <3>2, <4>1, <1>8 DEF Pending, Pushes, Subjects
      <4>2. CASE x = s
        <5>1. i # 1 /\ i \in 1..Len(chan[s])
          BY <3>2, <4>2, <2>2, <1>4
        <5>2. i - 1 \in 1..Len(chan'[s]) /\ chan'[s][i - 1] = chan[s][i]
          BY <5>1, <1>2, <1>8
        <5> QED
          BY <3>2, <4>2, <5>2 DEF Pending
      <4> QED
        BY <4>1, <4>2
    <3> QED
      BY <2>2, <3>1, <3>2 DEF Pending
  <2> QED
    BY <1>6, <1>9, <2>1, <2>2 DEF WorkerInv, MsgCurrent, Trusted, CapNow
<1> QED
  BY <1>9, <1>10, <1>11, <1>12, <1>13, <1>14, <1>15, ReqsStay DEF IInv

\* Subjects that were emptied.
LEMMA EmptySubjects ==
    ASSUME \A s \in Pushes : chan'[s] = <<>>
    PROVE  MsgInv'
<1> SUFFICES ASSUME NEW s \in Pushes
             PROVE  chan'[s] \in Seq(Pushed) /\ \A i \in 1..Len(chan'[s]) : MsgCurrent(chan[s][i])'
  BY DEF MsgInv
<1>1. PICK c : c = chan'[s] /\ c = <<>>
  OBVIOUS
<1>2. c \in Seq(Pushed) /\ Len(c) = 0
  BY <1>1
<1>3. 1..Len(chan'[s]) = {}
  BY <1>1, <1>2
<1> QED
  BY <1>1, <1>2, <1>3

\* The worker takes its answer; an answer makes every group it read trusted.
LEMMA ReceiveAnswerInv ==
    ASSUME IInv, ReceiveAnswer
    PROVE  IInv'
<1>1. DOMAIN chan = Subjects /\ chan = [x \in Subjects |-> chan[x]] /\ chan["inbox"] # <<>>
  BY DEF ReceiveAnswer, IInv, Typed
<1>2. UNCHANGED <<stored, gateway, cache, hs, req, writes, asks, faults>> /\ fresh' = {}
  BY DEF ReceiveAnswer
<1>3. CASE conn = "asking" /\ hs.at = "none" /\ chan["inbox"] = <<NoFields>> /\ Unread
  <2>1. conn' = "off" /\ UNCHANGED <<worker, tainted>> /\ chan' = [s \in DOMAIN chan |-> <<>>]
    BY <1>3 DEF ReceiveAnswer
  <2>2. /\ \A s \in Subjects : chan'[s] = <<>>
        /\ DOMAIN chan' = Subjects /\ chan' = [x \in Subjects |-> chan'[x]]
    BY <1>1, <2>1
  <2>3. Kept
    BY <1>2, <2>1, SameTrust DEF Trusted
  <2>4. Typed'
    BY <1>2, <2>1, <2>2 DEF IInv, Typed
  <2>5. CacheInv' /\ ConnInv' /\ HsInv' /\ InboxInv' /\ WorkerInv'
    BY <1>2, <1>3, <2>1, <2>2 DEF IInv, CacheInv, ConnInv, HsInv, InboxInv, WorkerInv, Unread, Subjects
  <2>6. MsgInv'
    BY <2>2, EmptySubjects DEF Pushes, Subjects
  <2> QED
    BY <1>2, <2>3, <2>4, <2>5, <2>6, ReqsStay DEF IInv
<1>4. ASSUME NEW c \in Config, conn = "asking", hs.at = "none", chan["inbox"] = <<c>>, Answer(c) PROVE IInv'
  <2>1. c # NoFields
    <3>1. "lev" \in DOMAIN c /\ "lev" \notin DOMAIN NoFields
      BY DEF Config, NoFields
    <3> QED
      BY <3>1
  <2>2. conn' = "on" /\ worker' = c /\ tainted' = tainted \ fresh /\ chan' = [chan EXCEPT !["inbox"] = <<>>]
    BY <1>4, <2>1 DEF ReceiveAnswer
  <2>3. /\ \A s \in Pushes : chan'[s] = chan[s]
        /\ chan'["inbox"] = <<>>
        /\ DOMAIN chan' = Subjects /\ chan' = [x \in Subjects |-> chan'[x]]
    BY <1>1, <2>2 DEF Subjects, Pushes
  <2>4. Kept
    BY <1>2, <2>2, SameTrust DEF Trusted
  <2>5. Typed'
    BY <1>2, <2>2, <2>3 DEF IInv, Typed
  <2>6. CacheInv' /\ ConnInv' /\ HsInv' /\ InboxInv'
    BY <1>2, <1>4, <2>2, <2>3 DEF IInv, CacheInv, ConnInv, HsInv, InboxInv, Unread
  <2>7. WorkerInv'
    BY <1>2, <1>4, <2>2 DEF WorkerInv, Answer, ReadLev, ReadMagic, ReadBlock, CapNow
  <2>8. MsgInv'
    BY <2>3, <2>4, MsgsStay DEF MsgInv
  <2> QED
    BY <1>2, <2>4, <2>5, <2>6, <2>7, <2>8, ReqsStay DEF IInv
<1> QED
  BY <1>1, <1>3, <1>4 DEF IInv, InboxInv

\* The connection is lost with everything on its way.
LEMMA DisconnectInv ==
    ASSUME IInv, Disconnect
    PROVE  IInv'
<1>1. UNCHANGED <<stored, gateway, cache, worker, hs, req, tainted, writes, asks, faults>> /\ conn' = "off"
  BY DEF Disconnect
<1>2. fresh' = (IF hs.at = "none" THEN {} ELSE fresh) /\ chan' = [s \in DOMAIN chan |-> <<>>]
  BY DEF Disconnect
<1>3. /\ \A s \in Subjects : chan'[s] = <<>>
      /\ DOMAIN chan' = Subjects /\ chan' = [x \in Subjects |-> chan'[x]]
  BY <1>2 DEF IInv, Typed
<1>4. Kept
  BY <1>1, <1>2, SameTrust DEF Trusted
<1>5. Typed'
  BY <1>1, <1>2, <1>3 DEF IInv, Typed
<1>6. CacheInv' /\ ConnInv' /\ WorkerInv' /\ InboxInv'
  BY <1>1, <1>3 DEF IInv, CacheInv, ConnInv, InboxInv, WorkerInv, Subjects
<1>7. HsInv'
  BY <1>1, <1>2, <1>3 DEF IInv, HsInv, Unread, ReadLev, ReadMagic, ReadBlock, Answer, CapNow, Subjects
<1>8. MsgInv'
  BY <1>3, EmptySubjects DEF Pushes, Subjects
<1> QED
  BY <1>1, <1>4, <1>5, <1>6, <1>7, <1>8, ReqsStay DEF IInv

\* The count of faults.
LEMMA FaultCount ==
    ASSUME IInv, NEW ok \in BOOLEAN, OrFault(ok)
    PROVE  faults' \in 0..MaxFaults
BY SettingsAssumption DEF IInv, Typed, OrFault, Fault

\* The worker announces itself.
LEMMA ConnectInv ==
    ASSUME IInv, NEW ok \in BOOLEAN, Connect(ok)
    PROVE  IInv'
<1>1. /\ conn = "off" /\ hs.at = "none" /\ conn' = "asking" /\ hs' = [at |-> "crypto", conf |-> Blank]
      /\ UNCHANGED <<stored, cache, worker, req, chan, tainted, fresh, writes>>
  BY DEF Connect
<1>2. Kept
  BY <1>1, SameTrust DEF Trusted
<1>3. Typed'
  <2>1. Blank \in Config
    BY DEF Blank, Config, AnyCap, CapOrNull, LevOrNull
  <2>2. hs' \in [at: Stages, conf: Config]
    BY <1>1, <2>1 DEF Stages
  <2>3. asks' \in 0..MaxAsks /\ gateway' \in BOOLEAN /\ faults' \in 0..MaxFaults
    BY FaultCount, SettingsAssumption DEF IInv, Typed, Connect
  <2> QED
    BY <1>1, <2>2, <2>3 DEF IInv, Typed
<1>4. MsgInv'
  BY <1>1, <1>2, MsgsStay DEF MsgInv
<1>5. CacheInv' /\ ConnInv' /\ WorkerInv'
  BY <1>1 DEF IInv, CacheInv, ConnInv, WorkerInv
<1>6. HsInv' /\ InboxInv'
  BY <1>1 DEF IInv, ConnInv, HsInv, InboxInv, Unread, Subjects
<1> QED
  BY <1>1, <1>2, <1>3, <1>4, <1>5, <1>6, ReqsStay DEF IInv

-----------------------------------------------------------------------------
(* The handshake.                                                          *)

\* A group the handshake reads is fresh or tainted afterwards, and becomes
\* trusted only when nothing of it is on its way.
LEMMA ReadKeeps ==
    ASSUME IInv, NEW g \in Groups, NEW good \in BOOLEAN, ReadGroup(g, good), stored' = stored
    PROVE  /\ Kept
           /\ tainted \subseteq tainted' /\ fresh \subseteq fresh'
           /\ tainted' \subseteq Groups /\ fresh' \subseteq fresh \cup {g} /\ fresh' \subseteq Groups
           /\ g \in tainted' \cup fresh'
           /\ g \in fresh' => g \in fresh \/ good
<1>1. /\ tainted' = IF good THEN tainted ELSE tainted \cup {g}
      /\ fresh' = IF good /\ ~(g \in tainted /\ InFlight(g)) THEN fresh \cup {g} ELSE fresh
  BY DEF ReadGroup
<1>2. ASSUME NEW x \in Groups, Trusted(x)' PROVE Trusted(x) \/ ~InFlight(x)
  BY <1>1, <1>2 DEF Trusted
<1>3. Kept
  BY <1>2 DEF Kept, Groups
<1>4. tainted \subseteq Groups /\ fresh \subseteq Groups
  BY DEF IInv, Typed
<1> QED
  BY <1>1, <1>3, <1>4

\* A read through a cache: an entry that is not old holds what is stored.
LEMMA CachedReadGives ==
    ASSUME IInv, NEW k \in {"lev", "magic"}, NEW hit \in BOOLEAN, NEW ok \in BOOLEAN,
           CachedRead(k, hit, ok, stored[k])
    PROVE  \E e \in Entry :
              /\ cache' = [cache EXCEPT ![k] = e]
              /\ ~e.old => e.value = stored[k]
              /\ k = "lev" /\ stored.lev = Null => e.value = Null
              /\ ReadGroup(k, ~e.old)
              /\ hs' = [hs EXCEPT !.conf[k] = e.value,
                                  !.at = IF k = "magic" THEN "settings"
                                         ELSE IF e.value = Null THEN "none" ELSE "magic"]
<1>1. PICK e : e = IF hit THEN cache[k]
                   ELSE [warm |-> TRUE, value |-> IF ok THEN stored[k] ELSE Null, old |-> ~ok]
  OBVIOUS
<1>2. stored[k] \in LevOrNull
  BY DEF IInv, Typed, Stored, LevOrNull
<1>3. e \in Entry /\ (~e.old => e.value = stored[k]) /\ (k = "lev" /\ stored.lev = Null => e.value = Null)
  <2>1. CASE hit
    <3>1. e = cache[k] /\ cache[k].warm
      BY <1>1, <2>1 DEF CachedRead
    <3> QED
      BY <3>1 DEF IInv, Typed, CacheInv
  <2>2. CASE ~hit
    <3>1. e = [warm |-> TRUE, value |-> IF ok THEN stored[k] ELSE Null, old |-> ~ok]
      BY <1>1, <2>2
    <3> QED
      BY <3>1, <1>2 DEF Entry, LevOrNull
  <2> QED
    BY <2>1, <2>2
<1> QED
  BY <1>1, <1>3 DEF CachedRead

\* The caches after such a read.
LEMMA CacheAfterRead ==
    ASSUME IInv, NEW k \in {"lev", "magic"}, NEW e \in Entry, cache' = [cache EXCEPT ![k] = e], stored' = stored,
           ~e.old => e.value = stored[k], k = "lev" /\ stored.lev = Null => e.value = Null
    PROVE  CacheInv' /\ cache' \in [{"lev", "magic"} -> Entry]
<1>1. cache \in [{"lev", "magic"} -> Entry] /\ CacheInv
  BY DEF IInv, Typed
<1>2. cache'[k] = e /\ \A x \in {"lev", "magic"} : x # k => cache'[x] = cache[x]
  BY <1>1
<1> QED
  BY <1>1, <1>2 DEF CacheInv

\* nc.publish.
LEMMA SendGives ==
    ASSUME IInv, NEW s \in Subjects, NEW m, Send(s, m)
    PROVE  /\ DOMAIN chan' = Subjects /\ chan' = [x \in Subjects |-> chan'[x]]
           /\ \A x \in Subjects : x # s => chan'[x] = chan[x]
           /\ chan'[s] = IF conn = "off" THEN chan[s] ELSE Append(chan[s], m)
<1>1. DOMAIN chan = Subjects /\ chan = [x \in Subjects |-> chan[x]]
  BY DEF IInv, Typed
<1>2. CASE conn = "off"
  BY <1>1, <1>2 DEF Send
<1>3. CASE conn # "off"
  <2>1. chan' = [x \in Subjects |-> IF x = s THEN Append(chan[s], m) ELSE chan[x]]
    BY <1>1, <1>3 DEF Send
  <2> QED
    BY <1>3, <2>1
<1> QED
  BY <1>2, <1>3

\* A handshake under way: its worker is not served yet.
LEMMA HandshakeRuns ==
    ASSUME IInv, hs.at # "none"
    PROVE  conn # "on" /\ chan["inbox"] = <<>> /\ hs \in [at: Stages, conf: Config]
BY DEF IInv, ConnInv, InboxInv, Typed

\* The leverage is read, or found missing.
LEMMA BuildCryptoLeverageInv ==
    ASSUME IInv, NEW hit \in BOOLEAN, NEW ok \in BOOLEAN, BuildCryptoLeverage(hit, ok)
    PROVE  IInv'
<1>1. /\ hs.at = "crypto" /\ CachedRead("lev", hit, ok, stored["lev"]) /\ RejectUnconfigured(hs'.conf)
      /\ UNCHANGED <<stored, gateway, worker, conn, req, writes, asks>>
  BY DEF BuildCryptoLeverage
<1>2. PICK e \in Entry :
         /\ cache' = [cache EXCEPT !["lev"] = e]
         /\ ~e.old => e.value = stored.lev
         /\ stored.lev = Null => e.value = Null
         /\ ReadGroup("lev", ~e.old)
         /\ hs' = [hs EXCEPT !.conf["lev"] = e.value,
                             !.at = IF "lev" = "magic" THEN "settings"
                                    ELSE IF e.value = Null THEN "none" ELSE "magic"]
  BY <1>1, CachedReadGives
<1>3. /\ hs \in [at: Stages, conf: Config] /\ conn # "on" /\ chan["inbox"] = <<>> /\ Unread
  BY <1>1, HandshakeRuns DEF IInv, HsInv
<1>4. /\ hs'.conf = [hs.conf EXCEPT !.lev = e.value] /\ hs'.conf.lev = e.value
      /\ hs'.at = IF e.value = Null THEN "none" ELSE "magic"
      /\ hs' \in [at: Stages, conf: Config]
  <2>1. e.value \in LevOrNull
    BY DEF Entry
  <2>2. hs' = [at |-> IF e.value = Null THEN "none" ELSE "magic", conf |-> [hs.conf EXCEPT !.lev = e.value]]
    BY <1>2, <1>3
  <2> QED
    BY <1>3, <2>1, <2>2 DEF Config, Stages
<1>5. /\ Kept /\ tainted \subseteq tainted' /\ fresh \subseteq fresh'
      /\ tainted' \subseteq Groups /\ fresh' \subseteq fresh \cup {"lev"} /\ fresh' \subseteq Groups
      /\ "lev" \in tainted' \cup fresh' /\ ("lev" \in fresh' => "lev" \in fresh \/ ~e.old)
  BY <1>1, <1>2, ReadKeeps DEF Groups, Entry
<1>6. CacheInv' /\ cache' \in [{"lev", "magic"} -> Entry]
  BY <1>1, <1>2, CacheAfterRead
<1>7. faults' \in 0..MaxFaults
  BY <1>1, FaultCount DEF CachedRead
<1>8. /\ DOMAIN chan' = Subjects /\ chan' = [x \in Subjects |-> chan'[x]]
      /\ \A x \in Pushes : chan'[x] = chan[x]
      /\ chan'["inbox"] = IF e.value = Null /\ conn # "off" THEN <<NoFields>> ELSE <<>>
      /\ conn = "off" => \A x \in Subjects : chan'[x] = <<>>
  <2>1. CASE e.value = Null
    <3>1. Send("inbox", NoFields)
      BY <1>1, <1>4, <2>1 DEF RejectUnconfigured
    <3>2. /\ DOMAIN chan' = Subjects /\ chan' = [x \in Subjects |-> chan'[x]]
          /\ \A x \in Subjects : x # "inbox" => chan'[x] = chan[x]
          /\ chan'["inbox"] = IF conn = "off" THEN chan["inbox"] ELSE Append(chan["inbox"], NoFields)
      BY <3>1, SendGives DEF Subjects
    <3>3. Append(<<>>, NoFields) = <<NoFields>>
      OBVIOUS
    <3> QED
      BY <1>3, <2>1, <3>2, <3>3 DEF Pushes, Subjects, IInv, ConnInv
  <2>2. CASE e.value # Null
    BY <1>1, <1>3, <1>4, <2>2 DEF RejectUnconfigured, IInv, Typed, ConnInv, Pushes, Subjects
  <2> QED
    BY <2>1, <2>2
<1>9. Typed'
  BY <1>1, <1>4, <1>5, <1>6, <1>7, <1>8 DEF IInv, Typed
<1>10. MsgInv'
  BY <1>5, <1>8, MsgsStay DEF MsgInv
<1>11. ConnInv' /\ WorkerInv'
  BY <1>1, <1>3, <1>8 DEF IInv, ConnInv, WorkerInv
<1>12. e.value = Null => Unread'
  BY <1>1, <1>2, <1>3, <1>5 DEF Unread
<1>13. HsInv'
  <2>1. e.value # Null => fresh' \subseteq {"lev"} /\ ReadLev(hs.conf)'
    BY <1>1, <1>2, <1>3, <1>4, <1>5 DEF Unread, ReadLev
  <2> QED
    BY <1>4, <1>12, <2>1 DEF HsInv
<1>14. InboxInv'
  BY <1>1, <1>3, <1>4, <1>8, <1>12 DEF InboxInv, IInv, Typed
<1> QED
  BY <1>1, <1>5, <1>6, <1>9, <1>10, <1>11, <1>13, <1>14, ReqsStay DEF IInv

\* The magic map is read.
LEMMA BuildMagicMapInv ==
    ASSUME IInv, NEW hit \in BOOLEAN, NEW ok \in BOOLEAN, BuildMagicMap(hit, ok)
    PROVE  IInv'
<1>1. /\ hs.at = "magic" /\ CachedRead("magic", hit, ok, stored["magic"])
      /\ UNCHANGED <<stored, gateway, worker, conn, req, chan, writes, asks>>
  BY DEF BuildMagicMap
<1>2. PICK e \in Entry :
         /\ cache' = [cache EXCEPT !["magic"] = e]
         /\ ~e.old => e.value = stored.magic
         /\ ReadGroup("magic", ~e.old)
         /\ hs' = [hs EXCEPT !.conf["magic"] = e.value,
                             !.at = IF "magic" = "magic" THEN "settings"
                                    ELSE IF e.value = Null THEN "none" ELSE "magic"]
  BY <1>1, CachedReadGives
<1>3. /\ hs \in [at: Stages, conf: Config] /\ conn # "on" /\ chan["inbox"] = <<>>
      /\ ReadLev(hs.conf) /\ fresh \subseteq {"lev"}
  BY <1>1, HandshakeRuns DEF IInv, HsInv
<1>4. /\ hs'.at = "settings" /\ hs' \in [at: Stages, conf: Config]
      /\ hs'.conf.magic = e.value /\ hs'.conf.lev = hs.conf.lev
  <2>1. e.value \in LevOrNull
    BY DEF Entry
  <2>2. hs' = [at |-> "settings", conf |-> [hs.conf EXCEPT !.magic = e.value]]
    BY <1>2, <1>3
  <2> QED
    BY <1>3, <2>1, <2>2 DEF Config, Stages
<1>5. /\ Kept /\ tainted \subseteq tainted' /\ fresh \subseteq fresh'
      /\ tainted' \subseteq Groups /\ fresh' \subseteq fresh \cup {"magic"} /\ fresh' \subseteq Groups
      /\ "magic" \in tainted' \cup fresh' /\ ("magic" \in fresh' => "magic" \in fresh \/ ~e.old)
  BY <1>1, <1>2, ReadKeeps DEF Groups, Entry
<1>6. CacheInv' /\ cache' \in [{"lev", "magic"} -> Entry]
  BY <1>1, <1>2, CacheAfterRead
<1>7. faults' \in 0..MaxFaults
  BY <1>1, FaultCount DEF CachedRead
<1>8. Typed'
  BY <1>1, <1>4, <1>5, <1>6, <1>7 DEF IInv, Typed
<1>9. MsgInv'
  BY <1>1, <1>5, MsgsStay DEF MsgInv
<1>10. ConnInv' /\ WorkerInv' /\ InboxInv'
  BY <1>1, <1>3 DEF IInv, ConnInv, WorkerInv, InboxInv
<1>11. HsInv'
  <2>1. ReadLev(hs.conf)' /\ ReadMagic(hs.conf)' /\ "block" \notin fresh'
    BY <1>1, <1>2, <1>3, <1>4, <1>5 DEF ReadLev, ReadMagic
  <2> QED
    BY <1>4, <2>1 DEF HsInv
<1> QED
  BY <1>1, <1>5, <1>6, <1>8, <1>9, <1>10, <1>11, ReqsStay DEF IInv

\* The account's own settings are read.
LEMMA BuildAccountSettingsInv ==
    ASSUME IInv, NEW ok \in BOOLEAN, BuildAccountSettings(ok)
    PROVE  IInv'
<1>1. /\ hs.at = "settings" /\ OrFault(ok) /\ ReadGroup("block", ok)
      /\ hs' = [hs EXCEPT !.at = "global",
                          !.conf.blocked = ok /\ stored.blocked,
                          !.conf.cap = IF ok THEN stored.cap ELSE Null]
      /\ UNCHANGED <<stored, gateway, cache, worker, conn, req, chan, writes, asks>>
  BY DEF BuildAccountSettings
<1>2. /\ hs \in [at: Stages, conf: Config] /\ conn # "on" /\ chan["inbox"] = <<>>
      /\ ReadLev(hs.conf) /\ ReadMagic(hs.conf) /\ "block" \notin fresh
  BY <1>1, HandshakeRuns DEF IInv, HsInv
<1>3. /\ hs'.at = "global" /\ hs' \in [at: Stages, conf: Config]
      /\ hs'.conf.magic = hs.conf.magic /\ hs'.conf.lev = hs.conf.lev
      /\ hs'.conf.blocked = (ok /\ stored.blocked) /\ hs'.conf.cap = IF ok THEN stored.cap ELSE Null
      /\ hs'.conf.cap \in CapOrNull
  <2>1. (ok /\ stored.blocked) \in BOOLEAN /\ (IF ok THEN stored.cap ELSE Null) \in CapOrNull
    BY DEF IInv, Typed, Stored, CapOrNull
  <2>2. hs' = [at |-> "global",
               conf |-> [blocked |-> (ok /\ stored.blocked), cap |-> IF ok THEN stored.cap ELSE Null,
                         lev |-> hs.conf.lev, magic |-> hs.conf.magic]]
    BY <1>1, <1>2 DEF Config
  <2> QED
    BY <1>2, <2>1, <2>2 DEF Config, Stages, AnyCap
<1>4. /\ Kept /\ tainted \subseteq tainted' /\ fresh \subseteq fresh'
      /\ tainted' \subseteq Groups /\ fresh' \subseteq fresh \cup {"block"} /\ fresh' \subseteq Groups
      /\ "block" \in tainted' \cup fresh' /\ ("block" \in fresh' => "block" \in fresh \/ ok)
  BY <1>1, ReadKeeps DEF Groups
<1>5. Typed'
  BY <1>1, <1>3, <1>4, FaultCount DEF IInv, Typed
<1>6. MsgInv'
  BY <1>1, <1>4, MsgsStay DEF MsgInv
<1>7. CacheInv' /\ ConnInv' /\ WorkerInv' /\ InboxInv'
  BY <1>1, <1>2 DEF IInv, CacheInv, ConnInv, WorkerInv, InboxInv
<1>8. HsInv'
  <2>1. ReadLev(hs.conf)' /\ ReadMagic(hs.conf)'
    BY <1>1, <1>2, <1>3, <1>4 DEF ReadLev, ReadMagic
  <2>2. ok => (ok /\ stored.blocked) = stored.blocked
    BY Zenon DEF IInv, Typed, Stored
  <2>3. ok => hs'.conf.blocked = stored.blocked /\ hs'.conf.cap = stored.cap
    BY <1>3, <2>2
  <2>4. ReadBlock(hs.conf, stored.cap)'
    BY <1>1, <1>2, <1>4, <2>3 DEF ReadBlock
  <2> QED
    BY <1>3, <2>1, <2>4 DEF HsInv
<1> QED
  BY <1>1, <1>4, <1>5, <1>6, <1>7, <1>8, ReqsStay DEF IInv

\* A call that fails leaves its group tainted.
LEMMA TaintKeeps ==
    ASSUME IInv, NEW g \in Groups, NEW ok \in BOOLEAN, TaintUnless(ok, g), stored' = stored
    PROVE  /\ Kept /\ AnswerKept
           /\ tainted' \subseteq Groups /\ fresh' \subseteq Groups /\ tainted \subseteq tainted'
           /\ ~ok => ~Trusted(g)'
<1>1. /\ tainted' = IF ok THEN tainted ELSE tainted \cup {g}
      /\ fresh' = IF ok THEN fresh ELSE fresh \ {g}
  BY DEF TaintUnless
<1>2. \A x \in Groups : Trusted(x)' => Trusted(x)
  BY <1>1 DEF Trusted
<1>3. tainted \subseteq Groups /\ fresh \subseteq Groups
  BY DEF IInv, Typed
<1> QED
  BY <1>1, <1>2, <1>3, SameTrust DEF AnswerKept, Trusted

\* The broker-wide cap is read and the answer resolved.
LEMMA ReadGlobalCapInv ==
    ASSUME IInv, NEW ok \in BOOLEAN, ReadGlobalCap(ok)
    PROVE  IInv'
<1>1. /\ hs.at = "global" /\ OrFault(ok) /\ TaintUnless(ok, "block")
      /\ hs' = [hs EXCEPT !.at = "ack",
                  !.conf.cap = ResolveCap(@, GlobalCap(IF ok THEN stored.gcap ELSE Null))]
      /\ UNCHANGED <<stored, gateway, cache, worker, conn, req, chan, writes, asks>>
  BY DEF ReadGlobalCap
<1>2. /\ hs \in [at: Stages, conf: Config] /\ conn # "on" /\ chan["inbox"] = <<>>
      /\ ReadLev(hs.conf) /\ ReadMagic(hs.conf) /\ ReadBlock(hs.conf, stored.cap) /\ hs.conf.cap \in CapOrNull
  BY <1>1, HandshakeRuns DEF IInv, HsInv
<1>3. PICK new : new = ResolveCap(hs.conf.cap, GlobalCap(IF ok THEN stored.gcap ELSE Null))
  OBVIOUS
<1>4. new \in AnyCap
  <2>1. (IF ok THEN stored.gcap ELSE Null) \in CapOrNull
    BY DEF IInv, Typed, Stored, CapOrNull
  <2> QED
    BY <1>2, <1>3, <2>1, CapsResolve
<1>5. /\ hs'.at = "ack" /\ hs' \in [at: Stages, conf: Config]
      /\ hs'.conf.magic = hs.conf.magic /\ hs'.conf.lev = hs.conf.lev
      /\ hs'.conf.blocked = hs.conf.blocked /\ hs'.conf.cap = new
  <2>1. hs' = [at |-> "ack",
               conf |-> [blocked |-> hs.conf.blocked, cap |-> new, lev |-> hs.conf.lev, magic |-> hs.conf.magic]]
    BY <1>1, <1>2, <1>3 DEF Config
  <2> QED
    BY <1>2, <1>4, <2>1 DEF Config, Stages
<1>6. Kept /\ AnswerKept /\ tainted' \subseteq Groups /\ fresh' \subseteq Groups /\ (~ok => ~Trusted("block")')
  BY <1>1, TaintKeeps DEF Groups
<1>7. Typed'
  BY <1>1, <1>5, <1>6, FaultCount DEF IInv, Typed
<1>8. MsgInv'
  BY <1>1, <1>6, MsgsStay DEF MsgInv
<1>9. CacheInv' /\ ConnInv' /\ WorkerInv' /\ InboxInv'
  BY <1>1, <1>2 DEF IInv, CacheInv, ConnInv, WorkerInv, InboxInv
<1>10. HsInv'
  <2>1. ReadLev(hs.conf)' /\ ReadMagic(hs.conf)'
    BY <1>1, <1>2, <1>5, <1>6 DEF ReadLev, ReadMagic, AnswerKept
  <2>2. ReadBlock(hs.conf, CapNow)'
    BY <1>1, <1>2, <1>3, <1>5, <1>6 DEF ReadBlock, AnswerKept, Trusted, CapNow
  <2> QED
    BY <1>5, <2>1, <2>2 DEF HsInv, Answer
<1> QED
  BY <1>1, <1>6, <1>7, <1>8, <1>9, <1>10, ReqsStay DEF IInv

\* The answer is sent, or lost.
LEMMA ReplyAckInv ==
    ASSUME IInv, NEW ok \in BOOLEAN, ReplyAck(ok)
    PROVE  IInv'
<1>1. /\ hs.at = "ack" /\ OrFault(ok) /\ hs' = NoHandshake
      /\ fresh' = IF ok /\ conn # "off" THEN fresh ELSE {}
      /\ UNCHANGED <<stored, gateway, cache, worker, req, tainted, writes, asks>>
  BY DEF ReplyAck
<1>2. /\ hs \in [at: Stages, conf: Config] /\ conn # "on" /\ chan["inbox"] = <<>> /\ Answer(hs.conf)
  BY <1>1, HandshakeRuns DEF IInv, HsInv
<1>3. hs' \in [at: Stages, conf: Config] /\ hs'.at = "none"
  BY <1>1 DEF NoHandshake, Stages, Blank, Config, AnyCap, CapOrNull, LevOrNull
<1>4. Kept
  BY <1>1, SameTrust DEF Trusted
<1>5. CacheInv'
  BY <1>1 DEF IInv, CacheInv
<1>6. CASE ok /\ conn = "asking"
  <2>1. Send("inbox", hs.conf) /\ conn' = conn /\ fresh' = fresh
    BY <1>1, <1>6 DEF ReplyAck
  <2>2. /\ DOMAIN chan' = Subjects /\ chan' = [x \in Subjects |-> chan'[x]]
        /\ \A x \in Subjects : x # "inbox" => chan'[x] = chan[x]
        /\ chan'["inbox"] = Append(chan["inbox"], hs.conf)
    BY <1>6, <2>1, SendGives DEF Subjects
  <2>3. chan'["inbox"] = <<hs.conf>>
    BY <1>2, <2>2
  <2>4. Typed'
    BY <1>1, <1>3, <2>1, <2>2, FaultCount DEF IInv, Typed
  <2>5. MsgInv'
    BY <1>4, <2>2, MsgsStay DEF MsgInv, Pushes, Subjects
  <2>6. ConnInv' /\ WorkerInv'
    BY <1>6, <2>1 DEF ConnInv, WorkerInv
  <2>7. HsInv'
    BY <1>3, <2>3 DEF HsInv
  <2>8. InboxInv'
    <3>1. PICK c \in Config : c = hs.conf
      BY <1>2
    <3>2. AnswerKept
      BY <1>1, <2>1 DEF AnswerKept
    <3>3. Answer(c)'
      BY <1>2, <3>1, <3>2, AnswerStays
    <3> QED
      BY <1>3, <1>6, <2>1, <2>3, <3>1, <3>3 DEF InboxInv
  <2> QED
    BY <1>1, <1>4, <1>5, <2>4, <2>5, <2>6, <2>7, <2>8, ReqsStay DEF IInv
<1>7. CASE ~ok \/ conn = "off"
  <2>1. /\ conn' = "off" /\ fresh' = {} /\ \A s \in Subjects : chan'[s] = <<>>
        /\ DOMAIN chan' = Subjects /\ chan' = [x \in Subjects |-> chan'[x]]
    <3>1. CASE ~ok
      BY <1>1, <3>1 DEF ReplyAck, IInv, Typed
    <3>2. CASE ok
      <4>1. Send("inbox", hs.conf) /\ conn' = conn /\ conn = "off"
        BY <1>7, <3>2 DEF ReplyAck
      <4> QED
        BY <1>1, <4>1 DEF Send, IInv, Typed, ConnInv
    <3> QED
      BY <3>1, <3>2
  <2>2. Typed'
    BY <1>1, <1>3, <2>1, FaultCount DEF IInv, Typed
  <2>3. MsgInv'
    BY <2>1, EmptySubjects DEF Pushes, Subjects
  <2>4. ConnInv' /\ WorkerInv' /\ HsInv' /\ InboxInv'
    BY <1>3, <2>1 DEF ConnInv, WorkerInv, HsInv, InboxInv, Unread, Subjects
  <2> QED
    BY <1>1, <1>4, <1>5, <2>2, <2>3, <2>4, ReqsStay DEF IInv
<1> QED
  BY <1>2, <1>6, <1>7 DEF IInv, Typed

-----------------------------------------------------------------------------
(* Requests.                                                               *)

\* One request moves, the others stay.
LEMMA ReqMoves ==
    ASSUME IInv, Kept, NEW h \in Handlers, NEW w \in Requests, req' = [req EXCEPT ![h] = w],
           ReqShape(w)', ReqCurrent(w)'
    PROVE  ReqInv' /\ req' \in [Handlers -> Requests]
<1>1. req \in [Handlers -> Requests]
  BY DEF IInv, Typed
<1>2. req'[h] = w /\ \A x \in Handlers : x # h => req'[x] = req[x]
  BY <1>1
<1>3. ASSUME NEW x \in Handlers PROVE ReqShape(req[x])' /\ ReqCurrent(req[x])'
  <2>1. CASE x = h
    BY <2>1, <1>2 DEF ReqShape, ReqCurrent
  <2>2. CASE x # h
    <3>1. PICK r : r = req[x]
      OBVIOUS
    <3>2. ReqShape(r)' /\ ReqCurrent(r)'
      BY <3>1, ReqStays
    <3> QED
      BY <2>2, <1>2, <3>1, <3>2 DEF ReqShape, ReqCurrent
  <2> QED
    BY <2>1, <2>2
<1> QED
  BY <1>1, <1>3 DEF ReqInv

\* What is coming is still coming when a request moves on.
LEMMA StillPending ==
    ASSUME IInv, NEW h \in Handlers, NEW w, req' = [req EXCEPT ![h] = w],
           chan' = chan, NEW f, f \in Sets(req[h]) => f \in Sets(w), Pending(f)
    PROVE  Pending(f)'
<1>1. req'[h] = w /\ \A x \in Handlers : x # h => req'[x] = req[x]
  BY DEF IInv, Typed
<1>2. CASE \E s \in Pushes : \E i \in 1..Len(chan[s]) : f \in DOMAIN chan[s][i]
  BY <1>2 DEF Pending
<1>3. ASSUME NEW x \in Handlers, f \in Sets(req[x]) PROVE Pending(f)'
  <2>1. f \in Sets(req'[x])
    BY <1>1, <1>3
  <2> QED
    BY <2>1 DEF Pending, Sets
<1> QED
  BY <1>2, <1>3 DEF Pending

\* The fields a request sets.
LEMMA SetsOf ==
    ASSUME NEW r
    PROVE  /\ r.kind = "none" => Sets(r) = {}
           /\ r.kind = "prevent" => Sets(r) = {"blocked"}
           /\ r.kind \in {"cap", "gcap"} => Sets(r) = {"blocked", "cap"}
           /\ r.kind = "lev" => Sets(r) = {"lev"}
BY DEF Sets

\* A write overtakes what is on its way, in the answer and in the caches.
LEMMA OvertakeKeeps ==
    ASSUME IInv, NEW g \in Groups, Overtake(g), stored' \in Stored,
           g # "block" => stored'.blocked = stored.blocked /\ stored'.cap = stored.cap /\ stored'.gcap = stored.gcap,
           g # "lev" => stored'.lev = stored.lev,
           g # "magic" => stored'.magic = stored.magic,
           stored.lev # Null => stored'.lev # Null
    PROVE  /\ Kept /\ AnswerKept /\ CacheInv' /\ cache' \in [{"lev", "magic"} -> Entry]
           /\ tainted' \subseteq Groups /\ fresh' \subseteq Groups /\ tainted \subseteq tainted'
           /\ Trusted(g)' => ~InFlight(g) /\ g # "magic"
<1>1. /\ tainted' = IF InFlight(g) \/ g = "magic" THEN tainted \cup {g} ELSE tainted
      /\ fresh' = fresh \ {g}
      /\ cache' = [k \in DOMAIN cache |->
                     IF k = g /\ cache[k].warm THEN [cache[k] EXCEPT !.old = TRUE] ELSE cache[k]]
  BY DEF Overtake
<1>2. tainted \subseteq Groups /\ fresh \subseteq Groups /\ cache \in [{"lev", "magic"} -> Entry] /\ CacheInv
  BY DEF IInv, Typed
<1>3. Trusted(g)' => ~InFlight(g) /\ g # "magic"
  BY <1>1 DEF Trusted
<1>4. \A x \in Groups : x # g => (Trusted(x)' => Trusted(x))
  BY <1>1 DEF Trusted
<1>5. Kept
  BY <1>3, <1>4 DEF Kept, Groups
<1>6. AnswerKept
  <2>1. g \in fresh => InFlight(g)
    BY DEF InFlight
  <2> QED
    BY <1>1, <2>1 DEF AnswerKept
<1>7. ASSUME NEW k \in {"lev", "magic"}
      PROVE  /\ cache'[k] \in Entry /\ cache'[k].warm = cache[k].warm /\ cache'[k].value = cache[k].value
             /\ k = g /\ cache[k].warm => cache'[k].old
             /\ k # g => cache'[k] = cache[k]
  <2>1. cache[k] \in Entry /\ cache'[k] = IF k = g /\ cache[k].warm THEN [cache[k] EXCEPT !.old = TRUE] ELSE cache[k]
    BY <1>1, <1>2
  <2> QED
    BY <2>1 DEF Entry
<1>8. cache' \in [{"lev", "magic"} -> Entry]
  <2>1. cache' = [k \in {"lev", "magic"} |-> cache'[k]]
    BY <1>1, <1>2
  <2> QED
    BY <1>7, <2>1
<1>9. CacheInv'
  <2>1. ASSUME NEW k \in {"lev", "magic"}, cache'[k].warm, ~cache'[k].old PROVE cache'[k].value = stored'[k]
    BY <2>1, <1>2, <1>7 DEF CacheInv
  <2>2. stored'.lev = Null => cache'["lev"].value = Null
    BY <1>2, <1>7 DEF CacheInv
  <2> QED
    BY <2>1, <2>2 DEF CacheInv
<1> QED
  BY <1>1, <1>2, <1>3, <1>5, <1>6, <1>8, <1>9

\* The store after a write: only the setting the request is about changes.
LEMMA MergeGives ==
    ASSUME NEW s \in Stored, NEW kind \in Kinds, NEW v \in Values(kind), NEW n, n = Merge(s, kind, v)
    PROVE  /\ n \in Stored /\ v \in Nat
           /\ kind # "prevent" => n.blocked = s.blocked
           /\ kind # "cap" => n.cap = s.cap
           /\ kind # "gcap" => n.gcap = s.gcap
           /\ kind # "lev" => n.lev = s.lev
           /\ kind # "magic" => n.magic = s.magic
           /\ kind = "prevent" => n.blocked = (v # Null)
           /\ kind = "cap" => n.cap = v /\ v \in CapOrNull
           /\ kind = "lev" => n.lev # Null
<1> USE DEF Stored, CapOrNull, LevOrNull, Null
<1>1. CASE kind = "prevent"
  <2>1. PICK b \in BOOLEAN : b = (v # Null)
    OBVIOUS
  <2>2. n = [s EXCEPT !.blocked = b] /\ v \in {0, 1}
    BY <1>1, <2>1 DEF Merge, Values
  <2>3. n \in Stored /\ n.blocked = b /\ n.cap = s.cap /\ n.gcap = s.gcap /\ n.lev = s.lev /\ n.magic = s.magic
    BY <2>2
  <2> QED
    BY <1>1, <2>1, <2>2, <2>3
<1>2. CASE kind = "cap"
  <2>1. n = [s EXCEPT !.cap = v] /\ v \in CapOrNull
    BY <1>2 DEF Merge, Values
  <2> QED
    BY <1>2, <2>1, SettingsAssumption
<1>3. CASE kind = "gcap"
  <2>1. n = [s EXCEPT !.gcap = v] /\ v \in Caps
    BY <1>3 DEF Merge, Values
  <2> QED
    BY <1>3, <2>1, SettingsAssumption
<1>4. CASE kind = "lev"
  <2>1. n = [s EXCEPT !.lev = v] /\ v \in Levs
    BY <1>4 DEF Merge, Values
  <2> QED
    BY <1>4, <2>1, SettingsAssumption
<1>5. CASE kind = "magic"
  <2>1. n = [s EXCEPT !.magic = v] /\ v \in Levs
    BY <1>5 DEF Merge, Values
  <2> QED
    BY <1>5, <2>1, SettingsAssumption
<1> QED
  BY <1>1, <1>2, <1>3, <1>4, <1>5 DEF Kinds

\* The request a write leaves behind.
LEMMA WrittenReq ==
    ASSUME NEW h \in Handlers, NEW kind \in Kinds, NEW v \in Nat, Write(h, kind, v, TRUE)
    PROVE  \E w : /\ req' = [req EXCEPT ![h] = w]
                  /\ kind = "magic" => w = NoReq
                  /\ kind = "prevent" =>
                        w = [kind |-> "prevent", at |-> "publish", value |-> v, conf |-> [blocked |-> (v # Null)]]
                  /\ kind = "cap" =>
                        w = [kind |-> "cap", at |-> "read", value |-> v, conf |-> [blocked |-> stored.blocked, cap |-> v]]
                  /\ kind \in {"gcap", "lev"} =>
                        w = [kind |-> kind, at |-> "read", value |-> v, conf |-> NoFields]
BY DEF Write

\* A write that fails changes nothing.
LEMMA WriteFailsInv ==
    ASSUME IInv, NEW h \in Handlers, NEW kind \in Kinds, NEW v \in Values(kind), Write(h, kind, v, FALSE)
    PROVE  IInv'
<1>1. /\ req[h] = NoReq /\ req' = [req EXCEPT ![h] = NoReq] /\ writes < MaxWrites /\ writes' = writes + 1
      /\ OrFault(FALSE)
      /\ UNCHANGED <<stored, tainted, fresh, cache, gateway, worker, conn, hs, chan, asks>>
  BY DEF Write
<1>2. req' = req
  BY <1>1 DEF IInv, Typed
<1>3. Kept /\ AnswerKept
  BY <1>1, SameTrust DEF AnswerKept, Trusted
<1>4. writes' \in 0..MaxWrites /\ faults' \in 0..MaxFaults
  <2>1. faults' \in 0..MaxFaults
    BY <1>1, FaultCount
  <2> QED
    BY <1>1, <2>1, SettingsAssumption DEF IInv, Typed
<1>5. Typed'
  BY <1>1, <1>2, <1>4 DEF IInv, Typed
<1>6. MsgInv'
  BY <1>1, <1>3, MsgsStay DEF MsgInv
<1>7. CacheInv' /\ ConnInv'
  BY <1>1 DEF IInv, CacheInv, ConnInv
<1>8. HsInv' /\ InboxInv'
  BY <1>1, <1>3, HandshakeStays
<1>9. WorkerInv'
  BY <1>1, <1>2 DEF IInv, WorkerInv, CapNow, Pending, Sets
<1> QED
  BY <1>2, <1>3, <1>5, <1>6, <1>7, <1>8, <1>9, ReqsStay DEF IInv

\* A write, and the request it leaves behind.
LEMMA WriteInv ==
    ASSUME IInv, NEW h \in Handlers, NEW kind \in Kinds, NEW v \in Values(kind), Write(h, kind, v, TRUE)
    PROVE  IInv'
<1>1. /\ req[h] = NoReq /\ writes < MaxWrites /\ writes' = writes + 1 /\ faults' = faults
      /\ stored' = Merge(stored, kind, v) /\ Overtake(GroupOf(kind))
      /\ UNCHANGED <<gateway, worker, conn, hs, chan, asks>>
  BY DEF Write, OrFault
<1>2. /\ stored' \in Stored /\ v \in Nat
      /\ kind # "prevent" => stored'.blocked = stored.blocked
      /\ kind # "cap" => stored'.cap = stored.cap
      /\ kind # "gcap" => stored'.gcap = stored.gcap
      /\ kind # "lev" => stored'.lev = stored.lev
      /\ kind # "magic" => stored'.magic = stored.magic
      /\ kind = "prevent" => stored'.blocked = (v # Null)
      /\ kind = "cap" => stored'.cap = v /\ v \in CapOrNull
      /\ kind = "lev" => stored'.lev # Null
  BY <1>1, MergeGives DEF IInv, Typed
<1>3. PICK g \in Groups : g = GroupOf(kind) /\ g = (IF kind \in {"lev", "magic"} THEN kind ELSE "block")
  BY DEF GroupOf, Groups, Kinds
<1>4. /\ Kept /\ AnswerKept /\ CacheInv' /\ cache' \in [{"lev", "magic"} -> Entry]
      /\ tainted' \subseteq Groups /\ fresh' \subseteq Groups /\ tainted \subseteq tainted'
      /\ Trusted(g)' => ~InFlight(g) /\ g # "magic"
  BY <1>1, <1>2, <1>3, OvertakeKeeps
<1>5. PICK w : /\ req' = [req EXCEPT ![h] = w]
               /\ kind = "magic" => w = NoReq
               /\ kind = "prevent" =>
                     w = [kind |-> "prevent", at |-> "publish", value |-> v, conf |-> [blocked |-> (v # Null)]]
               /\ kind = "cap" =>
                     w = [kind |-> "cap", at |-> "read", value |-> v, conf |-> [blocked |-> stored.blocked, cap |-> v]]
               /\ kind \in {"gcap", "lev"} =>
                     w = [kind |-> kind, at |-> "read", value |-> v, conf |-> NoFields]
  BY <1>2, WrittenReq
<1>6. w \in Requests /\ ReqShape(w)' /\ ReqCurrent(w)'
  <2> USE DEF Requests, ReqShape, ReqCurrent
  <2>1. CASE kind = "magic"
    BY <2>1, <1>5 DEF NoReq, Messages, Null
  <2>2. CASE kind = "prevent"
    <3>1. PICK b \in BOOLEAN : b = (v # Null)
      OBVIOUS
    <3>2. w = [kind |-> "prevent", at |-> "publish", value |-> v, conf |-> [blocked |-> b]] /\ stored'.blocked = b
      BY <2>2, <3>1, <1>2, <1>5
    <3>3. [blocked |-> b] \in [blocked: BOOLEAN]
      OBVIOUS
    <3> QED
      BY <3>2, <3>3, <1>2 DEF Kinds, Messages
  <2>3. CASE kind = "cap"
    <3>1. [blocked |-> stored.blocked, cap |-> v] \in [blocked: BOOLEAN, cap: CapOrNull]
      BY <2>3, <1>2 DEF IInv, Typed, Stored
    <3>2. [blocked |-> stored.blocked, cap |-> v] \in [blocked: BOOLEAN, cap: AnyCap]
      BY <3>1 DEF AnyCap
    <3> QED
      BY <2>3, <3>1, <3>2, <1>2, <1>5 DEF Kinds, Messages
  <2>4. CASE kind \in {"gcap", "lev"}
    BY <2>4, <1>2, <1>5 DEF Kinds, Messages
  <2> QED
    BY <2>1, <2>2, <2>3, <2>4 DEF Kinds
<1>7. ReqInv' /\ req' \in [Handlers -> Requests]
  BY <1>4, <1>5, <1>6, ReqMoves
<1>8. Typed'
  <2>1. writes' \in 0..MaxWrites
    BY <1>1, SettingsAssumption DEF IInv, Typed
  <2> QED
    BY <1>1, <1>2, <1>4, <1>7, <2>1 DEF IInv, Typed
<1>9. MsgInv'
  BY <1>1, <1>4, MsgsStay DEF MsgInv
<1>10. ConnInv'
  BY <1>1 DEF IInv, ConnInv
<1>11. HsInv' /\ InboxInv'
  BY <1>1, <1>4, HandshakeStays
<1>12. WorkerInv'
  <2>1. \A f : Pending(f) => Pending(f)'
    BY <1>1, <1>5, StillPending, SetsOf DEF NoReq
  <2>2. ASSUME NEW f, f \in Sets(w) PROVE Pending(f)'
    <3>1. req'[h] = w
      BY <1>5 DEF IInv, Typed
    <3> QED
      BY <2>2, <3>1 DEF Pending, Sets
  <2>3. /\ kind = "prevent" => Pending("blocked")'
        /\ kind \in {"cap", "gcap"} => Pending("blocked")' /\ Pending("cap")'
        /\ kind = "lev" => Pending("lev")'
    BY <2>2, <1>5, SetsOf
  <2>4. kind = "magic" => "magic" \in tainted'
    BY <1>3, <1>4 DEF Trusted
  <2> QED
    BY <1>1, <1>2, <1>4, <2>1, <2>3, <2>4 DEF IInv, WorkerInv, CapNow, Kinds
<1> QED
  BY <1>4, <1>7, <1>8, <1>9, <1>10, <1>11, <1>12 DEF IInv

\* A step of a request that sends nothing: it goes on to w, or gives up and
\* taints its group.
LEMMA RequestMoves ==
    ASSUME IInv, Kept, AnswerKept, NEW h \in Handlers, NEW w \in Requests, req' = [req EXCEPT ![h] = w],
           ReqShape(w)', ReqCurrent(w)', tainted' \subseteq Groups, fresh' \subseteq Groups,
           w.kind = req[h].kind \/ (w.kind = "none" /\ req[h].kind = "lev" /\ "lev" \in tainted'),
           UNCHANGED <<stored, gateway, cache, worker, conn, hs, chan, writes, asks>>, faults' \in 0..MaxFaults
    PROVE  IInv'
<1>1. ReqInv' /\ req' \in [Handlers -> Requests]
  BY ReqMoves
<1>2. Typed'
  BY <1>1 DEF IInv, Typed
<1>3. MsgInv'
  BY MsgsStay DEF MsgInv
<1>4. CacheInv' /\ ConnInv'
  BY DEF IInv, CacheInv, ConnInv
<1>5. HsInv' /\ InboxInv'
  BY HandshakeStays
<1>6. WorkerInv'
  <2>1. w.kind = req[h].kind => Sets(w) = Sets(req[h])
    BY DEF Sets
  <2>2. "block" \notin tainted' => \A f \in {"blocked", "cap"} : Pending(f) => Pending(f)'
    BY <2>1, StillPending, SetsOf
  <2>3. "lev" \notin tainted' => (Pending("lev") => Pending("lev")')
    BY <2>1, StillPending, SetsOf
  <2> QED
    BY <2>2, <2>3, WorkerStays DEF AnswerKept
<1> QED
  BY <1>1, <1>2, <1>3, <1>4, <1>5, <1>6 DEF IInv

\* The block of the account is read for a broker-wide cap.
LEMMA ReadAccountsInv ==
    ASSUME IInv, NEW h \in Handlers, ReadAccounts(h)
    PROVE  IInv'
<1>1. PICK r \in Requests : r = req[h]
  BY DEF IInv, Typed
<1>2. PICK w : /\ w = [r EXCEPT !.at = "publish",
                              !.conf = [blocked |-> stored.blocked, cap |-> ResolveCap(stored.cap, r.value)]]
               /\ req' = [req EXCEPT ![h] = w] /\ r.at = "accounts"
               /\ UNCHANGED <<stored, gateway, cache, worker, conn, hs, chan, tainted, fresh, writes, asks, faults>>
  BY <1>1 DEF ReadAccounts
<1>3. r.kind = "gcap" /\ r.value \in AnyCap
  <2>1. ReqShape(r)
    BY <1>1 DEF IInv, ReqInv
  <2> QED
    BY <1>2, <2>1 DEF ReqShape, NoReq
<1>4. Kept /\ AnswerKept
  BY <1>2, SameTrust DEF AnswerKept, Trusted
<1>5. stored.blocked \in BOOLEAN /\ ResolveCap(stored.cap, r.value) \in AnyCap
  BY <1>3 DEF IInv, Typed, Stored, ResolveCap, AnyCap
<1>6. PICK c \in [blocked: BOOLEAN, cap: AnyCap] :
         c = [blocked |-> stored.blocked, cap |-> ResolveCap(stored.cap, r.value)]
  BY <1>5
<1>7. /\ w \in Requests /\ w.kind = "gcap" /\ w.at = "publish" /\ w.conf = c
  BY <1>2, <1>3, <1>6 DEF Requests, Messages
<1>8. ReqShape(w)'
  BY <1>7 DEF ReqShape
<1>9. ReqCurrent(w)'
  <2>1. Trusted("block")' => r.value = GlobalCap(stored.gcap)
    BY <1>1, <1>2, <1>3 DEF IInv, ReqInv, ReqCurrent, Trusted
  <2>2. c.blocked = stored.blocked /\ c.cap = ResolveCap(stored.cap, r.value)
    BY <1>6
  <2> QED
    BY <1>2, <1>7, <2>1, <2>2 DEF ReqCurrent, CapNow
<1>10. faults' \in 0..MaxFaults /\ tainted' \subseteq Groups /\ fresh' \subseteq Groups
  BY <1>2 DEF IInv, Typed
<1> QED
  BY <1>1, <1>2, <1>3, <1>4, <1>7, <1>8, <1>9, <1>10, RequestMoves

\* The broker-wide value is read back.
LEMMA ReadBackInv ==
    ASSUME IInv, NEW h \in Handlers, NEW ok \in BOOLEAN, ReadBack(h, ok)
    PROVE  IInv'
<1>1. PICK r \in Requests : r = req[h]
  BY DEF IInv, Typed
<1>2. PICK global : global = GlobalCap(IF ok THEN stored.gcap ELSE Null)
  OBVIOUS
<1>3. /\ r.at = "read" /\ OrFault(ok) /\ TaintUnless(ok, GroupOf(r.kind))
      /\ UNCHANGED <<stored, gateway, cache, worker, conn, hs, chan, writes, asks>>
  BY <1>1 DEF ReadBack
<1>4. ReqShape(r) /\ ReqCurrent(r)
  BY <1>1 DEF IInv, ReqInv
<1>5. r.kind \in {"cap", "gcap", "lev"} /\ GroupOf(r.kind) \in Groups
  BY <1>3, <1>4 DEF ReqShape, NoReq, GroupOf, Groups
<1>6. /\ Kept /\ AnswerKept /\ tainted' \subseteq Groups /\ fresh' \subseteq Groups
      /\ ~ok => ~Trusted(GroupOf(r.kind))'
  BY <1>3, <1>5, TaintKeeps
<1>7. faults' \in 0..MaxFaults
  BY <1>3, FaultCount
<1>8. global \in AnyCap /\ global \in Nat
  <2>1. (IF ok THEN stored.gcap ELSE Null) \in CapOrNull
    BY DEF IInv, Typed, Stored, CapOrNull
  <2> QED
    BY <1>2, <2>1, CapsResolve
<1>9. ReqCurrent(r)'
  BY <1>1, <1>6, ReqStays
<1>10. CASE r.kind = "cap"
  <2>1. PICK w : w = [r EXCEPT !.at = "publish", !.conf.cap = ResolveCap(@, global)] /\ req' = [req EXCEPT ![h] = w]
    BY <1>1, <1>2, <1>10 DEF ReadBack
  <2>2. r.conf \in [blocked: BOOLEAN, cap: CapOrNull]
    BY <1>3, <1>4, <1>10 DEF ReqShape, NoReq
  <2>3. PICK c \in [blocked: BOOLEAN, cap: AnyCap] : c = [blocked |-> r.conf.blocked, cap |-> ResolveCap(r.conf.cap, global)]
    BY <2>2, <1>8 DEF ResolveCap, AnyCap
  <2>4. w \in Requests /\ w.kind = "cap" /\ w.at = "publish" /\ w.conf = c
    BY <2>1, <2>2, <2>3, <1>10 DEF Requests, Messages
  <2>5. ReqShape(w)'
    BY <2>4 DEF ReqShape
  <2>6. ReqCurrent(w)'
    <3>1. Trusted("block")' => ok
      BY <1>6, <1>10 DEF GroupOf
    <3>2. Trusted("block")' => r.conf.blocked = stored.blocked /\ r.conf.cap = stored.cap
      BY <1>3, <1>9, <1>10 DEF ReqCurrent
    <3>3. c.blocked = r.conf.blocked /\ c.cap = ResolveCap(r.conf.cap, global)
      BY <2>3
    <3> QED
      BY <1>2, <1>3, <2>4, <3>1, <3>2, <3>3 DEF ReqCurrent, CapNow
  <2> QED
    BY <1>1, <1>3, <1>6, <1>7, <1>10, <2>1, <2>4, <2>5, <2>6, RequestMoves
<1>11. CASE r.kind = "gcap"
  <2>1. PICK w : /\ w = [r EXCEPT !.at = "accounts", !.value = global, !.conf = [cap |-> global]]
                 /\ req' = [req EXCEPT ![h] = w]
    BY <1>1, <1>2, <1>11 DEF ReadBack
  <2>2. [cap |-> global] \in Messages
    BY <1>8 DEF Messages
  <2>3. w \in Requests /\ w.kind = "gcap" /\ w.at = "accounts" /\ w.value = global /\ w.conf = [cap |-> global]
    BY <2>1, <2>2, <1>8, <1>11 DEF Requests
  <2>4. ReqShape(w)'
    BY <2>3, <1>8 DEF ReqShape
  <2>5. ReqCurrent(w)'
    <3>1. Trusted("block")' => ok
      BY <1>6, <1>11 DEF GroupOf
    <3> QED
      BY <1>2, <1>3, <2>3, <3>1 DEF ReqCurrent
  <2> QED
    BY <1>1, <1>3, <1>6, <1>7, <1>11, <2>1, <2>3, <2>4, <2>5, RequestMoves
<1>12. CASE r.kind = "lev" /\ ok
  <2>1. PICK w : /\ w = [r EXCEPT !.at = "publish", !.conf = [lev |-> stored.lev]]
                 /\ req' = [req EXCEPT ![h] = w]
    BY <1>1, <1>2, <1>12 DEF ReadBack
  <2>2. stored.lev \in Levs
    BY <1>3, <1>4, <1>12 DEF ReqShape, NoReq, IInv, Typed, Stored, LevOrNull
  <2>3. PICK c \in [lev: Levs] : c = [lev |-> stored.lev]
    BY <2>2
  <2>4. w \in Requests /\ w.kind = "lev" /\ w.at = "publish" /\ w.conf = c
    BY <2>1, <2>3, <1>12 DEF Requests, Messages
  <2>5. ReqShape(w)'
    BY <2>4 DEF ReqShape
  <2>6. ReqCurrent(w)'
    BY <1>3, <2>3, <2>4 DEF ReqCurrent
  <2> QED
    BY <1>1, <1>3, <1>6, <1>7, <1>12, <2>1, <2>4, <2>5, <2>6, RequestMoves
<1>13. CASE r.kind = "lev" /\ ~ok
  <2>1. req' = [req EXCEPT ![h] = NoReq]
    BY <1>1, <1>2, <1>13 DEF ReadBack
  <2>2. NoReq \in Requests /\ NoReq.kind = "none"
    BY DEF NoReq, Requests, Messages, Null
  <2>3. ReqShape(NoReq)' /\ ReqCurrent(NoReq)'
    BY <2>2 DEF ReqShape, ReqCurrent
  <2>4. "lev" \in tainted'
    BY <1>6, <1>13 DEF GroupOf, Trusted
  <2> QED
    BY <1>1, <1>3, <1>6, <1>7, <1>13, <2>1, <2>2, <2>3, <2>4, RequestMoves
<1> QED
  BY <1>5, <1>10, <1>11, <1>12, <1>13

\* The push goes out, or its group is tainted.
LEMMA PushInv ==
    ASSUME IInv, NEW h \in Handlers, NEW ok \in BOOLEAN, Push(h, ok)
    PROVE  IInv'
<1>1. PICK r \in Requests : r = req[h]
  BY DEF IInv, Typed
<1>2. PICK sent \in BOOLEAN : sent = (ok /\ gateway)
  OBVIOUS
<1>3. PICK s \in Pushes : s = IF r.kind = "prevent" THEN "ADMIN" ELSE "SYSTEM"
  BY DEF Pushes
<1>4. /\ r.at = "publish" /\ OrFault(ok) /\ TaintUnless(sent, GroupOf(r.kind))
      /\ IF sent THEN Send(s, r.conf) ELSE UNCHANGED chan
      /\ req' = [req EXCEPT ![h] = NoReq]
      /\ UNCHANGED <<stored, gateway, cache, worker, conn, hs, writes, asks>>
  BY <1>1, <1>2, <1>3 DEF Push
<1>5. ReqShape(r)
  BY <1>1 DEF IInv, ReqInv
<1>6. PICK m \in Pushed : /\ m = r.conf /\ DOMAIN m = Sets(r)
                          /\ r.kind \in {"prevent", "cap", "gcap", "lev"}
                          /\ r.kind = "lev" => DOMAIN m = {"lev"}
                          /\ r.kind = "prevent" => DOMAIN m = {"blocked"}
                          /\ r.kind \in {"cap", "gcap"} => DOMAIN m = {"blocked", "cap"}
  <2>1. CASE r.kind = "prevent"
    <3>1. r.conf \in [blocked: BOOLEAN]
      BY <1>4, <1>5, <2>1 DEF ReqShape, NoReq
    <3>2. DOMAIN r.conf = {"blocked"} /\ r.conf \in Pushed
      BY <3>1 DEF Pushed
    <3> QED
      BY <2>1, <3>2, SetsOf
  <2>2. CASE r.kind \in {"cap", "gcap"}
    <3>1. r.conf \in [blocked: BOOLEAN, cap: AnyCap]
      BY <1>4, <1>5, <2>2 DEF ReqShape, NoReq
    <3>2. DOMAIN r.conf = {"blocked", "cap"} /\ r.conf \in Pushed
      BY <3>1 DEF Pushed
    <3> QED
      BY <2>2, <3>2, SetsOf
  <2>3. CASE r.kind = "lev"
    <3>1. r.conf \in [lev: Levs]
      BY <1>4, <1>5, <2>3 DEF ReqShape, NoReq
    <3>2. DOMAIN r.conf = {"lev"} /\ r.conf \in Pushed
      BY <3>1 DEF Pushed
    <3> QED
      BY <2>3, <3>2, SetsOf
  <2>4. r.kind \in {"prevent", "cap", "gcap", "lev"}
    BY <1>4, <1>5 DEF ReqShape, NoReq
  <2> QED
    BY <2>1, <2>2, <2>3, <2>4
<1>7. GroupOf(r.kind) \in Groups /\ GroupOf(r.kind) = IF r.kind = "lev" THEN "lev" ELSE "block"
  BY <1>6 DEF GroupOf, Groups
<1>8. /\ Kept /\ AnswerKept /\ tainted' \subseteq Groups /\ fresh' \subseteq Groups /\ tainted \subseteq tainted'
      /\ ~sent => ~Trusted(GroupOf(r.kind))'
  BY <1>4, <1>7, TaintKeeps
<1>9. ReqInv' /\ req' \in [Handlers -> Requests]
  <2>1. NoReq \in Requests /\ NoReq.kind = "none"
    BY DEF NoReq, Requests, Messages, Null
  <2>2. ReqShape(NoReq)' /\ ReqCurrent(NoReq)'
    BY <2>1 DEF ReqShape, ReqCurrent
  <2> QED
    BY <1>4, <1>8, <2>1, <2>2, ReqMoves
<1>10. MsgCurrent(m)'
  <2>1. ReqCurrent(r)'
    BY <1>1, <1>8, ReqStays
  <2> QED
    BY <1>4, <1>6, <2>1 DEF ReqCurrent, MsgCurrent
<1>11. /\ DOMAIN chan' = Subjects /\ chan' = [x \in Subjects |-> chan'[x]]
       /\ \A x \in Subjects : x # s => chan'[x] = chan[x]
       /\ chan'[s] = IF sent /\ conn # "off" THEN Append(chan[s], m) ELSE chan[s]
  BY <1>3, <1>4, <1>6, SendGives DEF IInv, Typed, Pushes, Subjects
<1>12. chan[s] \in Seq(Pushed)
  BY DEF IInv, MsgInv
<1>13. MsgInv'
  <2> SUFFICES ASSUME NEW x \in Pushes
               PROVE  chan'[x] \in Seq(Pushed) /\ \A i \in 1..Len(chan'[x]) : MsgCurrent(chan[x][i])'
    BY DEF MsgInv
  <2>1. CASE chan'[x] = chan[x]
    BY <2>1, <1>8, MsgsStay
  <2>2. CASE x = s /\ chan'[x] = Append(chan[s], m)
    <3>1. chan'[x] \in Seq(Pushed) /\ Len(chan'[x]) = Len(chan[s]) + 1
      BY <2>2, <1>12
    <3>2. ASSUME NEW i \in 1..Len(chan'[x]) PROVE MsgCurrent(chan[x][i])'
      <4>1. CASE i = Len(chan[s]) + 1
        <5>1. chan'[x][i] = m
          BY <2>2, <4>1, <1>12
        <5> QED
          BY <5>1, <1>10 DEF MsgCurrent
      <4>2. CASE i # Len(chan[s]) + 1
        <5>1. PICK y : y = chan[s][i]
          OBVIOUS
        <5>2. i \in 1..Len(chan[s]) /\ chan'[x][i] = y
          BY <2>2, <3>1, <4>2, <5>1, <1>12
        <5>3. MsgCurrent(y)'
          BY <5>1, <5>2, <1>8, MsgStays
        <5> QED
          BY <5>2, <5>3 DEF MsgCurrent
      <4> QED
        BY <4>1, <4>2
    <3> QED
      BY <3>1, <3>2
  <2> QED
    BY <1>11, <2>1, <2>2 DEF Pushes, Subjects
<1>14. Typed'
  BY <1>4, <1>8, <1>9, <1>11, FaultCount DEF IInv, Typed
<1>15. CacheInv' /\ ConnInv'
  BY <1>4, <1>11 DEF IInv, CacheInv, ConnInv, Subjects
<1>16. HsInv' /\ InboxInv'
  <2>1. chan'["inbox"] = chan["inbox"]
    BY <1>3, <1>11 DEF Subjects, Pushes
  <2> QED
    BY <1>4, <1>8, <2>1, HandshakeStays
<1>17. WorkerInv'
  <2> SUFFICES ASSUME conn = "on" PROVE WorkerInv'
    BY <1>4 DEF WorkerInv
  <2>1. ASSUME NEW f, Pending(f), sent \/ f \notin Sets(r) PROVE Pending(f)'
    <3>1. req'[h] = NoReq /\ \A x \in Handlers : x # h => req'[x] = req[x]
      BY <1>4 DEF IInv, Typed
    <3>2. ASSUME NEW x \in Handlers, f \in Sets(req[x]), x # h PROVE Pending(f)'
      <4>1. f \in Sets(req'[x])
        BY <3>1, <3>2
      <4> QED
        BY <4>1 DEF Pending, Sets
    <3>3. CASE f \in Sets(r)
      <4>1. chan'[s] = Append(chan[s], m) /\ f \in DOMAIN m
        BY <2>1, <3>3, <1>6, <1>11
      <4>2. Len(chan[s]) + 1 \in 1..Len(chan'[s]) /\ chan'[s][Len(chan[s]) + 1] = m
        BY <4>1, <1>12
      <4> QED
        BY <4>1, <4>2 DEF Pending
    <3>4. ASSUME NEW x \in Pushes, NEW i \in 1..Len(chan[x]), f \in DOMAIN chan[x][i] PROVE Pending(f)'
      <4>1. chan[x] \in Seq(Pushed)
        BY DEF IInv, MsgInv
      <4>2. chan'[x] = chan[x] \/ chan'[x] = Append(chan[x], m)
        BY <1>11 DEF Pushes, Subjects
      <4>3. i \in 1..Len(chan'[x]) /\ chan'[x][i] = chan[x][i]
        BY <4>1, <4>2
      <4> QED
        BY <3>4, <4>3 DEF Pending
    <3> QED
      BY <1>1, <2>1, <3>2, <3>3, <3>4 DEF Pending
  <2>2. "block" \notin tainted' => \A f \in {"blocked", "cap"} : Pending(f) => Pending(f)'
    BY <2>1, <1>6, <1>7, <1>8 DEF Trusted
  <2>3. "lev" \notin tainted' => (Pending("lev") => Pending("lev")')
    BY <2>1, <1>6, <1>7, <1>8 DEF Trusted
  <2> QED
    BY <1>4, <1>8, <2>2, <2>3, WorkerStays
<1> QED
  BY <1>9, <1>13, <1>14, <1>15, <1>16, <1>17 DEF IInv

-----------------------------------------------------------------------------
(* The theorems.                                                           *)

\* Every step keeps IInv.
LEMMA NextIInv == IInv /\ [Next]_vars => IInv'
<1> SUFFICES ASSUME IInv, [Next]_vars PROVE IInv'
  OBVIOUS
<1>1. ASSUME NEW ok \in BOOLEAN, Connect(ok) PROVE IInv'
  BY <1>1, ConnectInv
<1>2. CASE Disconnect
  BY <1>2, DisconnectInv
<1>3. CASE ReceiveAnswer
  BY <1>3, ReceiveAnswerInv
<1>4. ASSUME NEW s \in DOMAIN chan, Receive(s) PROVE IInv'
  BY <1>4, ReceiveInv
<1>5. CASE HandshakeStep
  BY <1>5, BuildCryptoLeverageInv, BuildMagicMapInv, BuildAccountSettingsInv, ReadGlobalCapInv, ReplyAckInv
     DEF HandshakeStep
<1>6. ASSUME NEW h \in Handlers, RequestStep(h) PROVE IInv'
  BY <1>6, ReadAccountsInv, ReadBackInv, PushInv DEF RequestStep
<1>7. ASSUME NEW h \in Handlers, NEW kind \in Kinds, NEW v \in Values(kind), NEW ok \in BOOLEAN, Write(h, kind, v, ok)
      PROVE  IInv'
  <2>1. CASE ok = TRUE
    BY <1>7, <2>1, WriteInv
  <2>2. CASE ok = FALSE
    BY <1>7, <2>2, WriteFailsInv
  <2> QED
    BY <2>1, <2>2
<1>8. CASE UNCHANGED vars
  <2>1. UNCHANGED <<stored, gateway, cache, worker, conn, hs, req, chan, tainted, fresh, writes, asks, faults>>
    BY <1>8 DEF vars
  <2>2. Typed' /\ CacheInv' /\ ConnInv'
    BY <2>1 DEF IInv, Typed, CacheInv, ConnInv
  <2>3. Kept /\ AnswerKept
    BY <2>1, SameTrust DEF AnswerKept, Trusted
  <2>4. ReqInv' /\ HsInv' /\ InboxInv'
    BY <2>1, <2>3, ReqsStay, HandshakeStays
  <2>5. MsgInv'
    BY <2>1, <2>3, MsgsStay DEF MsgInv
  <2>6. WorkerInv'
    BY <2>1 DEF IInv, WorkerInv, CapNow, Pending, Sets
  <2> QED
    BY <2>2, <2>4, <2>5, <2>6 DEF IInv
<1> QED
  BY <1>1, <1>2, <1>3, <1>4, <1>5, <1>6, <1>7, <1>8 DEF Next

\* IInv holds in every reachable state.
THEOREM Inductive == Spec => []IInv
BY InitIInv, NextIInv, PTL DEF Spec

\* Settings, handshake, requests and messages keep their types and bounds,
\* and the worker's inbox never holds two answers.
THEOREM TypeCorrect == Spec => []TypeOK
<1>1. IInv => TypeOK
  <2> SUFFICES ASSUME IInv PROVE TypeOK
    OBVIOUS
  <2>1. \A s \in Pushes : chan[s] \in Seq(Messages)
    <3> SUFFICES ASSUME NEW s \in Pushes PROVE chan[s] \in Seq(Messages)
      OBVIOUS
    <3>1. chan[s] \in Seq(Pushed)
      BY DEF IInv, MsgInv
    <3>2. \A m \in Pushed : m \in Messages
      BY PushedShape
    <3> QED
      BY <3>1, <3>2
  <2>2. chan["inbox"] \in Seq(Messages) /\ Len(chan["inbox"]) <= 1
    <3>1. CASE chan["inbox"] = <<>>
      BY <3>1
    <3>2. ASSUME NEW m \in Messages, chan["inbox"] = <<m>> PROVE chan["inbox"] \in Seq(Messages) /\ Len(chan["inbox"]) <= 1
      BY <3>2
    <3>3. NoFields \in Messages /\ \A c \in Config : c \in Messages
      BY DEF Messages
    <3> QED
      BY <3>1, <3>2, <3>3 DEF IInv, InboxInv
  <2>3. \A h \in Handlers : /\ req[h].kind \in Kinds \cup {"none"}
                             /\ req[h].at \in {"idle", "read", "accounts", "publish"}
                             /\ req[h].conf \in Messages
    BY DEF IInv, Typed, Requests
  <2> QED
    BY <2>1, <2>2, <2>3 DEF TypeOK, IInv, Typed, Stages, Pushes
<1> QED
  BY <1>1, Inductive, PTL

\* With no request and no message under way, a connected worker runs on what
\* the database says in every group nothing went wrong in, however pushes,
\* writes, lost connections and handshakes interleave.
THEOREM QuietAgreement == Spec => []QuietWorkerAgrees
<1>1. IInv => QuietWorkerAgrees
  <2> SUFFICES ASSUME IInv, conn = "on", Quiet, NEW f \in DOMAIN worker, GroupOfField(f) \notin tainted
               PROVE  worker[f] = Resolved[f]
    BY DEF QuietWorkerAgrees
  <2>1. f \in {"blocked", "cap", "lev", "magic"}
    BY DEF IInv, Typed, Config
  <2>2. ASSUME NEW x PROVE ~Pending(x)
    <3>1. \A s \in Pushes : chan[s] = <<>>
      BY DEF Quiet, IInv, Typed, Pushes, Subjects
    <3>2. \A s \in Pushes : 1..Len(chan[s]) = {}
      BY <3>1
    <3>3. \A h \in Handlers : Sets(req[h]) = {}
      BY SetsOf DEF Quiet, NoReq
    <3> QED
      BY <3>2, <3>3 DEF Pending
  <2>3. /\ Resolved.blocked = stored.blocked /\ Resolved.cap = CapNow
        /\ Resolved.lev = stored.lev /\ Resolved.magic = stored.magic
    BY DEF Resolved, CapNow
  <2> QED
    BY <2>1, <2>2, <2>3 DEF IInv, WorkerInv, GroupOfField
<1> QED
  BY <1>1, Inductive, PTL

=============================================================================
