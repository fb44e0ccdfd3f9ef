------------------------- MODULE AccountLinksProofs -------------------------
(***************************************************************************)
(* Proofs about accounts, link tokens and links, for any number of users,  *)
(* accounts, gateways, requests under way and tokens.                      *)
(***************************************************************************)
EXTENDS AccountLinks, TLAPS

-----------------------------------------------------------------------------
(* The inductive invariant.                                                *)

Kinds == {"handshake", "trade", "create"}
Linking == {"link", "admin_link"}

\* What a request under way may be relied on for between its steps: that it
\* has a user where it needs one, that the row it read is still there, that
\* the token it checked was valid then, and that the account it resolved is
\* one its user held (h) since it began.  E: the rows that exist.
OpOK(o, h, E) ==
    /\ o \in Ops
    /\ o.kind \in Linking \cup {"switch"} => o.user \in Users /\ o.row \in Rows
    /\ o.at \in {"active", "list", "heal", "act"} =>
          o.user \in Users /\ o.kind \in {"unlink", "command", "subscribe"}
    /\ o.kind \in Linking \cup {"rotate"} => o.row \in E
    /\ o.kind \in Kinds => o.gateway \in Gateways /\ o.row \in E \cup {NoRow}
    /\ o.at \in {"heal", "act"} => o.row \in Rows /\ o.row \in h
    /\ o.kind = "link" => o.token \in o.valid
    /\ o.kind = "admin_link" => o.token = 0

OpInv == \A p \in Requests : OpOK(op[p], held[p], DOMAIN gateway)

IInv == TypeOK /\ OpInv /\ ClaimableToken /\ LinkedByValidToken

-----------------------------------------------------------------------------
(* Lemmas shared by the actions.                                           *)

\* The accounts table: a function from the rows that exist.
LEMMA GatewayType ==
    (gateway \in UNION {[R -> Gateways \cup {NoGateway}] : R \in SUBSET Rows})
      <=> /\ DOMAIN gateway \subseteq Rows
          /\ gateway \in [DOMAIN gateway -> Gateways \cup {NoGateway}]
<1>1. ASSUME gateway \in UNION {[R -> Gateways \cup {NoGateway}] : R \in SUBSET Rows}
      PROVE  /\ DOMAIN gateway \subseteq Rows
             /\ gateway \in [DOMAIN gateway -> Gateways \cup {NoGateway}]
  <2>1. PICK R \in SUBSET Rows : gateway \in [R -> Gateways \cup {NoGateway}]
    BY <1>1
  <2> QED
    BY <2>1
<1> QED
  BY <1>1

\* The empty slot.
LEMMA NoOpOK == \A h, E : OpOK(NoOp, h, E)
<1>1. NoOp \in Ops
  BY LinksAssumption DEF NoOp, Ops
<1> QED
  BY <1>1 DEF OpOK, NoOp, Kinds, Linking

\* A request that is not touched by a step is as good after it.
LEMMA Untouched ==
    ASSUME IInv, Hold, DOMAIN gateway \subseteq DOMAIN gateway',
           NEW p \in Requests, op'[p] = op[p]
    PROVE  OpOK(op'[p], held'[p], DOMAIN gateway')
<1>1. OpOK(op[p], held[p], DOMAIN gateway)
  BY DEF IInv, OpInv
<1>2. op[p].user \in Users => held[p] \subseteq held'[p]
  BY LinksAssumption DEF Hold
<1> QED
  BY <1>1, <1>2 DEF OpOK

\* A step of one request: the others keep what they rely on.
LEMMA SlotInv ==
    ASSUME IInv, Hold, DOMAIN gateway \subseteq DOMAIN gateway',
           NEW p \in Requests, op' \in [Requests -> Ops],
           \A q \in Requests : q # p => op'[q] = op[q],
           OpOK(op'[p], held'[p], DOMAIN gateway')
    PROVE  OpInv' /\ held' \in [Requests -> SUBSET Rows]
<1>1. OpInv'
  BY Untouched DEF OpInv
<1>2. held \in [Requests -> SUBSET Rows]
  BY DEF IInv, TypeOK
<1>3. held' \in [Requests -> SUBSET Rows]
  BY <1>2 DEF Hold
<1> QED
  BY <1>1, <1>3

\* Begin and Finish, and what they put into the slot.
LEMMA SlotWrite ==
    ASSUME IInv, NEW p \in Requests, NEW o \in Ops, op' = [op EXCEPT ![p] = o]
    PROVE  /\ op' \in [Requests -> Ops] /\ op'[p] = o
           /\ \A q \in Requests : q # p => op'[q] = op[q]
  BY DEF IInv, TypeOK

\* A step that leaves the tables alone keeps the invariant if it leaves its
\* own slot in order.
LEMMA TablesKept ==
    ASSUME IInv, TablesUnchanged, Hold, ops' \in 0..MaxOps,
           NEW p \in Requests, op' \in [Requests -> Ops],
           \A q \in Requests : q # p => op'[q] = op[q],
           OpOK(op'[p], held'[p], DOMAIN gateway')
    PROVE  IInv'
<1>1. DOMAIN gateway' = DOMAIN gateway
  BY DEF TablesUnchanged
<1>2. OpInv' /\ held' \in [Requests -> SUBSET Rows]
  BY <1>1, SlotInv
<1>3. TypeOK'
  BY <1>2 DEF IInv, TypeOK, TablesUnchanged, Exists
<1>4. ClaimableToken' /\ LinkedByValidToken'
  BY DEF IInv, ClaimableToken, LinkedByValidToken, TablesUnchanged
<1> QED
  BY <1>2, <1>3, <1>4 DEF IInv

\* A request that ends without touching the tables.
LEMMA Finished ==
    ASSUME IInv, TablesUnchanged, Hold, NEW p \in Requests, Finish(p)
    PROVE  IInv'
<1>1. NoOp \in Ops /\ op' = [op EXCEPT ![p] = NoOp] /\ ops' = ops
  BY NoOpOK DEF Finish, OpOK
<1>2. /\ op' \in [Requests -> Ops] /\ op'[p] = NoOp
      /\ \A q \in Requests : q # p => op'[q] = op[q]
  BY <1>1, SlotWrite
<1>3. ops' \in 0..MaxOps
  BY <1>1 DEF IInv, TypeOK
<1> QED
  BY <1>2, <1>3, NoOpOK, TablesKept

\* A request that begins without touching the tables.
LEMMA Begun ==
    ASSUME IInv, TablesUnchanged, Hold, NEW p \in Requests, NEW o \in Ops, Begin(p, o),
           \A h : OpOK(o, h, DOMAIN gateway)
    PROVE  IInv'
<1>1. op' = [op EXCEPT ![p] = o] /\ ops' = ops + 1 /\ ops < MaxOps
  BY DEF Begin
<1>2. /\ op' \in [Requests -> Ops] /\ op'[p] = o
      /\ \A q \in Requests : q # p => op'[q] = op[q]
  BY <1>1, SlotWrite
<1>3. ops' \in 0..MaxOps
  BY <1>1, LinksAssumption DEF IInv, TypeOK
<1>4. OpOK(op'[p], held'[p], DOMAIN gateway')
  BY <1>2 DEF TablesUnchanged
<1> QED
  BY <1>2, <1>3, <1>4, TablesKept

-----------------------------------------------------------------------------
(* The invariant is inductive: one lemma per action.                       *)

\* Before the first request.
LEMMA InitInv == Init => IInv
<1> SUFFICES ASSUME Init PROVE IInv
  OBVIOUS
<1> USE LinksAssumption DEF Init
<1>1. TypeOK
  <2>1. gateway \in UNION {[R -> Gateways \cup {NoGateway}] : R \in SUBSET Rows}
    BY GatewayType
  <2>2. /\ origin \in [Rows -> {"none", "legacy", "handshake", "trade", "admin"}]
        /\ tokens \in [Rows -> 0..MaxTokens]
        /\ live \in [Rows -> SUBSET TokenIds]
        /\ \A r \in Rows : live[r] \subseteq 1..tokens[r]
    BY DEF TokenIds
  <2>3. op \in [Requests -> Ops]
    BY NoOpOK DEF OpOK
  <2>4. \A r, s \in DOMAIN gateway :
          gateway[r] = gateway[s] /\ gateway[r] # NoGateway => r = s
    OBVIOUS
  <2> QED
    BY <2>1, <2>2, <2>3, <2>4 DEF TypeOK
<1>2. OpInv
  BY NoOpOK DEF OpInv
<1>3. ClaimableToken /\ LinkedByValidToken
  BY DEF ClaimableToken, LinkedByValidToken
<1> QED
  BY <1>1, <1>2, <1>3 DEF IInv

\* upsert_gateway, _upsert_account and create_account read.
LEMMA ReadAccountInv ==
    ASSUME IInv, Hold, NEW p \in Requests, NEW kind \in Kinds, NEW g \in Gateways,
           ReadAccount(p, kind, g)
    PROVE  IInv'
<1>1. PICK r \in OrNone(Matching(kind, g)) :
        Begin(p, [NoOp EXCEPT !.kind = kind, !.at = "commit", !.gateway = g, !.row = r])
  BY DEF ReadAccount
<1> DEFINE o == [NoOp EXCEPT !.kind = kind, !.at = "commit", !.gateway = g, !.row = r]
<1>2. r \in DOMAIN gateway \cup {NoRow}
  BY DEF OrNone, Matching
<1>3. DOMAIN gateway \subseteq Rows
  BY GatewayType DEF IInv, TypeOK
<1>4. NoOp \in Ops
  BY NoOpOK DEF OpOK
<1>5. /\ o \in Ops /\ o.kind = kind /\ o.at = "commit" /\ o.gateway = g /\ o.row = r
  BY <1>2, <1>3, <1>4 DEF Ops, Kinds
<1> HIDE DEF o
<1>6. \A h : OpOK(o, h, DOMAIN gateway)
  BY <1>2, <1>5 DEF OpOK, Kinds, Linking
<1>7. TablesUnchanged /\ Begin(p, o)
  BY <1>1 DEF ReadAccount, o
<1> QED
  BY <1>5, <1>6, <1>7, Begun

\* link_telegram and admin_link_telegram read.
LEMMA ReadLinkInv ==
    ASSUME IInv, Hold, NEW p \in Requests, NEW u \in Users, NEW r \in Rows, ReadLink(p, u, r)
    PROVE  IInv'
<1>1. PICK t \in {0} \cup {i \in 1..tokens[r] : TokenValid(r, i)} :
        Begin(p, [NoOp EXCEPT !.kind = IF t = 0 THEN "admin_link" ELSE "link", !.at = "commit",
                              !.user = u, !.row = r, !.seen = Seen(u, r),
                              !.valid = live[r], !.token = t])
  BY DEF ReadLink
<1> DEFINE k == IF t = 0 THEN "admin_link" ELSE "link"
           o == [NoOp EXCEPT !.kind = k, !.at = "commit", !.user = u, !.row = r,
                             !.seen = Seen(u, r), !.valid = live[r], !.token = t]
<1>2. /\ t \in 0..MaxTokens /\ (t # 0 => t \in live[r]) /\ k \in Linking
      /\ k = "link" => t \in live[r]
      /\ k = "admin_link" => t = 0
  <2>1. tokens[r] \in 0..MaxTokens /\ MaxTokens \in Nat
    BY LinksAssumption DEF IInv, TypeOK
  <2>2. t = 0 \/ (t \in 1..tokens[r] /\ t \in live[r])
    BY DEF TokenValid
  <2>3. t \in 0..MaxTokens
    BY <2>1, <2>2
  <2> QED
    BY <2>2, <2>3 DEF Linking
<1>3. Seen(u, r) \subseteq {"link", "session", "pointer"} /\ live[r] \subseteq TokenIds
  BY DEF Seen, IInv, TypeOK
<1>4. NoOp \in Ops
  BY NoOpOK DEF OpOK
<1> HIDE DEF k
<1>5. /\ o \in Ops /\ o.kind = k /\ o.at = "commit" /\ o.user = u /\ o.row = r
      /\ o.valid = live[r] /\ o.token = t
  BY <1>2, <1>3, <1>4 DEF Ops, Linking
<1> HIDE DEF o
<1>6. r \in DOMAIN gateway
  BY DEF ReadLink, Exists
<1>7. \A h : OpOK(o, h, DOMAIN gateway)
  BY <1>2, <1>5, <1>6 DEF OpOK, Kinds, Linking
<1>8. TablesUnchanged /\ Begin(p, o)
  BY <1>1 DEF ReadLink, o, k
<1> QED
  BY <1>5, <1>7, <1>8, Begun

\* set_active_account reads.
LEMMA ReadSwitchInv ==
    ASSUME IInv, Hold, NEW p \in Requests, NEW u \in Users, NEW r \in Rows, ReadSwitch(p, u, r)
    PROVE  IInv'
<1> DEFINE o == [NoOp EXCEPT !.kind = "switch", !.at = "commit", !.user = u, !.row = r,
                             !.seen = Seen(u, r)]
<1>1. Seen(u, r) \subseteq {"link", "session", "pointer"}
  BY DEF Seen
<1>2. NoOp \in Ops
  BY NoOpOK DEF OpOK
<1>3. /\ o \in Ops /\ o.kind = "switch" /\ o.at = "commit" /\ o.user = u /\ o.row = r
  BY <1>1, <1>2 DEF Ops
<1> HIDE DEF o
<1>4. \A h : OpOK(o, h, DOMAIN gateway)
  BY <1>3 DEF OpOK, Kinds, Linking
<1>5. TablesUnchanged /\ Begin(p, o)
  BY DEF ReadSwitch, o
<1> QED
  BY <1>3, <1>4, <1>5, Begun

\* get_linked_account starts.
LEMMA BeginActiveInv ==
    ASSUME IInv, Hold, NEW p \in Requests, NEW u \in Users,
           NEW kind \in {"unlink", "command", "subscribe"}, NEW on \in BOOLEAN,
           BeginActive(p, u, kind, on)
    PROVE  IInv'
<1> DEFINE o == [NoOp EXCEPT !.kind = kind, !.at = "active", !.user = u, !.on = on]
<1>1. NoOp \in Ops
  BY NoOpOK DEF OpOK
<1>2. o \in Ops /\ o.kind = kind /\ o.at = "active" /\ o.user = u
  BY <1>1 DEF Ops
<1> HIDE DEF o
<1>3. \A h : OpOK(o, h, DOMAIN gateway)
  BY <1>2 DEF OpOK, Kinds, Linking
<1>4. TablesUnchanged /\ Begin(p, o)
  BY DEF BeginActive, o
<1> QED
  BY <1>2, <1>3, <1>4, Begun

\* rotate_link_token reads.
LEMMA ReadRotateInv ==
    ASSUME IInv, Hold, NEW p \in Requests, ReadRotate(p)
    PROVE  IInv'
<1>1. PICK r \in DOMAIN gateway :
        Begin(p, [NoOp EXCEPT !.kind = "rotate", !.at = "commit", !.row = r, !.valid = live[r]])
  BY DEF ReadRotate
<1> DEFINE o == [NoOp EXCEPT !.kind = "rotate", !.at = "commit", !.row = r, !.valid = live[r]]
<1>2. r \in Rows
  BY GatewayType DEF IInv, TypeOK
<1>3. live[r] \subseteq TokenIds
  BY <1>2 DEF IInv, TypeOK
<1>4. NoOp \in Ops
  BY NoOpOK DEF OpOK
<1>5. o \in Ops /\ o.kind = "rotate" /\ o.at = "commit" /\ o.row = r
  BY <1>2, <1>3, <1>4 DEF Ops
<1> HIDE DEF o
<1>6. \A h : OpOK(o, h, DOMAIN gateway)
  BY <1>5 DEF OpOK, Kinds, Linking
<1>7. TablesUnchanged /\ Begin(p, o)
  BY <1>1 DEF ReadRotate, o
<1> QED
  BY <1>5, <1>6, <1>7, Begun

\* A request that ends, whatever it did to the tables.
LEMMA FinishSlot ==
    ASSUME IInv, Hold, DOMAIN gateway \subseteq DOMAIN gateway', NEW p \in Requests, Finish(p)
    PROVE  /\ OpInv' /\ held' \in [Requests -> SUBSET Rows]
           /\ op' \in [Requests -> Ops] /\ ops' \in 0..MaxOps
<1>1. NoOp \in Ops /\ op' = [op EXCEPT ![p] = NoOp] /\ ops' = ops
  BY NoOpOK DEF Finish, OpOK
<1>2. /\ op' \in [Requests -> Ops] /\ op'[p] = NoOp
      /\ \A q \in Requests : q # p => op'[q] = op[q]
  BY <1>1, SlotWrite
<1>3. ops' \in 0..MaxOps
  BY <1>1 DEF IInv, TypeOK
<1> QED
  BY <1>2, <1>3, NoOpOK, SlotInv

\* The commit of a handshake, a report or an admin: a row is updated or
\* inserted, with its first token or without.
LEMMA CommitAccountInv ==
    ASSUME IInv, Hold, NEW p \in Requests, CommitAccount(p)
    PROVE  IInv'
<1> DEFINE o == op[p]
<1>1. /\ o.kind \in Kinds /\ o.at = "commit" /\ Finish(p)
      /\ o.gateway \in Gateways /\ o.row \in DOMAIN gateway \cup {NoRow}
  BY DEF CommitAccount, Kinds, IInv, OpInv, OpOK
<1>2. CASE TablesUnchanged
  BY <1>1, <1>2, Finished
<1>3. CASE ~TablesUnchanged
  <2>1. /\ ~Taken(o.gateway, o.row)
        /\ UNCHANGED <<links, cards, session, by, raced>>
    BY <1>3 DEF CommitAccount
  <2>2. PICK r \in IF o.row # NoRow THEN {o.row} ELSE {s \in Rows : ~Exists(s)} :
          /\ gateway' = [s \in DOMAIN gateway \cup {r} |->
                            IF s = r THEN o.gateway ELSE gateway[s]]
          /\ IF o.row = NoRow
             THEN /\ origin' = [origin EXCEPT ![r] =
                                   IF o.kind = "create" THEN "admin" ELSE o.kind]
                  /\ IF MintsToken(o.kind)
                     THEN tokens' = [tokens EXCEPT ![r] = 1] /\ live' = [live EXCEPT ![r] = {1}]
                     ELSE UNCHANGED <<tokens, live>>
             ELSE UNCHANGED <<origin, tokens, live>>
    BY <1>3 DEF CommitAccount
  <2>3. DOMAIN gateway \subseteq Rows /\ gateway \in [DOMAIN gateway -> Gateways \cup {NoGateway}]
    BY GatewayType DEF IInv, TypeOK
  <2>4. r \in Rows /\ (o.row = NoRow => r \notin DOMAIN gateway) /\ (o.row # NoRow => r = o.row)
    BY <2>2, <2>3, <1>1 DEF Exists
  <2>5. /\ DOMAIN gateway' = DOMAIN gateway \cup {r}
        /\ gateway'[r] = o.gateway
        /\ \A s \in DOMAIN gateway : s # r => gateway'[s] = gateway[s]
    BY <2>2
  <2>6. gateway' \in UNION {[R -> Gateways \cup {NoGateway}] : R \in SUBSET Rows}
    <3>1. gateway' \in [DOMAIN gateway \cup {r} -> Gateways \cup {NoGateway}]
      BY <2>2, <2>3, <1>1
    <3>2. DOMAIN gateway \cup {r} \in SUBSET Rows
      BY <2>3, <2>4
    <3> QED
      BY <3>1, <3>2
  <2>7. \A s, t \in DOMAIN gateway' :
          gateway'[s] = gateway'[t] /\ gateway'[s] # NoGateway => s = t
    <3>1. \A s \in DOMAIN gateway : s # r => gateway[s] # o.gateway
      BY <2>1, <2>3, <2>4, LinksAssumption DEF Taken
    <3>2. \A s, t \in DOMAIN gateway :
          gateway[s] = gateway[t] /\ gateway[s] # NoGateway => s = t
      BY DEF IInv, TypeOK
    <3> QED
      BY <3>1, <3>2, <2>5
  <2>8. /\ origin' \in [Rows -> {"none", "legacy", "handshake", "trade", "admin"}]
        /\ tokens' \in [Rows -> 0..MaxTokens]
        /\ live' \in [Rows -> SUBSET TokenIds]
        /\ \A s \in Rows : live'[s] \subseteq 1..tokens'[s]
        /\ \A s \in Rows : s # r => live'[s] = live[s] /\ origin'[s] = origin[s]
        /\ origin'[r] \in {"handshake", "admin"} => live'[r] # {}
    <3>0. /\ origin \in [Rows -> {"none", "legacy", "handshake", "trade", "admin"}]
          /\ tokens \in [Rows -> 0..MaxTokens]
          /\ live \in [Rows -> SUBSET TokenIds]
          /\ \A s \in Rows : live[s] \subseteq 1..tokens[s]
          /\ \A s \in Rows : origin[s] \in {"handshake", "admin"} => live[s] # {}
      BY DEF IInv, TypeOK, ClaimableToken
    <3>1. CASE o.row # NoRow
      BY <3>0, <3>1, <2>2, <2>4
    <3>2. CASE o.row = NoRow
      <4>1. /\ origin' \in [Rows -> {"none", "legacy", "handshake", "trade", "admin"}]
            /\ \A s \in Rows : s # r => origin'[s] = origin[s]
            /\ origin'[r] = IF o.kind = "create" THEN "admin" ELSE o.kind
        BY <3>0, <3>2, <2>2, <2>4, <1>1 DEF Kinds
      <4>2. CASE MintsToken(o.kind)
        <5>1. /\ tokens' \in [Rows -> 0..MaxTokens] /\ tokens'[r] = 1
              /\ \A s \in Rows : s # r => tokens'[s] = tokens[s]
          BY <4>2, <3>0, <3>2, <2>2, <2>4, LinksAssumption
        <5>2. /\ live' \in [Rows -> SUBSET TokenIds] /\ live'[r] = {1}
              /\ \A s \in Rows : s # r => live'[s] = live[s]
          BY <4>2, <3>0, <3>2, <2>2, <2>4, LinksAssumption DEF TokenIds
        <5> QED
          BY <5>1, <5>2, <4>1, <3>0
      <4>3. CASE ~MintsToken(o.kind)
        <5>1. tokens' = tokens /\ live' = live
          BY <4>3, <3>2, <2>2
        <5>2. o.kind = "trade"
          BY <4>3, <1>1 DEF MintsToken, Kinds
        <5> QED
          BY <5>1, <5>2, <4>1, <3>0
      <4> QED
        BY <4>2, <4>3
    <3> QED
      BY <3>1, <3>2
  <2>9. DOMAIN gateway \subseteq DOMAIN gateway'
    BY <2>5
  <2>10. /\ OpInv' /\ held' \in [Requests -> SUBSET Rows]
         /\ op' \in [Requests -> Ops] /\ ops' \in 0..MaxOps
    BY <1>1, <2>9, FinishSlot
  <2>11. links' \subseteq Users \X {s \in Rows : Exists(s)'}
    BY <2>1, <2>9 DEF IInv, TypeOK, Exists
  <2>12. TypeOK'
    BY <2>1, <2>6, <2>7, <2>8, <2>10, <2>11 DEF IInv, TypeOK
  <2>13. ClaimableToken'
    BY <2>8 DEF IInv, ClaimableToken
  <2>14. LinkedByValidToken'
    <3> SUFFICES ASSUME NEW l \in links \ raced
                 PROVE  by[l] = 0 \/ by[l] \in live'[l[2]]
      BY <2>1 DEF LinkedByValidToken
    <3>1. l[2] \in DOMAIN gateway /\ l[2] \in Rows
      BY DEF IInv, TypeOK, Exists
    <3>2. by[l] = 0 \/ by[l] \in live[l[2]]
      BY DEF IInv, LinkedByValidToken
    <3>3. live'[l[2]] = live[l[2]]
      <4>1. CASE o.row # NoRow
        BY <4>1, <2>2
      <4>2. CASE o.row = NoRow
        BY <4>2, <3>1, <2>4, <2>8
      <4> QED
        BY <4>1, <4>2
    <3> QED
      BY <3>2, <3>3
  <2> QED
    BY <2>10, <2>12, <2>13, <2>14 DEF IInv
<1> QED
  BY <1>2, <1>3

\* The commit of a link: made with the token that was checked, or an admin's.
LEMMA CommitLinkInv ==
    ASSUME IInv, Hold, NEW p \in Requests, CommitLink(p)
    PROVE  IInv'
<1> DEFINE o == op[p]
           l == <<o.user, o.row>>
<1>1. /\ o.kind \in Linking /\ Finish(p)
      /\ UNCHANGED <<gateway, origin, tokens, live, cards>>
  BY DEF CommitLink, Linking
<1>2. /\ o.user \in Users /\ o.row \in Rows /\ o.row \in DOMAIN gateway /\ o \in Ops
      /\ o.kind = "link" => o.token \in o.valid
      /\ o.kind = "admin_link" => o.token = 0
  BY <1>1 DEF IInv, OpInv, OpOK
<1>3. \/ UNCHANGED <<links, by, raced>>
      \/ /\ links' = links \cup {l} /\ l \notin links
         /\ by' = [by EXCEPT ![l] = o.token]
         /\ raced' = IF o.token \in o.valid \ live[o.row] THEN raced \cup {l} ELSE raced
  BY DEF CommitLink
<1>4. session' = session \/ session' = [session EXCEPT ![o.user] = o.row]
  BY DEF CommitLink
<1>5. /\ OpInv' /\ held' \in [Requests -> SUBSET Rows]
      /\ op' \in [Requests -> Ops] /\ ops' \in 0..MaxOps
  BY <1>1, FinishSlot
<1>6. session' \in [Users -> Rows \cup {NoRow, NoPointer}]
  BY <1>2, <1>4 DEF IInv, TypeOK
<1>7. l \in Users \X Rows /\ o.token \in 0..MaxTokens /\ l[2] = o.row
  BY <1>2 DEF Ops
<1> HIDE DEF l
<1>8. /\ links' \subseteq Users \X {r \in Rows : Exists(r)'} /\ cards' \subseteq links'
      /\ by' \in [Users \X Rows -> 0..MaxTokens] /\ raced' \subseteq links'
  <2>1. l \in Users \X {r \in Rows : Exists(r)}
    BY <1>2 DEF l, Exists
  <2>2. \A r : Exists(r)' = Exists(r)
    BY <1>1 DEF Exists
  <2>3. /\ links \subseteq Users \X {r \in Rows : Exists(r)} /\ cards \subseteq links
        /\ by \in [Users \X Rows -> 0..MaxTokens] /\ raced \subseteq links
    BY DEF IInv, TypeOK
  <2>4. by' \in [Users \X Rows -> 0..MaxTokens]
    BY <1>3, <1>7, <2>3
  <2>5. /\ links' \subseteq Users \X {r \in Rows : Exists(r)} /\ cards' \subseteq links'
        /\ raced' \subseteq links'
    BY <1>1, <1>3, <2>1, <2>3
  <2> QED
    BY <2>2, <2>4, <2>5
<1>9. TypeOK'
  BY <1>1, <1>5, <1>6, <1>8 DEF IInv, TypeOK
<1>10. ClaimableToken'
  BY <1>1 DEF IInv, ClaimableToken
<1>11. LinkedByValidToken'
  <2> SUFFICES ASSUME NEW m \in links' \ raced'
               PROVE  by'[m] = 0 \/ by'[m] \in live[m[2]]
    BY <1>1 DEF LinkedByValidToken
  <2>1. CASE m \in links
    <3>1. by'[m] = by[m] /\ m \notin raced
      <4>1. m \in Users \X Rows
        BY <2>1 DEF IInv, TypeOK
      <4> QED
        BY <4>1, <2>1, <1>3, <1>7 DEF IInv, TypeOK
    <3> QED
      BY <3>1, <2>1 DEF IInv, LinkedByValidToken
  <2>2. CASE m \notin links
    <3>1. m = l /\ by'[m] = o.token /\ o.token \notin o.valid \ live[o.row]
      BY <2>2, <1>3, <1>7 DEF IInv, TypeOK
    <3> QED
      BY <3>1, <1>1, <1>2, <1>7 DEF Linking
  <2> QED
    BY <2>1, <2>2
<1> QED
  BY <1>5, <1>9, <1>10, <1>11 DEF IInv

\* A step that only moves a session pointer.
LEMMA SessionKept ==
    ASSUME IInv, Hold, UNCHANGED <<gateway, origin, tokens, live, links, cards, by, raced>>,
           session' \in [Users -> Rows \cup {NoRow, NoPointer}], OpInv',
           held' \in [Requests -> SUBSET Rows], op' \in [Requests -> Ops], ops' \in 0..MaxOps
    PROVE  IInv'
<1>1. TypeOK'
  BY DEF IInv, TypeOK, Exists
<1>2. ClaimableToken' /\ LinkedByValidToken'
  BY DEF IInv, ClaimableToken, LinkedByValidToken
<1> QED
  BY <1>1, <1>2 DEF IInv

\* The commit of set_active_account.
LEMMA CommitSwitchInv ==
    ASSUME IInv, Hold, NEW p \in Requests, CommitSwitch(p)
    PROVE  IInv'
<1>1. /\ op[p].kind = "switch" /\ Finish(p)
      /\ UNCHANGED <<gateway, origin, tokens, live, links, cards, by, raced>>
      /\ session' = session \/ session' = [session EXCEPT ![op[p].user] = op[p].row]
  BY DEF CommitSwitch
<1>2. op[p].row \in Rows
  BY <1>1 DEF IInv, OpInv, OpOK
<1>3. session' \in [Users -> Rows \cup {NoRow, NoPointer}]
  BY <1>1, <1>2 DEF IInv, TypeOK
<1>4. /\ OpInv' /\ held' \in [Requests -> SUBSET Rows]
      /\ op' \in [Requests -> Ops] /\ ops' \in 0..MaxOps
  BY <1>1, FinishSlot
<1> QED
  BY <1>1, <1>3, <1>4, SessionKept

\* The commit of a rotation: the links go with the tokens.
LEMMA CommitRotateInv ==
    ASSUME IInv, Hold, NEW p \in Requests, CommitRotate(p)
    PROVE  IInv'
<1> DEFINE r == op[p].row
<1>1. /\ op[p].kind = "rotate" /\ Finish(p) /\ tokens[r] < MaxTokens
      /\ tokens' = [tokens EXCEPT ![r] = @ + 1]
      /\ live' = [live EXCEPT ![r] = (@ \ op[p].valid) \cup {tokens[r] + 1}]
      /\ links' = {l \in links : l[2] # r}
      /\ cards' = cards \cap links'
      /\ session' = [u \in Users |-> IF session[u] = r THEN NoPointer ELSE session[u]]
      /\ raced' = raced \cap links'
      /\ UNCHANGED <<gateway, origin, by>>
  BY DEF CommitRotate, LinksAfterRotation
<1>2. r \in Rows
  BY <1>1, GatewayType DEF IInv, OpInv, OpOK, TypeOK
<1>3. /\ tokens \in [Rows -> 0..MaxTokens] /\ live \in [Rows -> SUBSET TokenIds]
      /\ \A s \in Rows : live[s] \subseteq 1..tokens[s]
      /\ MaxTokens \in Nat
  BY LinksAssumption DEF IInv, TypeOK
<1> HIDE DEF r
<1>4. /\ tokens' \in [Rows -> 0..MaxTokens] /\ tokens'[r] = tokens[r] + 1
      /\ \A s \in Rows : s # r => tokens'[s] = tokens[s]
  BY <1>1, <1>2, <1>3
<1>5. /\ live'[r] = (live[r] \ op[p].valid) \cup {tokens[r] + 1}
      /\ \A s \in Rows : s # r => live'[s] = live[s]
  BY <1>1, <1>2, <1>3
<1>6. live' \in [Rows -> SUBSET TokenIds]
  <2>1. tokens[r] + 1 \in TokenIds
    BY <1>1, <1>2, <1>3 DEF TokenIds
  <2> QED
    BY <2>1, <1>1, <1>2, <1>3
<1>7. \A s \in Rows : live'[s] \subseteq 1..tokens'[s]
  <2>1. live'[r] \subseteq 1..tokens'[r]
    <3>1. live[r] \subseteq 1..tokens[r] /\ tokens[r] \in Nat
      BY <1>2, <1>3
    <3> QED
      BY <3>1, <1>4, <1>5
  <2> QED
    BY <2>1, <1>3, <1>4, <1>5
<1>8. /\ OpInv' /\ held' \in [Requests -> SUBSET Rows]
      /\ op' \in [Requests -> Ops] /\ ops' \in 0..MaxOps
  BY <1>1, FinishSlot
<1>9. session' \in [Users -> Rows \cup {NoRow, NoPointer}]
  BY <1>1 DEF IInv, TypeOK
<1>10. TypeOK'
  <2>1. /\ links' \subseteq Users \X {s \in Rows : Exists(s)'} /\ cards' \subseteq links'
        /\ raced' \subseteq links'
    BY <1>1 DEF IInv, TypeOK, Exists
  <2> QED
    BY <2>1, <1>1, <1>4, <1>6, <1>7, <1>8, <1>9 DEF IInv, TypeOK
<1>11. ClaimableToken'
  BY <1>1, <1>5 DEF IInv, ClaimableToken
<1>12. LinkedByValidToken'
  <2> SUFFICES ASSUME NEW l \in links' \ raced'
               PROVE  by[l] = 0 \/ by[l] \in live'[l[2]]
    BY <1>1 DEF LinkedByValidToken
  <2>1. l \in links \ raced /\ l[2] # r /\ l[2] \in Rows
    BY <1>1 DEF IInv, TypeOK
  <2> QED
    BY <2>1, <1>5 DEF IInv, LinkedByValidToken
<1> QED
  BY <1>8, <1>10, <1>11, <1>12 DEF IInv

\* A request that moves on with the account it found: one its user holds now,
\* or held when it found it.
LEMMA MovedOn ==
    ASSUME IInv, Hold, NEW p \in Requests, NEW at \in {"list", "heal", "act"},
           NEW r \in Rows \cup {NoRow}, op[p].at \in {"active", "list", "heal"},
           UNCHANGED gateway, ops' = ops,
           \/ at = "list" /\ op' = [op EXCEPT ![p].at = at] /\ r = op[p].row
           \/ at # "list" /\ op' = [op EXCEPT ![p].at = at, ![p].row = r],
           at # "list" => r \in Rows /\ (<<op[p].user, r>> \in links' \/ r \in held[p])
    PROVE  /\ OpInv' /\ held' \in [Requests -> SUBSET Rows]
           /\ op' \in [Requests -> Ops] /\ ops' \in 0..MaxOps
<1> DEFINE o == op[p]
           n == [o EXCEPT !.at = at, !.row = r]
<1>1. /\ OpOK(o, held[p], DOMAIN gateway) /\ o \in Ops /\ o.user \in Users
      /\ o.kind \in {"unlink", "command", "subscribe"}
  BY DEF IInv, OpInv, OpOK
<1>2. op' = [op EXCEPT ![p] = n]
  <2>1. CASE at # "list"
    BY <2>1
  <2>2. CASE at = "list"
    <3>1. n = [o EXCEPT !.at = at]
      BY <2>2, <1>1 DEF Ops
    <3> QED
      BY <3>1, <2>2
  <2> QED
    BY <2>1, <2>2
<1>3. /\ n \in Ops /\ n.at = at /\ n.row = r /\ n.kind = o.kind /\ n.user = o.user
  BY <1>1 DEF Ops
<1> HIDE DEF n
<1>4. /\ op' \in [Requests -> Ops] /\ op'[p] = n
      /\ \A q \in Requests : q # p => op'[q] = op[q]
  BY <1>2, <1>3, SlotWrite
<1>5. at # "list" => r \in held'[p]
  <2>1. held'[p] = {s \in Rows : <<o.user, s>> \in links'} \cup held[p]
    BY <1>1, <1>3, <1>4, LinksAssumption DEF Hold
  <2> QED
    BY <2>1
<1>6. OpOK(op'[p], held'[p], DOMAIN gateway')
  BY <1>1, <1>3, <1>4, <1>5 DEF OpOK, Kinds, Linking
<1>7. ops' \in 0..MaxOps
  BY DEF IInv, TypeOK
<1> QED
  BY <1>4, <1>6, <1>7, SlotInv

\* get_active_account: the pointer, if a link stands behind it.
LEMMA ReadActiveInv ==
    ASSUME IInv, Hold, NEW p \in Requests, ReadActive(p)
    PROVE  IInv'
<1> DEFINE u == op[p].user
<1>1. /\ op[p].at = "active" /\ TablesUnchanged /\ ops' = ops
      /\ \/ PointerGood(u) /\ op' = [op EXCEPT ![p].at = "act", ![p].row = session[u]]
         \/ op' = [op EXCEPT ![p].at = "list"]
  BY DEF ReadActive, Resolve
<1>2. links' = links /\ gateway' = gateway /\ session' = session
      /\ UNCHANGED <<gateway, origin, tokens, live, links, cards, by, raced>>
  BY <1>1 DEF TablesUnchanged
<1>3. op[p].row \in Rows \cup {NoRow}
  BY DEF IInv, OpInv, OpOK, Ops
<1>4. PointerGood(u) => session[u] \in Rows /\ <<u, session[u]>> \in links
  BY DEF PointerGood, RowsOf
<1>5. /\ OpInv' /\ held' \in [Requests -> SUBSET Rows]
      /\ op' \in [Requests -> Ops] /\ ops' \in 0..MaxOps
  <2>1. CASE PointerGood(u) /\ op' = [op EXCEPT ![p].at = "act", ![p].row = session[u]]
    BY <2>1, <1>1, <1>2, <1>4, MovedOn
  <2>2. CASE op' = [op EXCEPT ![p].at = "list"]
    BY <2>2, <1>1, <1>2, <1>3, MovedOn
  <2> QED
    BY <1>1, <2>1, <2>2
<1>6. session' \in [Users -> Rows \cup {NoRow, NoPointer}]
  BY <1>2 DEF IInv, TypeOK
<1> QED
  BY <1>2, <1>5, <1>6, SessionKept

\* list_by_telegram_user_id: the fallback is a linked account.
LEMMA ListAccountsInv ==
    ASSUME IInv, Hold, NEW p \in Requests, ListAccounts(p)
    PROVE  IInv'
<1> DEFINE u == op[p].user
<1>1. CASE RowsOf(u) = {}
  BY <1>1, Finished DEF ListAccounts
<1>2. CASE RowsOf(u) # {}
  <2>1. PICK r \in RowsOf(u) : op' = [op EXCEPT ![p].at = "heal", ![p].row = r]
    BY <1>2 DEF ListAccounts
  <2>2. op[p].at = "list" /\ TablesUnchanged /\ ops' = ops
    BY <1>2 DEF ListAccounts
  <2>3. links' = links /\ gateway' = gateway /\ session' = session
        /\ UNCHANGED <<gateway, origin, tokens, live, links, cards, by, raced>>
    BY <2>2 DEF TablesUnchanged
  <2>4. r \in Rows /\ <<u, r>> \in links
    BY DEF RowsOf
  <2>5. /\ OpInv' /\ held' \in [Requests -> SUBSET Rows]
        /\ op' \in [Requests -> Ops] /\ ops' \in 0..MaxOps
    BY <2>1, <2>2, <2>3, <2>4, MovedOn
  <2>6. session' \in [Users -> Rows \cup {NoRow, NoPointer}]
    BY <2>3 DEF IInv, TypeOK
  <2> QED
    BY <2>3, <2>5, <2>6, SessionKept
<1> QED
  BY <1>1, <1>2

\* The pointer is healed, or not.
LEMMA HealInv ==
    ASSUME IInv, Hold, NEW p \in Requests, NEW ok \in BOOLEAN, Heal(p, ok)
    PROVE  IInv'
<1>1. /\ op[p].at = "heal" /\ ops' = ops
      /\ op' = [op EXCEPT ![p].at = "act", ![p].row = op[p].row]
      /\ UNCHANGED <<gateway, origin, tokens, live, links, cards, by, raced>>
      /\ session' = session \/ session' = [session EXCEPT ![op[p].user] = op[p].row]
  BY DEF Heal, Resolve
<1>2. op[p].row \in Rows /\ op[p].row \in held[p]
  BY <1>1 DEF IInv, OpInv, OpOK
<1>3. /\ OpInv' /\ held' \in [Requests -> SUBSET Rows]
      /\ op' \in [Requests -> Ops] /\ ops' \in 0..MaxOps
  BY <1>1, <1>2, MovedOn
<1>4. session' \in [Users -> Rows \cup {NoRow, NoPointer}]
  BY <1>1, <1>2 DEF IInv, TypeOK
<1> QED
  BY <1>1, <1>3, <1>4, SessionKept

\* A step that only moves subscriptions of links that exist.
LEMMA CardsKept ==
    ASSUME IInv, UNCHANGED <<gateway, origin, tokens, live, links, session, by, raced>>,
           cards' \subseteq links, OpInv',
           held' \in [Requests -> SUBSET Rows], op' \in [Requests -> Ops], ops' \in 0..MaxOps
    PROVE  IInv'
<1>1. TypeOK'
  BY DEF IInv, TypeOK, Exists
<1>2. ClaimableToken' /\ LinkedByValidToken'
  BY DEF IInv, ClaimableToken, LinkedByValidToken
<1> QED
  BY <1>1, <1>2 DEF IInv

\* _set_enabled.
LEMMA SubscribeInv ==
    ASSUME IInv, Hold, NEW p \in Requests, Subscribe(p)
    PROVE  IInv'
<1>1. /\ Finish(p) /\ UNCHANGED <<gateway, origin, tokens, live, links, session, by, raced>>
      /\ cards' \subseteq links
  BY DEF Subscribe, IInv, TypeOK
<1>2. /\ OpInv' /\ held' \in [Requests -> SUBSET Rows]
      /\ op' \in [Requests -> Ops] /\ ops' \in 0..MaxOps
  BY <1>1, FinishSlot
<1> QED
  BY <1>1, <1>2, CardsKept

\* subscribe_all and unsubscribe_all.
LEMMA SubscribeAllInv ==
    ASSUME IInv, Hold, NEW u \in Users, NEW on \in BOOLEAN, SubscribeAll(u, on)
    PROVE  IInv'
<1>1. /\ UNCHANGED <<gateway, origin, tokens, live, links, session, op, by, raced>>
      /\ cards' \subseteq links /\ ops' = ops + 1 /\ ops < MaxOps
  BY DEF SubscribeAll, IInv, TypeOK
<1>2. OpInv'
  BY <1>1, Untouched DEF OpInv
<1>3. /\ held' \in [Requests -> SUBSET Rows] /\ op' \in [Requests -> Ops]
  <2>1. held \in [Requests -> SUBSET Rows] /\ op \in [Requests -> Ops]
    BY DEF IInv, TypeOK
  <2> QED
    BY <1>1, <2>1 DEF Hold
<1>4. ops' \in 0..MaxOps
  BY <1>1, LinksAssumption DEF IInv, TypeOK
<1> QED
  BY <1>1, <1>2, <1>3, <1>4, CardsKept

\* unlink_telegram.
LEMMA UnlinkInv ==
    ASSUME IInv, Hold, NEW p \in Requests, Unlink(p)
    PROVE  IInv'
<1> DEFINE l == <<op[p].user, op[p].row>>
<1>1. /\ Finish(p) /\ UNCHANGED <<gateway, origin, tokens, live, by>>
      /\ links' = links \ {l} /\ cards' = cards \ {l} /\ raced' = raced \ {l}
  BY DEF Unlink
<1>2. PICK left \in Rows \cup {NoPointer} :
        session' = [session EXCEPT ![op[p].user] = IF @ = NoRow THEN NoRow ELSE left]
  BY DEF Unlink, RowsOf
<1>3. session' \in [Users -> Rows \cup {NoRow, NoPointer}]
  BY <1>2 DEF IInv, TypeOK
<1>4. /\ OpInv' /\ held' \in [Requests -> SUBSET Rows]
      /\ op' \in [Requests -> Ops] /\ ops' \in 0..MaxOps
  BY <1>1, FinishSlot
<1> HIDE DEF l
<1>5. TypeOK'
  BY <1>1, <1>3, <1>4 DEF IInv, TypeOK, Exists
<1>6. ClaimableToken' /\ LinkedByValidToken'
  BY <1>1 DEF IInv, ClaimableToken, LinkedByValidToken
<1> QED
  BY <1>4, <1>5, <1>6 DEF IInv

\* One step of one request.
LEMMA StepInv ==
    ASSUME IInv, Hold, NEW p \in Requests, Step(p)
    PROVE  IInv'
<1>1. CASE \E g \in Gateways : \E kind \in Kinds : ReadAccount(p, kind, g)
  BY <1>1, ReadAccountInv
<1>2. CASE \E u \in Users : \E r \in Rows : ReadLink(p, u, r) \/ ReadSwitch(p, u, r)
  BY <1>2, ReadLinkInv, ReadSwitchInv
<1>3. CASE \E u \in Users :
              \/ \E kind \in {"unlink", "command"} : BeginActive(p, u, kind, FALSE)
              \/ \E on \in BOOLEAN : BeginActive(p, u, "subscribe", on)
  BY <1>3, BeginActiveInv
<1>4. CASE Command(p) \/ Abort(p)
  BY <1>4, Finished DEF Command, Abort
<1>5. CASE \E ok \in BOOLEAN : Heal(p, ok)
  BY <1>5, HealInv
<1> QED
  BY <1>1, <1>2, <1>3, <1>4, <1>5, ReadRotateInv, CommitAccountInv, CommitLinkInv, CommitSwitchInv,
     CommitRotateInv, ReadActiveInv, ListAccountsInv, SubscribeInv, UnlinkInv DEF Step, Kinds

-----------------------------------------------------------------------------
(* The theorems.                                                           *)

\* The inductive invariant holds in every behaviour.
THEOREM Inductive == Spec => []IInv
<1>1. Init => IInv
  BY InitInv
<1>2. IInv /\ [Next]_vars => IInv'
  <2> SUFFICES ASSUME IInv, [Next]_vars PROVE IInv'
    OBVIOUS
  <2>1. CASE Next
    BY <2>1, StepInv, SubscribeAllInv DEF Next
  <2>2. CASE UNCHANGED vars
    BY <2>2 DEF vars, IInv, TypeOK, Exists, OpInv, ClaimableToken, LinkedByValidToken
  <2> QED
    BY <2>1, <2>2
<1> QED
  BY <1>1, <1>2, PTL DEF Spec

\* Every table keeps its type, uq_accounts_market_gateway_account_id and the
\* foreign keys of the links included.
THEOREM TypeCorrect == Spec => []TypeOK
<1>1. IInv => TypeOK
  BY DEF IInv
<1> QED
  BY <1>1, Inductive, PTL

\* An account that came by a handshake or an admin can always be claimed.
THEOREM AlwaysClaimable == Spec => []ClaimableToken
<1>1. IInv => ClaimableToken
  BY DEF IInv
<1> QED
  BY <1>1, Inductive, PTL

\* A link made with a token lasts no longer than the token, the race of
\* link_telegram's check with a rotation aside.
THEOREM LinksFollowTokens == Spec => []LinkedByValidToken
<1>1. IInv => LinkedByValidToken
  BY DEF IInv
<1> QED
  BY <1>1, Inductive, PTL

\* A request acts on an account its user held while it ran.
THEOREM OwnAccountOnly == Spec => []ActsOnOwnAccount
<1>1. IInv => ActsOnOwnAccount
  BY DEF IInv, OpInv, OpOK, ActsOnOwnAccount
<1> QED
  BY <1>1, Inductive, PTL

=============================================================================
