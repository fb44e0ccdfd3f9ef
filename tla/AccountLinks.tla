---------------------------- MODULE AccountLinks ----------------------------
(***************************************************************************)
(* SqlAlchemyAccountRepository under concurrent requests: accounts that    *)
(* come into being by a handshake, a TRADE report or an admin; their link  *)
(* tokens; the links of bot users to accounts; and the session pointer     *)
(* that says which account a user's commands act on.                       *)
(*                                                                         *)
(* A repository method that opens one database session reads in one step   *)
(* and commits in another, so two of them can interleave; a method that    *)
(* opens several sessions is as many pairs of steps.  A commit that would  *)
(* break a unique constraint is rolled back, which is also what any other  *)
(* failure of the database looks like.                                     *)
(*                                                                         *)
(* All rows of the model carry the same bare account_id and market; they   *)
(* differ in their gateway, which a row made before the column existed     *)
(* lacks.                                                                  *)
(***************************************************************************)
EXTENDS Integers, FiniteSets

CONSTANTS
    Users,      \* bot users
    Rows,       \* rows of accounts, existing or still to be inserted
    Legacy,     \* rows that exist at the start, without a gateway
    Gateways,   \* gateways workers announce
    Requests,   \* requests that can be under way at once
    MaxOps,     \* bound: requests
    MaxTokens   \* bound: tokens of one account

NoGateway == "NULL"
Nobody == "nobody"
NoRow == "none"      \* no session row, or an account not found
NoPointer == "NULL"  \* a session whose active_account_id is NULL

ASSUME LinksAssumption ==
    /\ Legacy \subseteq Rows
    /\ {NoGateway} \cap Gateways = {} /\ {NoRow, NoPointer} \cap Rows = {}
    /\ {Nobody} \cap Users = {}
    /\ MaxOps \in Nat /\ MaxTokens \in Nat \ {0}

VARIABLES
    gateway,   \* the accounts table: existing rows and their gateway
    origin,    \* how each row came into being
    tokens,    \* tokens issued for each row so far, and
    live,      \*   those of them that are not revoked
    links,     \* account_bot_links: pairs of user and row
    cards,     \* links with trade_cards_enabled
    session,   \* bot_sessions: the active account of each user
    op,        \* the request under way in each slot
    ops,       \* requests so far
    by,        \* history: the token a link was made with, 0 for an admin
    raced,     \* history: links whose token was revoked between check and commit
    held       \* history: rows the request's user was linked to since it began

vars == <<gateway, origin, tokens, live, links, cards, session, op, ops, by, raced, held>>

Exists(r) == r \in DOMAIN gateway
TokenIds == 1..MaxTokens

NoOp == [kind |-> "none", at |-> "idle", user |-> Nobody, row |-> NoRow,
         gateway |-> NoGateway, seen |-> {}, valid |-> {}, on |-> FALSE, token |-> 0]

Ops == [kind: {"none", "handshake", "trade", "create", "link", "admin_link", "switch",
               "unlink", "command", "subscribe", "rotate"},
        at: {"idle", "commit", "active", "list", "heal", "act"},
        user: Users \cup {Nobody}, row: Rows \cup {NoRow},
        gateway: Gateways \cup {NoGateway},
        seen: SUBSET {"link", "session", "pointer"}, valid: SUBSET TokenIds,
        on: BOOLEAN, token: 0..MaxTokens]

TypeOK ==
    /\ gateway \in UNION {[R -> Gateways \cup {NoGateway}] : R \in SUBSET Rows}
    /\ origin \in [Rows -> {"none", "legacy", "handshake", "trade", "admin"}]
    /\ tokens \in [Rows -> 0..MaxTokens]
    /\ live \in [Rows -> SUBSET TokenIds]
    /\ \A r \in Rows : live[r] \subseteq 1..tokens[r]
    /\ links \subseteq Users \X {r \in Rows : Exists(r)}
    /\ cards \subseteq links
    /\ session \in [Users -> Rows \cup {NoRow, NoPointer}]
    /\ op \in [Requests -> Ops]
    /\ ops \in 0..MaxOps
    /\ by \in [Users \X Rows -> 0..MaxTokens]
    /\ raced \subseteq links
    /\ held \in [Requests -> SUBSET Rows]
    \* uq_accounts_market_gateway_account_id
    /\ \A r, s \in DOMAIN gateway :
          gateway[r] = gateway[s] /\ gateway[r] # NoGateway => r = s

Init ==
    /\ gateway = [r \in Legacy |-> NoGateway]
    /\ origin = [r \in Rows |-> IF r \in Legacy THEN "legacy" ELSE "none"]
    /\ tokens = [r \in Rows |-> IF r \in Legacy THEN 1 ELSE 0]
    /\ live = [r \in Rows |-> IF r \in Legacy THEN {1} ELSE {}]
    /\ links = {} /\ cards = {}
    /\ session = [u \in Users |-> NoRow]
    /\ op = [p \in Requests |-> NoOp]
    /\ ops = 0
    /\ by = [l \in Users \X Rows |-> 0]
    /\ raced = {}
    /\ held = [p \in Requests |-> {}]

RowsOf(u) == {r \in Rows : <<u, r>> \in links}

\* Rows a request's user holds now are added to what it held before.
Hold == held' = [p \in Requests |->
                    IF op'[p].user = Nobody THEN {}
                    ELSE {r \in Rows : <<op'[p].user, r>> \in links'} \cup
                         (IF op[p].user = op'[p].user THEN held[p] ELSE {})]

Begin(p, o) ==
    /\ op[p] = NoOp /\ ops < MaxOps
    /\ ops' = ops + 1
    /\ op' = [op EXCEPT ![p] = o]

Finish(p) == op' = [op EXCEPT ![p] = NoOp] /\ UNCHANGED ops

\* Everything but the request's own slot.
TablesUnchanged == UNCHANGED <<gateway, origin, tokens, live, links, cards, session, by, raced>>

-----------------------------------------------------------------------------
(* Rows: upsert_gateway, _upsert_account of the trade repository, and      *)
(* create_account.                                                         *)

\* What a query's first row can be.
OrNone(S) == IF S = {} THEN {NoRow} ELSE S

\* The rows a handshake or a report of a gateway may mean, exact or legacy;
\* create_account looks for the exact one only.
Matching(kind, g) ==
    {r \in DOMAIN gateway : gateway[r] \in IF kind = "create" THEN {g} ELSE {g, NoGateway}}

ReadAccount(p, kind, g) ==
    /\ \E r \in OrNone(Matching(kind, g)) :
          Begin(p, [NoOp EXCEPT !.kind = kind, !.at = "commit", !.gateway = g, !.row = r])
    /\ TablesUnchanged

\* Mutant of MintsToken: only an admin's account gets a token.
MintsTokenAdmin(kind) == kind = "create"

\* A handshake and an admin add the first token with the row; a report of a
\* trade adds the row alone.
MintsToken(kind) == kind \in {"handshake", "create"}

\* Mutant of Taken: the table has no unique constraint.
TakenNever(g, r) == FALSE

\* uq_accounts_market_gateway_account_id
Taken(g, r) == \E s \in DOMAIN gateway : s # r /\ gateway[s] = g

CommitAccount(p) ==
    LET o == op[p]
    IN  /\ o.kind \in {"handshake", "trade", "create"} /\ o.at = "commit"
        /\ IF Taken(o.gateway, o.row) \/ (o.kind = "create" /\ o.row # NoRow)
           THEN TablesUnchanged
           ELSE /\ \E r \in IF o.row # NoRow THEN {o.row} ELSE {s \in Rows : ~Exists(s)} :
                      /\ gateway' = [s \in DOMAIN gateway \cup {r} |->
                                        IF s = r THEN o.gateway ELSE gateway[s]]
                      /\ IF o.row = NoRow
                         THEN /\ origin' = [origin EXCEPT ![r] =
                                               IF o.kind = "create" THEN "admin" ELSE o.kind]
                              /\ IF MintsToken(o.kind)
                                 THEN tokens' = [tokens EXCEPT ![r] = 1] /\ live' = [live EXCEPT ![r] = {1}]
                                 ELSE UNCHANGED <<tokens, live>>
                         ELSE UNCHANGED <<origin, tokens, live>>
                /\ UNCHANGED <<links, cards, session, by, raced>>
        /\ Finish(p)

-----------------------------------------------------------------------------
(* Links: link_telegram and admin_link_telegram.                           *)

\* What a linking request saw of its user.
Seen(u, r) ==
    (IF <<u, r>> \in links THEN {"link"} ELSE {})
        \cup (IF session[u] # NoRow THEN {"session"} ELSE {})
        \cup (IF session[u] \in Rows THEN {"pointer"} ELSE {})

\* Mutant of TokenValid: a token that was ever issued will do.
TokenValidRevoked(r, t) == t \in 1..tokens[r]

TokenValid(r, t) == t \in live[r]

\* By one of the account's valid tokens, or without one by an admin (0).
ReadLink(p, u, r) ==
    /\ Exists(r)
    /\ \E t \in {0} \cup {i \in 1..tokens[r] : TokenValid(r, i)} :
          Begin(p, [NoOp EXCEPT !.kind = IF t = 0 THEN "admin_link" ELSE "link", !.at = "commit",
                                !.user = u, !.row = r, !.seen = Seen(u, r),
                                !.valid = live[r], !.token = t])
    /\ TablesUnchanged

\* The link, and the pointer when the user had none.  An insert that meets a
\* row made since breaks a unique constraint.
CommitLink(p) ==
    LET o == op[p]
        l == <<o.user, o.row>>
        dup == \/ "link" \notin o.seen /\ l \in links
               \/ "session" \notin o.seen /\ session[o.user] # NoRow
    IN  /\ o.kind \in {"link", "admin_link"} /\ o.at = "commit"
        /\ IF dup THEN UNCHANGED <<links, session, by, raced>>
           ELSE /\ IF "link" \in o.seen THEN UNCHANGED <<links, by, raced>>
                   ELSE /\ links' = links \cup {l}
                        /\ by' = [by EXCEPT ![l] = o.token]
                        /\ raced' = IF o.token \in o.valid \ live[o.row]
                                    THEN raced \cup {l} ELSE raced
                /\ session' = IF "pointer" \in o.seen THEN session
                              ELSE [session EXCEPT ![o.user] = o.row]
        /\ Finish(p)
        /\ UNCHANGED <<gateway, origin, tokens, live, cards>>

-----------------------------------------------------------------------------
(* The active account: get_active_account, set_active_account, and what    *)
(* requests do with it.                                                    *)

\* get_linked_account starts: /unlink, a command, or a subscription.
BeginActive(p, u, kind, on) ==
    /\ Begin(p, [NoOp EXCEPT !.kind = kind, !.at = "active", !.user = u, !.on = on])
    /\ TablesUnchanged

Resolve(p, r) ==
    /\ op' = [op EXCEPT ![p].at = "act", ![p].row = r]
    /\ UNCHANGED ops

\* Mutant of PointerGood: the pointer is trusted.
PointerGoodUnchecked(u) == session[u] \in Rows

\* The pointer counts only with a link behind it, checked in the same query.
PointerGood(u) == session[u] \in RowsOf(u)

ReadActive(p) ==
    LET u == op[p].user
    IN  /\ op[p].at = "active"
        /\ IF PointerGood(u) THEN Resolve(p, session[u])
           ELSE op' = [op EXCEPT ![p].at = "list"] /\ UNCHANGED ops
        /\ TablesUnchanged

\* list_by_telegram_user_id; the first of the list is whichever was active
\* last.  Nothing linked answers 404.
ListAccounts(p) ==
    LET u == op[p].user
    IN  /\ op[p].at = "list"
        /\ IF RowsOf(u) = {} THEN Finish(p)
           ELSE /\ \E r \in RowsOf(u) : op' = [op EXCEPT ![p].at = "heal", ![p].row = r]
                /\ UNCHANGED ops
        /\ TablesUnchanged

\* The pointer is healed, best-effort; the fallback is returned either way.
Heal(p, ok) ==
    /\ op[p].at = "heal"
    /\ session' = IF ok THEN [session EXCEPT ![op[p].user] = op[p].row] ELSE session
    /\ Resolve(p, op[p].row)
    /\ UNCHANGED <<gateway, origin, tokens, live, links, cards, by, raced>>

\* A trading command, a setting or a read acts on the account it resolved.
Command(p) ==
    /\ op[p].kind = "command" /\ op[p].at = "act"
    /\ Finish(p)
    /\ TablesUnchanged

\* _set_enabled touches the link if it is still there.
Subscribe(p) ==
    LET l == <<op[p].user, op[p].row>>
    IN  /\ op[p].kind = "subscribe" /\ op[p].at = "act"
        /\ cards' = IF op[p].on /\ l \in links THEN cards \cup {l} ELSE cards \ {l}
        /\ Finish(p)
        /\ UNCHANGED <<gateway, origin, tokens, live, links, session, by, raced>>

\* subscribe_all and unsubscribe_all: one update over the user's links.
SubscribeAll(u, on) ==
    /\ ops < MaxOps /\ ops' = ops + 1
    /\ cards' = IF on THEN cards \cup {l \in links : l[1] = u} ELSE {l \in cards : l[1] # u}
    /\ UNCHANGED <<gateway, origin, tokens, live, links, session, op, by, raced>>

\* unlink_telegram: the link goes, the pointer moves to one that is left.
Unlink(p) ==
    LET u == op[p].user
        r == op[p].row
        rest == RowsOf(u) \ {r}
    IN  /\ op[p].kind = "unlink" /\ op[p].at = "act"
        /\ links' = links \ {<<u, r>>}
        /\ cards' = cards \ {<<u, r>>}
        /\ raced' = raced \ {<<u, r>>}
        /\ \E left \in IF rest = {} THEN {NoPointer} ELSE rest :
              session' = [session EXCEPT ![u] = IF @ = NoRow THEN NoRow ELSE left]
        /\ Finish(p)
        /\ UNCHANGED <<gateway, origin, tokens, live, by>>

\* set_active_account: the caller must hold the account it names.
ReadSwitch(p, u, r) ==
    /\ r \in RowsOf(u)
    /\ Begin(p, [NoOp EXCEPT !.kind = "switch", !.at = "commit", !.user = u, !.row = r,
                             !.seen = Seen(u, r)])
    /\ TablesUnchanged

CommitSwitch(p) ==
    LET o == op[p]
    IN  /\ o.kind = "switch" /\ o.at = "commit"
        /\ session' = IF "session" \notin o.seen /\ session[o.user] # NoRow THEN session
                      ELSE [session EXCEPT ![o.user] = o.row]
        /\ Finish(p)
        /\ UNCHANGED <<gateway, origin, tokens, live, links, cards, by, raced>>

-----------------------------------------------------------------------------
(* rotate_link_token: by bare account_id, so whichever row comes first.    *)

ReadRotate(p) ==
    /\ \E r \in DOMAIN gateway :
          Begin(p, [NoOp EXCEPT !.kind = "rotate", !.at = "commit", !.row = r, !.valid = live[r]])
    /\ TablesUnchanged

\* Mutant of LinksAfterRotation: the links stay.
LinksAfterRotationKept(r) == links

\* Rotation deletes every link of the row.
LinksAfterRotation(r) == {l \in links : l[2] # r}

\* Revoke what was valid when read, drop every link, clear the pointers at
\* the row, add a token.
CommitRotate(p) ==
    LET r == op[p].row
    IN  /\ op[p].kind = "rotate" /\ op[p].at = "commit"
        /\ tokens[r] < MaxTokens
        /\ tokens' = [tokens EXCEPT ![r] = @ + 1]
        /\ live' = [live EXCEPT ![r] = (@ \ op[p].valid) \cup {tokens[r] + 1}]
        /\ links' = LinksAfterRotation(r)
        /\ cards' = cards \cap links'
        /\ session' = [u \in Users |-> IF session[u] = r THEN NoPointer ELSE session[u]]
        /\ raced' = raced \cap links'
        /\ Finish(p)
        /\ UNCHANGED <<gateway, origin, by>>

-----------------------------------------------------------------------------
\* A method whose session fails rolls back and answers as if it found nothing.
Abort(p) ==
    /\ op[p].at \notin {"idle", "heal"}
    /\ Finish(p)
    /\ TablesUnchanged

Step(p) ==
    \/ \E g \in Gateways : \E kind \in {"handshake", "trade", "create"} : ReadAccount(p, kind, g)
    \/ \E u \in Users : \E r \in Rows : ReadLink(p, u, r) \/ ReadSwitch(p, u, r)
    \/ \E u \in Users :
          \/ \E kind \in {"unlink", "command"} : BeginActive(p, u, kind, FALSE)
          \/ \E on \in BOOLEAN : BeginActive(p, u, "subscribe", on)
    \/ ReadRotate(p)
    \/ CommitAccount(p) \/ CommitLink(p) \/ CommitSwitch(p) \/ CommitRotate(p)
    \/ ReadActive(p) \/ ListAccounts(p) \/ (\E ok \in BOOLEAN : Heal(p, ok))
    \/ Command(p) \/ Subscribe(p) \/ Unlink(p) \/ Abort(p)

Next ==
    /\ \/ \E p \in Requests : Step(p)
       \/ \E u \in Users : \E on \in BOOLEAN : SubscribeAll(u, on)
    /\ Hold

Spec == Init /\ [][Next]_vars

-----------------------------------------------------------------------------
(* Safety.                                                                 *)

\* An account that came by a handshake or an admin can be claimed at any
\* time: rotation never leaves it without a valid token, whatever runs at the
\* same time.  (One that came by a TRADE report has none until it is rotated.)
ClaimableToken ==
    \A r \in Rows : origin[r] \in {"handshake", "admin"} => live[r] # {}

\* Rotation hands the account over: a link made with a token lasts no longer
\* than the token, unless the token was revoked between link_telegram's check
\* of it and its commit (it does not look again).
LinkedByValidToken ==
    \A l \in links \ raced : by[l] = 0 \/ by[l] \in live[l[2]]

\* "Rotating revokes the old ones but never evicts anyone already linked"
\* (docs/database.md): a link outlives the new token of its account.
RotationKeepsLinks ==
    [][\A l \in links : tokens'[l[2]] > tokens[l[2]] => l \in links']_vars

\* The account a request acts on is one its user held at some moment of the
\* request: neither a pointer left behind by a race, nor a healed one, gives
\* access to an account that is no longer linked.
ActsOnOwnAccount ==
    \A p \in Requests :
        op[p].at = "act" => op[p].row \in held[p]

=============================================================================
