---------------------------- MODULE OAuthGrants ----------------------------
(***************************************************************************)
(* The authorization server of the MCP server: web accounts, registered    *)
(* apps, authorization codes, and the family of tokens each code becomes.  *)
(*                                                                         *)
(* A family is the code it comes from, its tokens a sequence of pairs, one *)
(* per issue or rotation.  The store is PostgreSQL: each store call is a   *)
(* transaction of its own, and those whose UPDATE works on a snapshot      *)
(* while another transaction inserts (a revocation against a rotation) are *)
(* split into the moment of the snapshot and the moment of the commit.     *)
(***************************************************************************)
EXTENDS Integers, Sequences, FiniteSets

CONSTANTS Accounts,   \* web accounts, by email
          Shops,      \* real shops, each with one invite code
          DemoShop,   \* stands for the sample shop of whichever account
          Clients,    \* apps that may connect
          UrlClients, \* the apps whose client_id is the URL of their metadata
          Scopes,     \* the sets of scopes a consent may grant
          Handlers,   \* HTTP requests being handled at a time
          NoOne,
          Bounds      \* the bounds of each scenario, see BoundsOf

LockAt == 5           \* failed sign-ins that lock an account

(* What bounds the scenario: codes and pairs of tokens per code, failed    *)
(* sign-ins, lock periods waited out, things that expire, requests that    *)
(* die, requests handled at a time, requests to the tools (McpSessions),   *)
(* whether an account is there, signed in, from the start, and the apps.   *)
BoundsOf == [codes : Nat, pairs : Nat, wrong : Nat, waits : Nat, time : Nat, faults : Nat,
             handled : Nat, calls : Nat, joined : BOOLEAN, apps : SUBSET Clients]

ASSUME GrantAssumption ==
    /\ IsFiniteSet(Handlers) /\ UrlClients \subseteq Clients
    /\ DemoShop \notin Shops /\ NoOne \notin Accounts
    /\ \A s \in Scopes : s \subseteq {"shop.write", "offline_access"}
    /\ Bounds \subseteq BoundsOf

VARIABLES
    bound,     \* the bounds of this execution
    account,   \* account -> its row, "none" or "deleted" included
    cookie,    \* the account the browser is signed in to
    client,    \* app -> "unknown", "used", "idle" or "gone"
    code,      \* family -> the row of its code, NoCode before there is one
    token,     \* family -> its pairs, oldest first
    doing,     \* handler -> what it has read and not yet written
    invite,    \* the invite codes not yet used
    killed,    \* family -> how its tokens were last revoked
    relinked,  \* accounts linked while a consent was still being turned into tokens
    waited,    \* account -> lock periods since its last sign-in
    elapsed,   \* things that have expired
    faults     \* requests that died

grantVars == <<bound, account, cookie, client, code, token, doing, invite, killed, relinked, waited, elapsed, faults>>

Families == DOMAIN code
Idle == [kind |-> "idle"]

Exists(a) == account[a].state = "open"
Known(c) == client[c] \in {"used", "idle"}

(* resolveClient: an app named by its URL need not be registered.          *)
Resolvable(c) == Known(c) \/ c \in bound.apps \intersect UrlClients

(* sessionAccount: the cookie outlives the account.                        *)
SignedIn == cookie # NoOne /\ Exists(cookie)

NoCode == [age |-> "none"]
IssuedCode(f) == code[f].age # "none"

AccountRow(state) == [state |-> state, shop |-> DemoShop, failed |-> 0, locked |-> FALSE]

GrantInit ==
    /\ bound \in Bounds
    /\ account = [a \in Accounts |-> AccountRow(IF bound.joined THEN "open" ELSE "none")]
    /\ cookie \in IF bound.joined THEN Accounts ELSE {NoOne}
    /\ client = [c \in Clients |-> IF bound.joined /\ c \in bound.apps THEN "used" ELSE "unknown"]
    /\ code = [f \in 1..bound.codes |-> NoCode]
    /\ token = [f \in 1..bound.codes |-> <<>>]
    /\ doing = [h \in Handlers |-> Idle]
    /\ invite = Shops
    /\ killed = [f \in 1..bound.codes |-> "no"]
    /\ relinked = {}
    /\ waited = [a \in Accounts |-> 0]
    /\ elapsed = 0
    /\ faults = 0

(* A request starts, and a request ends.                                   *)
Busy == {h \in Handlers : doing[h] # Idle}
Begin(h, r) == doing[h] = Idle /\ Cardinality(Busy) < bound.handled /\ doing' = [doing EXCEPT ![h] = r]
End(h) == doing' = [doing EXCEPT ![h] = Idle]

----------------------------------------------------------------------------
(* Accounts and sign-in.                                                   *)

SignUp(a) ==
    /\ account[a].state = "none"
    /\ account' = [account EXCEPT ![a] = AccountRow("open")]
    /\ cookie' = a
    /\ UNCHANGED <<bound, client, code, token, doing, invite, killed, relinked, waited, elapsed, faults>>

(* findCredentials: a missing or locked account is refused at once.        *)
LogIn(h, a) ==
    /\ Exists(a) /\ ~account[a].locked
    /\ Begin(h, [kind |-> "login", account |-> a])
    /\ UNCHANGED <<bound, account, cookie, client, code, token, invite, killed, relinked, waited, elapsed, faults>>

(* Mutant of RecordedLogin: locks one failure late.                        *)
RecordedLoginLate(row, ok) ==
    IF ok THEN [row EXCEPT !.failed = 0, !.locked = FALSE]
    ELSE [row EXCEPT !.failed = @ + 1, !.locked = @ \/ row.failed >= LockAt]

(* recordLogin: the count is not reset when a lock period ends.            *)
RecordedLogin(row, ok) ==
    IF ok THEN [row EXCEPT !.failed = 0, !.locked = FALSE]
    ELSE [row EXCEPT !.failed = @ + 1, !.locked = @ \/ row.failed + 1 >= LockAt]

(* The password was compared; the verdict is recorded.                     *)
CheckedLogIn(h, ok) ==
    LET a == doing[h].account IN
    /\ doing[h].kind = "login"
    /\ ok \/ ~Exists(a) \/ account[a].failed < bound.wrong
    /\ IF Exists(a)
       THEN /\ account' = [account EXCEPT ![a] = RecordedLogin(@, ok)]
            /\ cookie' = IF ok THEN a ELSE cookie
            /\ waited' = [waited EXCEPT ![a] = IF ok THEN 0 ELSE @]
       ELSE UNCHANGED <<account, cookie, waited>>
    /\ End(h)
    /\ UNCHANGED <<bound, client, code, token, invite, killed, relinked, elapsed, faults>>

(* Fifteen minutes pass.                                                   *)
LockEnds(a) ==
    /\ Exists(a) /\ account[a].locked /\ waited[a] < bound.waits
    /\ account' = [account EXCEPT ![a].locked = FALSE]
    /\ waited' = [waited EXCEPT ![a] = @ + 1]
    /\ UNCHANGED <<bound, cookie, client, code, token, doing, invite, killed, relinked, elapsed, faults>>

LogOut ==
    /\ cookie # NoOne
    /\ cookie' = NoOne
    /\ UNCHANGED <<bound, account, client, code, token, doing, invite, killed, relinked, waited, elapsed, faults>>

----------------------------------------------------------------------------
(* Apps and consent.                                                       *)

Register(c) ==
    /\ c \in bound.apps \ UrlClients /\ client[c] = "unknown"
    /\ client' = [client EXCEPT ![c] = "used"]
    /\ UNCHANGED <<bound, account, cookie, code, token, doing, invite, killed, relinked, waited, elapsed, faults>>

(* The owner presses allow: the account and the app are looked up.         *)
Allow(h, c, scopes) ==
    /\ SignedIn /\ Resolvable(c)
    /\ Begin(h, [kind |-> "allow", account |-> cookie, client |-> c, scopes |-> scopes])
    /\ UNCHANGED <<bound, account, cookie, client, code, token, invite, killed, relinked, waited, elapsed, faults>>

CodeRow(r) ==
    [account |-> r.account, client |-> r.client, scopes |-> r.scopes,
     shop |-> account[r.account].shop, used |-> FALSE, age |-> "fresh"]

(* createCode; an app named by its URL is registered first.  A row whose   *)
(* account is gone is refused by its foreign key.                          *)
CreateCode(h, f) ==
    LET r == doing[h] IN
    /\ r.kind = "allow" /\ ~IssuedCode(f)
    /\ \A g \in Families : g < f => IssuedCode(g)
    /\ IF Exists(r.account) /\ Resolvable(r.client)
       THEN /\ code' = [code EXCEPT ![f] = CodeRow(r)]
            /\ client' = [client EXCEPT ![r.client] = "used"]
       ELSE UNCHANGED <<code, client>>
    /\ End(h)
    /\ UNCHANGED <<bound, account, cookie, token, invite, killed, relinked, waited, elapsed, faults>>

----------------------------------------------------------------------------
(* Tokens.                                                                 *)

Pairs(f) == {<<f, i>> : i \in 1..Len(token[f])}
PairAt(p) == token[p[1]][p[2]]

Live(pair) ==
    \/ pair.access = "active" /\ pair.age = "fresh"
    \/ pair.refresh = "active" /\ pair.age \in {"fresh", "stale"}

Dead(pair) == pair.access = "revoked" /\ pair.refresh \in {"none", "revoked"}

IssuedPair(f) ==
    [access |-> "active", age |-> "fresh",
     refresh |-> IF "offline_access" \in code[f].scopes THEN "active" ELSE "none"]

(* Mutant of Locked: a rotation reads its row without locking it.          *)
LockedNever(p) == FALSE

(* Requests that hold the row lock of a pair, and that will insert one.    *)
Locked(p) == \E h \in Handlers : doing[h].kind = "rotate" /\ doing[h].pair = p
Issuing(f) == \E h \in Handlers : doing[h].kind \in {"issue", "rotate"} /\ doing[h].family = f

(* An UPDATE of the tokens takes its snapshot.                             *)
ScanTo(h, kind, a, shop, seen) ==
    Begin(h, [kind |-> kind, account |-> a, shop |-> shop, seen |-> seen])

(* consumeCode and the checks that follow it.  "proof" says whether app,   *)
(* redirect URI and PKCE verifier are those of the code; they are compared *)
(* when the code is already used up.                                       *)
Exchange(h, f, c, proof) ==
    LET row == code[f] IN
    /\ IssuedCode(f) /\ row.age # "gone" /\ Known(c) /\ (proof => c = row.client)
    /\ IF row.used
       THEN ScanTo(h, "revoke", NoOne, NoOne, Pairs(f)) /\ UNCHANGED code
       ELSE /\ code' = [code EXCEPT ![f].used = TRUE]
            /\ IF row.age = "over" \/ ~proof
               THEN doing[h] = Idle /\ Cardinality(Busy) < bound.handled /\ UNCHANGED doing
               ELSE Begin(h, [kind |-> "issue", family |-> f])
    /\ UNCHANGED <<bound, account, cookie, client, token, invite, killed, relinked, waited, elapsed, faults>>

(* issueTokens: the pair is inserted in a transaction of its own.  The     *)
(* foreign keys refuse it when account or app have gone.                   *)
Issue(h) ==
    LET f == doing[h].family IN
    /\ doing[h].kind = "issue"
    /\ token' = IF Exists(code[f].account) /\ Known(code[f].client)
                THEN [token EXCEPT ![f] = Append(@, IssuedPair(f))] ELSE token
    /\ End(h)
    /\ UNCHANGED <<bound, account, cookie, client, code, invite, killed, relinked, waited, elapsed, faults>>

Reused(pair) == pair.refresh \in {"rotated", "revoked"}

Refreshable(pair) == pair.refresh = "active" /\ pair.age \in {"fresh", "stale"}

(* The first half of a rotation: the row is locked and read.               *)
Refresh(h, p) ==
    LET f == p[1] IN
    /\ p \in Pairs(f) /\ PairAt(p).refresh # "none" /\ PairAt(p).age # "gone" /\ ~Locked(p)
    /\ Known(code[f].client) /\ Len(token[f]) < bound.pairs
    /\ \/ Reused(PairAt(p)) /\ ScanTo(h, "revoke", NoOne, NoOne, Pairs(f))
       \/ /\ ~Reused(PairAt(p)) /\ Refreshable(PairAt(p)) /\ Exists(code[f].account)
          /\ Begin(h, [kind |-> "rotate", family |-> f, pair |-> p])
    /\ UNCHANGED <<bound, account, cookie, client, code, token, invite, killed, relinked, waited, elapsed, faults>>

(* The second half: the old token is marked and a new pair inserted.       *)
Rotated(h) ==
    LET p == doing[h].pair f == p[1] IN
    /\ doing[h].kind = "rotate"
    /\ token' = [token EXCEPT ![f] = Append([@ EXCEPT ![p[2]].refresh = "rotated"], IssuedPair(f))]
    /\ client' = [client EXCEPT ![code[f].client] = "used"]
    /\ End(h)
    /\ UNCHANGED <<bound, account, cookie, code, invite, killed, relinked, waited, elapsed, faults>>

(* /oauth/revoke: either token of a pair revokes the family.               *)
RevokeToken(h, p) ==
    /\ p \in Pairs(p[1]) /\ PairAt(p).age # "gone" /\ Known(code[p[1]].client)
    /\ ScanTo(h, "revoke", NoOne, NoOne, Pairs(p[1]))
    /\ UNCHANGED <<bound, account, cookie, client, code, token, invite, killed, relinked, waited, elapsed, faults>>

OwnFamilies(a) == {f \in Families : IssuedCode(f) /\ code[f].account = a}
OwnPairs(a) == UNION {Pairs(f) : f \in OwnFamilies(a)}

(* /account, revoke: every family of one app.                              *)
RevokeGrant(h, c) ==
    /\ SignedIn
    /\ ScanTo(h, "revoke", NoOne, NoOne, {p \in OwnPairs(cookie) : code[p[1]].client = c})
    /\ UNCHANGED <<bound, account, cookie, client, code, token, invite, killed, relinked, waited, elapsed, faults>>

(* Mutant of RevokedPair: lets the access token run on to its expiry.      *)
RevokedPairRefreshOnly(pair) == [pair EXCEPT !.refresh = IF @ = "none" THEN @ ELSE "revoked"]

RevokedPair(pair) ==
    [pair EXCEPT !.access = "revoked", !.refresh = IF @ = "none" THEN @ ELSE "revoked"]

(* Linking revokes only what is still active.                              *)
UnlinkedPair(pair) ==
    [pair EXCEPT !.access = "revoked", !.refresh = IF @ = "active" THEN "revoked" ELSE @]

Changed(seen, Op(_)) ==
    [f \in Families |-> [i \in DOMAIN token[f] |->
        IF <<f, i>> \in seen THEN Op(token[f][i]) ELSE token[f][i]]]

(* The UPDATE commits, once the rows it saw are not locked.  Rows inserted *)
(* after its snapshot are not touched.                                     *)
Revoke(h) ==
    LET seen == doing[h].seen IN
    /\ doing[h].kind = "revoke" /\ \A p \in seen : ~Locked(p)
    /\ token' = Changed(seen, RevokedPair)
    /\ killed' = [f \in Families |->
          IF \A p \in seen : p[1] # f THEN killed[f]
          ELSE IF Pairs(f) \subseteq seen /\ ~Issuing(f) THEN "clean" ELSE "raced"]
    /\ End(h)
    /\ UNCHANGED <<bound, account, cookie, client, code, invite, relinked, waited, elapsed, faults>>

(* /account, link: the invite code is claimed, the account changed, and    *)
(* the tokens scanned, in one transaction.                                 *)
Link(h, shop) ==
    /\ SignedIn /\ shop \in invite
    /\ \A k \in Handlers : doing[k].kind = "link" => doing[k].account # cookie /\ doing[k].shop # shop
    /\ ScanTo(h, "link", cookie, shop, {p \in OwnPairs(cookie) : PairAt(p).refresh = "active" \/ PairAt(p).access = "active"})
    /\ UNCHANGED <<bound, account, cookie, client, code, token, invite, killed, relinked, waited, elapsed, faults>>

(* A consent that was given and has not yet become tokens.                 *)
Consenting(a) ==
    \/ \E h \in Handlers : doing[h].kind = "allow" /\ doing[h].account = a
    \/ \E f \in OwnFamilies(a) : Issuing(f) \/ ~code[f].used

(* Mutant of Linked: revokes the tokens an app refreshes with only.        *)
LinkedRefreshOnly(h) ==
    LET a == doing[h].account seen == doing[h].seen IN
    /\ doing[h].kind = "link" /\ \A p \in seen : ~Locked(p)
    /\ account' = [account EXCEPT ![a].shop = doing[h].shop]
    /\ invite' = invite \ {doing[h].shop}
    /\ token' = [f \in Families |-> [i \in DOMAIN token[f] |->
          IF <<f, i>> \in seen THEN [token[f][i] EXCEPT !.refresh = IF @ = "active" THEN "revoked" ELSE @]
          ELSE token[f][i]]]
    /\ relinked' = IF Consenting(a) \/ ~(OwnPairs(a) \subseteq seen \union {p \in OwnPairs(a) : ~Live(PairAt(p))})
                   THEN relinked \union {a} ELSE relinked
    /\ End(h)
    /\ UNCHANGED <<bound, cookie, client, code, killed, waited, elapsed, faults>>

Linked(h) ==
    LET a == doing[h].account seen == doing[h].seen IN
    /\ doing[h].kind = "link" /\ \A p \in seen : ~Locked(p)
    /\ account' = [account EXCEPT ![a].shop = doing[h].shop]
    /\ invite' = invite \ {doing[h].shop}
    /\ token' = Changed(seen, UnlinkedPair)
    /\ relinked' = IF Consenting(a) \/ (\E p \in OwnPairs(a) \ seen : Live(PairAt(p)))
                   THEN relinked \union {a} ELSE relinked
    /\ End(h)
    /\ UNCHANGED <<bound, cookie, client, code, killed, waited, elapsed, faults>>

(* /account, delete: the rows of the account go with it.  The statement    *)
(* waits for transactions that hold a row of the account.                  *)
DeleteAccount ==
    LET a == cookie IN
    /\ SignedIn
    /\ \A h \in Handlers : /\ doing[h].kind = "link" => doing[h].account # a
                           /\ doing[h].kind = "rotate" => code[doing[h].family].account # a
    /\ account' = [account EXCEPT ![a] = AccountRow("deleted")]
    /\ code' = [f \in Families |-> IF f \in OwnFamilies(a) THEN [code[f] EXCEPT !.age = "gone"] ELSE code[f]]
    /\ token' = [f \in Families |-> IF f \in OwnFamilies(a) THEN <<>> ELSE token[f]]
    /\ cookie' = NoOne
    /\ UNCHANGED <<bound, client, doing, invite, killed, relinked, waited, elapsed, faults>>

----------------------------------------------------------------------------
(* Time, housekeeping, faults.                                             *)

Passes == elapsed < bound.time /\ elapsed' = elapsed + 1

Later == [fresh |-> "stale", stale |-> "over", over |-> "gone"]

(* An access token expires, later the refresh token of the pair, the       *)
(* oldest pair first; a week after that cleanup deletes both.              *)
TokenAges(p) ==
    /\ p \in Pairs(p[1]) /\ PairAt(p).age # "gone"
    /\ \A i \in 1..(p[2] - 1) : token[p[1]][i].age # PairAt(p).age
    /\ token' = [token EXCEPT ![p[1]][p[2]].age = Later[@]]
    /\ Passes
    /\ UNCHANGED <<bound, account, cookie, client, code, doing, invite, killed, relinked, waited, faults>>

(* A code expires; a day later cleanup deletes its row, used or not.       *)
CodeDeleted(f) ==
    /\ IssuedCode(f) /\ code[f].age = "over"
    /\ code' = [code EXCEPT ![f].age = "gone"]
    /\ Passes
    /\ UNCHANGED <<bound, account, cookie, client, token, doing, invite, killed, relinked, waited, faults>>

CodeExpires(f) ==
    /\ IssuedCode(f) /\ code[f].age = "fresh"
    /\ code' = [code EXCEPT ![f].age = "over"]
    /\ Passes
    /\ UNCHANGED <<bound, account, cookie, client, token, doing, invite, killed, relinked, waited, faults>>

ClientIdles(c) ==
    /\ client[c] = "used"
    /\ \A f \in Families : IssuedCode(f) /\ code[f].client = c => code[f].age # "fresh"
    /\ client' = [client EXCEPT ![c] = "idle"]
    /\ Passes
    /\ UNCHANGED <<bound, account, cookie, code, token, doing, invite, killed, relinked, waited, faults>>

(* cleanup, every six hours: an idle registered app without a live token   *)
(* goes, and what it had with it.                                          *)
CleanUp(c) ==
    LET its == {f \in Families : IssuedCode(f) /\ code[f].client = c} IN
    /\ client[c] = "idle" /\ c \notin UrlClients
    /\ \A f \in its : ~Issuing(f) /\ \A i \in DOMAIN token[f] : ~Live(token[f][i])
    /\ client' = [client EXCEPT ![c] = "gone"]
    /\ code' = [f \in Families |-> IF f \in its THEN [code[f] EXCEPT !.age = "gone"] ELSE code[f]]
    /\ token' = [f \in Families |-> IF f \in its THEN <<>> ELSE token[f]]
    /\ UNCHANGED <<bound, account, cookie, doing, invite, killed, relinked, waited, elapsed, faults>>

(* A request dies, or its transaction is rolled back.                      *)
Die(h) ==
    /\ doing[h] # Idle /\ faults < bound.faults
    /\ faults' = faults + 1
    /\ End(h)
    /\ UNCHANGED <<bound, account, cookie, client, code, token, invite, killed, relinked, waited, elapsed>>

----------------------------------------------------------------------------

(* Everything but the deletion of an account, which takes its shop along.  *)
GrantNext ==
    \/ \E a \in Accounts : SignUp(a) \/ LockEnds(a)
    \/ \E h \in Handlers :
          \/ \E a \in Accounts : LogIn(h, a)
          \/ \E ok \in BOOLEAN : CheckedLogIn(h, ok)
          \/ \E c \in Clients, s \in Scopes : Allow(h, c, s)
          \/ \E f \in Families : CreateCode(h, f)
          \/ \E f \in Families, c \in Clients, proof \in BOOLEAN : Exchange(h, f, c, proof)
          \/ Issue(h) \/ Rotated(h) \/ Revoke(h) \/ Linked(h) \/ Die(h)
          \/ \E f \in Families : \E i \in 1..Len(token[f]) : Refresh(h, <<f, i>>) \/ RevokeToken(h, <<f, i>>)
          \/ \E c \in Clients : RevokeGrant(h, c)
          \/ \E s \in Shops : Link(h, s)
    \/ \E c \in Clients : Register(c) \/ ClientIdles(c) \/ CleanUp(c)
    \/ \E f \in Families : CodeExpires(f) \/ CodeDeleted(f) \/ \E i \in 1..Len(token[f]) : TokenAges(<<f, i>>)
    \/ LogOut

(* What must hold.                                                         *)

(* Guessing a password is stopped at the fifth failure: only requests that *)
(* had already passed the look at the lock add to the count, in each lock  *)
(* period (findCredentials before verifyPassword before recordLogin).      *)
GuessesBounded ==
    \A a \in Accounts : Exists(a) =>
        account[a].failed <= (LockAt - 1) + (1 + waited[a]) * Cardinality(Handlers)

(* At most one refresh token of a grant is good at a time, however the     *)
(* exchange, the rotations and the revocations interleave.                 *)
OneRefreshToken ==
    \A f \in Families : Cardinality({i \in DOMAIN token[f] : token[f][i].refresh = "active"}) <= 1

(* A family that was revoked while nothing was being issued for it stays   *)
(* dead: no later exchange or rotation revives it.                         *)
RevokedStaysDead ==
    \A f \in Families : killed[f] = "clean" => \A i \in DOMAIN token[f] : Dead(token[f][i])

(* An app reaches only the shop the owner saw when consenting: linking a   *)
(* real shop leaves no live token from before, unless a consent was still  *)
(* on its way to becoming tokens when the link was committed.              *)
ConsentHolds ==
    \A f \in Families : \A i \in DOMAIN token[f] :
        /\ Live(token[f][i]) /\ Exists(code[f].account)
        /\ code[f].account \notin relinked
        => code[f].shop = account[code[f].account].shop
=============================================================================
