---------------------------- MODULE BoundProofs ----------------------------
(***************************************************************************)
(* The limits that are looked at before they are used up, for any number   *)
(* of requests that look at once: failed sign-ins, sessions, rules.        *)
(***************************************************************************)
EXTENDS AssistantProofs, GrantProofs

-----------------------------------------------------------------------------
(* Failed sign-ins.                                                        *)

AtOnce == Cardinality(Handlers)

Guessing(a) == {h \in Handlers : doing[h].kind = "login" /\ doing[h].account = a}

\* What lock periods allow is used up by failures and by requests that have
\* passed the look at the lock; without a lock one period is still to come.
Allowed(failed, locked, periods, n) ==
    /\ failed \in Nat /\ locked \in BOOLEAN /\ periods \in Nat
    /\ failed + n <= (LockAt - 1) + (1 + periods) * AtOnce
    /\ ~locked => failed <= (LockAt - 1) + periods * AtOnce

GuessOK(a) == Allowed(account[a].failed, account[a].locked, waited[a], Cardinality(Guessing(a)))

GuessInv == DOMAIN waited = Accounts /\ \A a \in Accounts : GuessOK(a)

LEMMA HandlersCounted ==
  /\ AtOnce \in Nat
  /\ \A S \in SUBSET Handlers : IsFiniteSet(S) /\ Cardinality(S) \in Nat /\ Cardinality(S) <= AtOnce
  /\ \A S, T : S \subseteq T /\ T \subseteq Handlers => Cardinality(S) <= Cardinality(T)
BY GrantAssumption, FS_Subset, FS_CardinalityType DEF AtOnce

LEMMA Periods ==
  ASSUME NEW w \in Nat
  PROVE  /\ w * AtOnce \in Nat /\ (1 + w) * AtOnce = AtOnce + w * AtOnce
         /\ (1 + (w + 1)) * AtOnce = AtOnce + (1 + w) * AtOnce
         /\ (1 + w) * AtOnce = (w + 1) * AtOnce
BY HandlersCounted

LEMMA AllowedLess ==
  ASSUME NEW f, NEW l, NEW w, NEW n \in Nat, NEW m \in Nat, m <= n, Allowed(f, l, w, n)
  PROVE  Allowed(f, l, w, m)
BY HandlersCounted, Periods DEF Allowed, LockAt

LEMMA AllowedFresh ==
  ASSUME NEW w \in Nat, NEW n \in Nat, n <= AtOnce
  PROVE  Allowed(0, FALSE, w, n)
BY HandlersCounted, Periods DEF Allowed, LockAt

LEMMA AllowedBegins ==
  ASSUME NEW f, NEW w, NEW n, NEW m \in Nat, m <= AtOnce, Allowed(f, FALSE, w, n)
  PROVE  Allowed(f, FALSE, w, m)
BY HandlersCounted, Periods DEF Allowed, LockAt

LEMMA AllowedFails ==
  ASSUME NEW f, NEW l, NEW w, NEW n \in Nat \ {0}, n <= AtOnce, Allowed(f, l, w, n)
  PROVE  Allowed(f + 1, l \/ f + 1 >= LockAt, w, n - 1)
BY HandlersCounted, Periods DEF Allowed, LockAt

LEMMA AllowedWaits ==
  ASSUME NEW f, NEW l, NEW w, NEW n \in Nat, n <= AtOnce, Allowed(f, l, w, n)
  PROVE  Allowed(f, FALSE, w + 1, n)
BY HandlersCounted, Periods DEF Allowed, LockAt

LEMMA GuessersCounted ==
  /\ \A a : Cardinality(Guessing(a)) \in Nat /\ Cardinality(Guessing(a)) <= AtOnce
  /\ \A a : Cardinality(Guessing(a)') \in Nat /\ Cardinality(Guessing(a)') <= AtOnce
  /\ \A a : Guessing(a)' \subseteq Guessing(a) => Cardinality(Guessing(a)') <= Cardinality(Guessing(a))
<1>1. \A a : Guessing(a) \subseteq Handlers /\ Guessing(a)' \subseteq Handlers
  BY DEF Guessing
<1> QED
  BY <1>1, HandlersCounted

\* An account keeps within what is allowed when nobody starts guessing.
LEMMA GuessKept ==
  ASSUME NEW a \in Accounts, GuessOK(a), waited'[a] = waited[a], Guessing(a)' \subseteq Guessing(a),
         \/ account'[a].failed = account[a].failed /\ account'[a].locked = account[a].locked
         \/ account'[a].failed = 0 /\ account'[a].locked = FALSE
  PROVE  GuessOK(a)'
<1>1. Allowed(account[a].failed, account[a].locked, waited[a], Cardinality(Guessing(a)))
  BY DEF GuessOK
<1>2. waited[a] \in Nat
  BY <1>1 DEF Allowed
<1>3. CASE account'[a].failed = account[a].failed /\ account'[a].locked = account[a].locked
  <2>1. Allowed(account[a].failed, account[a].locked, waited[a], Cardinality(Guessing(a)'))
    BY <1>1, <1>2, GuessersCounted, AllowedLess
  <2> QED
    BY <1>3, <2>1 DEF GuessOK
<1>4. CASE account'[a].failed = 0 /\ account'[a].locked = FALSE
  <2>1. Allowed(0, FALSE, waited[a], Cardinality(Guessing(a)'))
    BY <1>2, GuessersCounted, AllowedFresh
  <2> QED
    BY <1>4, <2>1 DEF GuessOK
<1> QED
  BY <1>3, <1>4

\* Requests other than a sign-in.
LEMMA GuessUntouched ==
  ASSUME GrantInv, GuessInv, UNCHANGED waited,
         UNCHANGED doing \/ \E h \in Handlers : \E r : doing' = [doing EXCEPT ![h] = r] /\ r.kind # "login",
         \A a \in Accounts :
             \/ account'[a].failed = account[a].failed /\ account'[a].locked = account[a].locked
             \/ account'[a].failed = 0 /\ account'[a].locked = FALSE
  PROVE  GuessInv'
<1>1. ASSUME NEW a \in Accounts PROVE Guessing(a)' \subseteq Guessing(a)
  BY DEF Guessing, GrantInv, HandlersOK
<1>2. \A a \in Accounts : GuessOK(a)'
  BY <1>1, GuessKept DEF GuessInv
<1> QED
  BY <1>2 DEF GuessInv

LEMMA LogInGuess ==
  ASSUME GrantInv, ConsentInv, GuessInv, NEW h \in Handlers, NEW a \in Accounts, LogIn(h, a)
  PROVE  GuessInv'
<1> DEFINE r == [kind |-> "login", account |-> a]
<1>1. UNCHANGED <<account, waited>> /\ doing' = [doing EXCEPT ![h] = r] /\ ~account[a].locked
  BY DEF LogIn, Begin
<1>2. GuessOK(a)'
  <2>1. Allowed(account[a].failed, account[a].locked, waited[a], Cardinality(Guessing(a)))
    BY DEF GuessInv, GuessOK
  <2>2. account[a].locked = FALSE /\ waited[a] \in Nat
    BY <1>1, <2>1 DEF Allowed
  <2>3. Allowed(account[a].failed, FALSE, waited[a], Cardinality(Guessing(a)'))
    BY <2>1, <2>2, GuessersCounted, AllowedBegins
  <2> QED
    BY <1>1, <2>2, <2>3 DEF GuessOK
<1>3. ASSUME NEW b \in Accounts \ {a} PROVE GuessOK(b)'
  <2>1. Guessing(b)' \subseteq Guessing(b)
    BY <1>1 DEF Guessing, GrantInv, HandlersOK
  <2> QED
    BY <1>1, <2>1, GuessKept DEF GuessInv
<1> QED
  BY <1>1, <1>2, <1>3 DEF GuessInv

LEMMA LockEndsGuess ==
  ASSUME ConsentInv, GuessInv, NEW a \in Accounts, LockEnds(a)
  PROVE  GuessInv'
<1>1. /\ UNCHANGED doing
      /\ account' = [account EXCEPT ![a].locked = FALSE] /\ waited' = [waited EXCEPT ![a] = @ + 1]
      /\ DOMAIN account = Accounts /\ DOMAIN waited = Accounts
      /\ {"failed", "locked"} \subseteq DOMAIN account[a]
  BY DEF LockEnds, ConsentInv, AccountsOK, GuessInv
<1>2. \A b : Guessing(b)' = Guessing(b)
  BY <1>1 DEF Guessing
<1>3. GuessOK(a)'
  <2>1. Allowed(account[a].failed, account[a].locked, waited[a], Cardinality(Guessing(a)))
    BY DEF GuessInv, GuessOK
  <2>2. waited[a] \in Nat
    BY <2>1 DEF Allowed
  <2>3. Allowed(account[a].failed, FALSE, waited[a] + 1, Cardinality(Guessing(a)))
    BY <2>1, <2>2, GuessersCounted, AllowedWaits
  <2>4. account'[a].failed = account[a].failed /\ account'[a].locked = FALSE /\ waited'[a] = waited[a] + 1
    BY <1>1
  <2> QED
    BY <1>2, <2>3, <2>4 DEF GuessOK
<1>4. ASSUME NEW b \in Accounts \ {a} PROVE GuessOK(b)'
  <2>1. account'[b] = account[b] /\ waited'[b] = waited[b]
    BY <1>1
  <2> QED
    BY <1>2, <2>1, GuessKept DEF GuessInv
<1> QED
  BY <1>1, <1>3, <1>4 DEF GuessInv

\* The verdict on a password uses up the place of the request that asked.
LEMMA CheckedGuess ==
  ASSUME GrantInv, ConsentInv, GuessInv, NEW h \in Handlers, NEW ok \in BOOLEAN, CheckedLogIn(h, ok),
         NEW a, a = doing[h].account
  PROVE  GuessInv'
<1>1. /\ a \in Accounts /\ doing' = [doing EXCEPT ![h] = Idle] /\ doing[h].kind = "login"
      /\ DOMAIN account = Accounts /\ DOMAIN waited = Accounts /\ DOMAIN doing = Handlers
      /\ {"failed", "locked"} \subseteq DOMAIN account[a]
  BY DEF CheckedLogIn, ConsentInv, AccountsOK, AllowOK, GuessInv, End, GrantInv, HandlersOK
<1>2. \A b : Guessing(b)' = Guessing(b) \ {h}
  BY <1>1 DEF Guessing, Idle
<1>3. CASE ~Exists(a)
  <2>1. UNCHANGED <<account, waited>>
    BY <1>3 DEF CheckedLogIn
  <2>2. Idle.kind # "login"
    BY DEF Idle
  <2> QED
    BY <1>1, <2>1, <2>2, GuessUntouched
<1>4. CASE Exists(a)
  <2>1. /\ account' = [account EXCEPT ![a] = RecordedLogin(account[a], ok)]
        /\ waited' = [waited EXCEPT ![a] = IF ok THEN 0 ELSE waited[a]]
    BY <1>4 DEF CheckedLogIn
  <2>2. GuessOK(a)'
    <3>1. Allowed(account[a].failed, account[a].locked, waited[a], Cardinality(Guessing(a)))
      BY <1>1 DEF GuessInv, GuessOK
    <3>2. waited[a] \in Nat
      BY <3>1 DEF Allowed
    <3>3. CASE ok
      <4>1. account'[a].failed = 0 /\ account'[a].locked = FALSE /\ waited'[a] = 0
        BY <1>1, <2>1, <3>3 DEF RecordedLogin
      <4>2. Allowed(0, FALSE, 0, Cardinality(Guessing(a)'))
        BY GuessersCounted, AllowedFresh
      <4> QED
        BY <4>1, <4>2 DEF GuessOK
    <3>4. CASE ~ok
      <4>1. /\ account'[a].failed = account[a].failed + 1 /\ waited'[a] = waited[a]
            /\ account'[a].locked = (account[a].locked \/ account[a].failed + 1 >= LockAt)
        BY <1>1, <2>1, <3>4 DEF RecordedLogin
      <4>2. h \in Guessing(a) /\ IsFiniteSet(Guessing(a))
        BY <1>1, HandlersCounted DEF Guessing
      <4>3. Cardinality(Guessing(a)') = Cardinality(Guessing(a)) - 1 /\ Cardinality(Guessing(a)) # 0
        <5>1. Cardinality(Guessing(a) \ {h}) = Cardinality(Guessing(a)) - 1
          BY <4>2, FS_RemoveElement
        <5>2. Guessing(a)' = Guessing(a) \ {h}
          BY <1>2
        <5>3. Cardinality(Guessing(a)') = Cardinality(Guessing(a)) - 1
          BY <5>1, <5>2
        <5> QED
          BY <5>3, GuessersCounted
      <4>4. Allowed(account[a].failed + 1, account[a].locked \/ account[a].failed + 1 >= LockAt,
                    waited[a], Cardinality(Guessing(a)) - 1)
        BY <3>1, <3>2, <4>3, GuessersCounted, AllowedFails
      <4> QED
        BY <4>1, <4>3, <4>4 DEF GuessOK
    <3> QED
      BY <3>3, <3>4
  <2>3. ASSUME NEW b \in Accounts \ {a} PROVE GuessOK(b)'
    <3>1. account'[b] = account[b] /\ waited'[b] = waited[b]
      BY <1>1, <2>1
    <3> QED
      BY <1>2, <3>1, GuessKept DEF GuessInv
  <2> QED
    BY <1>1, <2>1, <2>2, <2>3 DEF GuessInv
<1> QED
  BY <1>3, <1>4

LEMMA AccountGuess ==
  ASSUME GrantInv, ConsentInv, GuessInv,
         (\E a \in Accounts : SignUp(a)) \/ DeleteAccount \/ \E h \in Handlers : Linked(h)
  PROVE  GuessInv'
<1>1. UNCHANGED waited /\ (UNCHANGED doing \/ \E h \in Handlers : End(h))
  BY DEF SignUp, DeleteAccount, Linked
<1>2. UNCHANGED doing \/ \E h \in Handlers : \E r : doing' = [doing EXCEPT ![h] = r] /\ r.kind # "login"
  BY <1>1 DEF End, Idle
<1>3. ASSUME NEW a \in Accounts
      PROVE  \/ account'[a].failed = account[a].failed /\ account'[a].locked = account[a].locked
             \/ account'[a].failed = 0 /\ account'[a].locked = FALSE
  <2>1. DOMAIN account = Accounts /\ {"failed", "locked"} \subseteq DOMAIN account[a]
    BY DEF ConsentInv, AccountsOK
  <2>2. AccountRow("open").failed = 0 /\ AccountRow("open").locked = FALSE
        /\ AccountRow("deleted").failed = 0 /\ AccountRow("deleted").locked = FALSE
    BY DEF AccountRow
  <2>3. ASSUME NEW b \in Accounts, SignUp(b) PROVE account'[a] \in {account[a], AccountRow("open")}
    BY <2>1, <2>3 DEF SignUp
  <2>4. CASE DeleteAccount
    <3>1. account'[a] \in {account[a], AccountRow("deleted")}
      BY <2>1, <2>4 DEF DeleteAccount
    <3> QED
      BY <2>2, <3>1
  <2>5. ASSUME NEW h \in Handlers, Linked(h)
        PROVE  account'[a].failed = account[a].failed /\ account'[a].locked = account[a].locked
    <3>1. account' = [account EXCEPT ![doing[h].account].shop = doing[h].shop]
      BY <2>5 DEF Linked
    <3> QED
      BY <2>1, <3>1
  <2> QED
    BY <2>2, <2>3, <2>4, <2>5
<1> QED
  BY <1>1, <1>2, <1>3, GuessUntouched

LEMMA OtherGuess ==
  ASSUME GrantInv, GuessInv, UNCHANGED <<account, waited>>,
         UNCHANGED doing \/ (\E h \in Handlers : End(h))
             \/ \E h \in Handlers : \E r : Begin(h, r) /\ r.kind # "login"
  PROVE  GuessInv'
BY GuessUntouched DEF End, Begin, Idle

LEMMA ScanGuess ==
  ASSUME GrantInv, GuessInv, UNCHANGED <<account, waited>>, NEW h \in Handlers,
         NEW kind, kind # "login", NEW a, NEW shop, NEW seen, ScanTo(h, kind, a, shop, seen)
  PROVE  GuessInv'
<1> DEFINE r == [kind |-> kind, account |-> a, shop |-> shop, seen |-> seen]
<1>1. Begin(h, r) /\ r.kind # "login"
  BY DEF ScanTo
<1> QED
  BY <1>1, OtherGuess

LEMMA GuessBegins ==
  ASSUME AssistantInit
  PROVE  GuessInv
<1>1. DOMAIN waited = Accounts
  BY DEF AssistantInit, GrantInit
<1>2. ASSUME NEW a \in Accounts PROVE GuessOK(a)
  <2>1. account[a].failed = 0 /\ account[a].locked = FALSE /\ waited[a] = 0
    BY DEF AssistantInit, GrantInit, AccountRow
  <2> QED
    BY <2>1, GuessersCounted, AllowedFresh DEF GuessOK
<1> QED
  BY <1>1, <1>2 DEF GuessInv

LEMMA GuessStep ==
  ASSUME GrantInv, ConsentInv, GuessInv, [AssistantNext]_assistantVars
  PROVE  GuessInv'
<1>1. CASE UNCHANGED <<account, waited, doing>>
  BY <1>1, OtherGuess
<1>2. CASE GrantNext
  <2>1. ASSUME NEW h \in Handlers, NEW a \in Accounts, LogIn(h, a) PROVE GuessInv'
    BY <2>1, LogInGuess
  <2>2. ASSUME NEW h \in Handlers, NEW ok \in BOOLEAN, CheckedLogIn(h, ok) PROVE GuessInv'
    <3>1. PICK a : a = doing[h].account
      OBVIOUS
    <3> QED
      BY <2>2, <3>1, CheckedGuess
  <2>3. ASSUME NEW a \in Accounts, SignUp(a) \/ LockEnds(a) PROVE GuessInv'
    BY <2>3, AccountGuess, LockEndsGuess
  <2>4. ASSUME NEW h \in Handlers, Linked(h) PROVE GuessInv'
    BY <2>4, AccountGuess
  <2>5. ASSUME NEW h \in Handlers, NEW c \in Clients, RevokeGrant(h, c) PROVE GuessInv'
    BY <2>5, ScanGuess DEF RevokeGrant
  <2>6. ASSUME NEW h \in Handlers, NEW s \in Shops, Link(h, s) PROVE GuessInv'
    BY <2>6, ScanGuess DEF Link
  <2>7. ASSUME NEW h \in Handlers, NEW f \in Families,
               CreateCode(h, f) \/ \E i \in 1..Len(token[f]) : Refresh(h, <<f, i>>) \/ RevokeToken(h, <<f, i>>)
        PROVE  GuessInv'
    <3>1. CASE CreateCode(h, f)
      BY <3>1, OtherGuess DEF CreateCode
    <3>2. ASSUME NEW i, RevokeToken(h, <<f, i>>) PROVE GuessInv'
      BY <3>2, ScanGuess DEF RevokeToken
    <3>3. ASSUME NEW i, Refresh(h, <<f, i>>) PROVE GuessInv'
      <4> DEFINE r == [kind |-> "rotate", family |-> f, pair |-> <<f, i>>]
      <4>1. UNCHANGED <<account, waited>> /\ r.kind # "login"
        BY <3>3 DEF Refresh
      <4>2. Begin(h, r) \/ ScanTo(h, "revoke", NoOne, NoOne, Pairs(f))
        BY <3>3 DEF Refresh
      <4> QED
        BY <4>1, <4>2, ScanGuess, OtherGuess
    <3> QED
      BY <2>7, <3>1, <3>2, <3>3
  <2>8. ASSUME NEW h \in Handlers, NEW f \in Families, NEW c \in Clients, NEW proof \in BOOLEAN,
               Exchange(h, f, c, proof)
        PROVE  GuessInv'
    <3> DEFINE r == [kind |-> "issue", family |-> f]
    <3>1. UNCHANGED <<account, waited>> /\ r.kind # "login"
      BY <2>8 DEF Exchange
    <3>2. UNCHANGED doing \/ Begin(h, r) \/ ScanTo(h, "revoke", NoOne, NoOne, Pairs(f))
      BY <2>8 DEF Exchange
    <3> QED
      BY <3>1, <3>2, ScanGuess, OtherGuess
  <2>9. ASSUME NEW h \in Handlers, Issue(h) \/ Rotated(h) \/ Revoke(h) \/ Die(h) PROVE GuessInv'
    BY <2>9, OtherGuess DEF Issue, Rotated, Revoke, Die
  <2>11. ASSUME NEW h \in Handlers, NEW c \in Clients, NEW s \in Scopes, Allow(h, c, s) PROVE GuessInv'
    <3> DEFINE r == [kind |-> "allow", account |-> cookie, client |-> c, scopes |-> s]
    <3>1. UNCHANGED <<account, waited>> /\ r.kind # "login" /\ Begin(h, r)
      BY <2>11 DEF Allow
    <3> QED
      BY <3>1, OtherGuess
  <2>10. CASE \/ \E c \in Clients : Register(c) \/ ClientIdles(c) \/ CleanUp(c)
              \/ \E f \in Families : CodeExpires(f) \/ CodeDeleted(f) \/ \E i \in 1..Len(token[f]) : TokenAges(<<f, i>>)
              \/ LogOut
    BY <1>1, <2>10 DEF Register, ClientIdles, CleanUp, CodeExpires, CodeDeleted, TokenAges, LogOut
  <2> QED
    BY <1>2, <2>1, <2>2, <2>3, <2>4, <2>5, <2>6, <2>7, <2>8, <2>9, <2>10, <2>11 DEF GrantNext
<1>3. CASE Leave
  BY <1>3, AccountGuess DEF Leave
<1>4. CASE McpNext /\ McpOnly
  BY <1>1, <1>4 DEF McpOnly
<1>5. ASSUME NEW k \in Calls, FreshenShop(k) PROVE GuessInv'
  BY <1>1, <1>5 DEF FreshenShop, McpOnly
<1>6. CASE RestartServer
  BY <1>1, <1>6 DEF RestartServer, McpOnly
<1> QED
  BY <1>1, <1>2, <1>3, <1>4, <1>5, <1>6 DEF AssistantNext, assistantVars, grantVars

\* The fifth failure locks an account: each lock period costs at most one
\* further guess per request handled at a time (findCredentials, recordLogin).
THEOREM GuessesCapped == AssistantSpec => []GuessesBounded
<1>1. GuessInv => GuessesBounded
  <2> SUFFICES ASSUME GuessInv, NEW a \in Accounts
               PROVE  account[a].failed <= (LockAt - 1) + (1 + waited[a]) * AtOnce
    BY DEF GuessesBounded, AtOnce
  <2> QED
    BY GuessersCounted, Periods DEF GuessInv, GuessOK, Allowed, LockAt
<1> QED
  BY <1>1, GrantsBegin, GrantsStep, ConsentBegins, ConsentStep, GuessBegins, GuessStep, PTL DEF AssistantSpec

-----------------------------------------------------------------------------
(* Sessions.                                                               *)

OpenSet == {s \in Sessions : Open(s)}
Opening == {k \in Calls : call[k].phase = "opening"}

SessInv ==
    /\ session = [s \in Sessions |-> session[s]]
    /\ Cardinality(OpenSet) + Cardinality(Opening) <= MaxSessions + Cardinality(Calls) - 1

LEMMA PlacesCounted ==
  /\ MaxSessions \in Nat \ {0} /\ Cardinality(Calls) \in Nat
  /\ \A S \in SUBSET Calls : IsFiniteSet(S) /\ Cardinality(S) \in Nat /\ Cardinality(S) <= Cardinality(Calls)
  /\ \A S, T : S \subseteq T /\ T \subseteq Calls => Cardinality(S) <= Cardinality(T)
  /\ \A S \in SUBSET Sessions : IsFiniteSet(S) /\ Cardinality(S) \in Nat
  /\ \A S, T : S \subseteq T /\ T \subseteq Sessions => Cardinality(S) <= Cardinality(T)
BY SessionAssumption, FS_Subset, FS_CardinalityType

LEMMA PlacesTyped ==
  /\ OpenSet \in SUBSET Sessions /\ OpenSet' \in SUBSET Sessions
  /\ Opening \in SUBSET Calls /\ Opening' \in SUBSET Calls
BY DEF OpenSet, Opening

\* A step that neither stores a session nor lets one be stored.
LEMMA PlacesFree ==
  ASSUME SessInv, OpenSet' \subseteq OpenSet, Opening' \subseteq Opening, session' = [s \in Sessions |-> session'[s]]
  PROVE  SessInv'
<1>1. /\ Cardinality(OpenSet) \in Nat /\ Cardinality(OpenSet') \in Nat
      /\ Cardinality(Opening) \in Nat /\ Cardinality(Opening') \in Nat
      /\ Cardinality(OpenSet') <= Cardinality(OpenSet) /\ Cardinality(Opening') <= Cardinality(Opening)
  BY PlacesCounted, PlacesTyped
<1> QED
  BY <1>1, PlacesCounted DEF SessInv

\* A request that moves on, while no session is added.
LEMMA RequestMoves ==
  ASSUME HomeInv, SessInv, NEW k \in Calls, NEW c, c.phase # "opening", call' = [call EXCEPT ![k] = c],
         OpenSet' \subseteq OpenSet, session' = [s \in Sessions |-> session'[s]]
  PROVE  SessInv'
<1>1. Opening' \subseteq Opening
  BY DEF Opening, HomeInv, CallsKeyed
<1> QED
  BY <1>1, PlacesFree

LEMMA RequestOnly ==
  ASSUME HomeInv, SessInv, NEW k \in Calls, NEW c, c.phase # "opening", call' = [call EXCEPT ![k] = c],
         UNCHANGED session
  PROVE  SessInv'
<1>1. OpenSet' = OpenSet
  BY DEF OpenSet, Open
<1> QED
  BY <1>1, RequestMoves DEF SessInv

LEMMA SweepFrees ==
  ASSUME SessInv, session' = WithoutIdle
  PROVE  /\ OpenSet' \subseteq OpenSet /\ session' = [s \in Sessions |-> session'[s]]
         /\ session' # session => \E s \in OpenSet : s \notin OpenSet'
<1>1. OpenSet' \subseteq OpenSet /\ session' = [s \in Sessions |-> session'[s]]
  BY DEF OpenSet, Open, WithoutIdle
<1>2. ASSUME session' # session PROVE \E s \in OpenSet : s \notin OpenSet'
  <2>1. PICK s \in Sessions : session'[s] # session[s]
    BY <1>1, <1>2 DEF SessInv
  <2> QED
    BY <2>1 DEF WithoutIdle, OpenSet, Open
<1> QED
  BY <1>1, <1>2

\* The look at the limit leaves room for one, or makes it.
LEMMA InitializeStep ==
  ASSUME HomeInv, SessInv, NEW k \in Calls, Initialize(k)
  PROVE  SessInv'
<1> DEFINE c == [call[k] EXCEPT !.phase = "opening"]
<1>1. /\ k \notin Opening /\ Opening' \subseteq Opening \union {k}
  BY DEF Initialize, Opening, HomeInv, CallsKeyed
<1>2. Cardinality(Opening \union {k}) = Cardinality(Opening) + 1
  BY <1>1, PlacesCounted, PlacesTyped, FS_AddElement
<1>3. /\ Cardinality(OpenSet) \in Nat /\ Cardinality(OpenSet') \in Nat
      /\ Cardinality(Opening) \in Nat /\ Cardinality(Opening') \in Nat
      /\ Cardinality(Opening') <= Cardinality(Opening) + 1 /\ Cardinality(Opening') <= Cardinality(Calls)
  <2>1. Opening \union {k} \subseteq Calls
    BY PlacesTyped
  <2> QED
    BY <1>1, <1>2, <2>1, PlacesCounted, PlacesTyped
<1>4. CASE ~Full
  <2>1. session' = session /\ OpenSet' = OpenSet
    BY <1>4 DEF Initialize, OpenSet, Open
  <2>2. Cardinality(OpenSet) < MaxSessions
    BY <1>3, <1>4, PlacesCounted DEF Full, SessionCount, OpenSet
  <2> QED
    BY <1>3, <2>1, <2>2, PlacesCounted DEF SessInv
<1>5. CASE Full /\ session' = session
  <2>1. call' = [call EXCEPT ![k] = NoCall] /\ NoCall.phase # "opening"
    BY <1>5 DEF Initialize, NoCall
  <2> QED
    BY <1>5, <2>1, RequestOnly
<1>6. CASE Full /\ session' # session
  <2>1. session' = WithoutIdle
    BY <1>6 DEF Initialize
  <2>2. PICK s \in OpenSet : s \notin OpenSet'
    BY <1>6, <2>1, SweepFrees
  <2>3. /\ OpenSet' \subseteq OpenSet \ {s} /\ session' = [t \in Sessions |-> session'[t]]
    BY <2>1, <2>2, SweepFrees
  <2>4. Cardinality(OpenSet \ {s}) = Cardinality(OpenSet) - 1
    BY <2>2, PlacesCounted, PlacesTyped, FS_RemoveElement
  <2>5. OpenSet \ {s} \subseteq Sessions
    BY PlacesTyped
  <2>6. Cardinality(OpenSet') <= Cardinality(OpenSet) - 1
    BY <2>3, <2>4, <2>5, PlacesCounted
  <2> QED
    BY <1>3, <2>3, <2>6, PlacesCounted DEF SessInv
<1> QED
  BY <1>4, <1>5, <1>6

LEMMA OpenedStep ==
  ASSUME HomeInv, SessInv, NEW k \in Calls, NEW s \in Sessions, Opened(k, s)
  PROVE  SessInv'
<1>1. /\ k \in Opening /\ Opening' \subseteq Opening \ {k}
      /\ OpenSet' \subseteq OpenSet \union {s} /\ s \notin OpenSet
      /\ session' = [t \in Sessions |-> session'[t]]
  BY DEF Opened, Opening, OpenSet, Open, NoCall, HomeInv, CallsKeyed, SessInv
<1>2. Opening \ {k} \subseteq Calls /\ OpenSet \union {s} \subseteq Sessions
  BY PlacesTyped
<1>3. /\ Cardinality(Opening \ {k}) = Cardinality(Opening) - 1
      /\ Cardinality(OpenSet \union {s}) = Cardinality(OpenSet) + 1
  BY <1>1, PlacesCounted, PlacesTyped, FS_AddElement, FS_RemoveElement
<1>4. /\ Cardinality(OpenSet) \in Nat /\ Cardinality(OpenSet') \in Nat
      /\ Cardinality(Opening) \in Nat /\ Cardinality(Opening') \in Nat
      /\ Cardinality(OpenSet') <= Cardinality(OpenSet) + 1 /\ Cardinality(Opening') <= Cardinality(Opening) - 1
  BY <1>1, <1>2, <1>3, PlacesCounted, PlacesTyped
<1> QED
  BY <1>1, <1>4, PlacesCounted DEF SessInv

LEMMA SessionSteps ==
  ASSUME HomeInv, SessInv, NEW k \in Calls, NEW s \in Sessions,
         UseSession(k, s) \/ CloseSession(k, s)
  PROVE  SessInv'
<1>1. OpenSet' \subseteq OpenSet /\ session' = [t \in Sessions |-> session'[t]]
  BY DEF UseSession, CloseSession, MayUse, OpenSet, Open, SessInv
<1> DEFINE b == [phase |-> "body", who |-> call[k].who, session |-> session[s]]
<1>2. (call' = [call EXCEPT ![k] = b] /\ b.phase # "opening")
      \/ (call' = [call EXCEPT ![k] = NoCall] /\ NoCall.phase # "opening")
  BY DEF UseSession, CloseSession, NoCall
<1> QED
  BY <1>1, <1>2, RequestMoves

LEMMA IdleSteps ==
  ASSUME SessInv, Sweep \/ \E s \in Sessions : SessionIdles(s)
  PROVE  SessInv'
<1>1. Opening' = Opening
  BY DEF Sweep, SessionIdles, Opening
<1>2. CASE Sweep
  BY <1>1, <1>2, SweepFrees, PlacesFree DEF Sweep
<1>3. ASSUME NEW s \in Sessions, SessionIdles(s) PROVE SessInv'
  <2>1. OpenSet' \subseteq OpenSet /\ session' = [t \in Sessions |-> session'[t]]
    BY <1>3 DEF SessionIdles, OpenSet, Open, SessInv
  <2> QED
    BY <1>1, <2>1, PlacesFree
<1> QED
  BY <1>2, <1>3

LEMMA EnterSteps ==
  ASSUME HomeInv, SessInv, NEW k \in Calls,
         \/ \E p : EnterWithGrant(k, p)
         \/ \E t \in StaticTokens : EnterWithToken(k, t)
  PROVE  SessInv'
<1>1. UNCHANGED session /\ (UNCHANGED call \/ \E who : call' = [call EXCEPT ![k] = [phase |-> "known", who |-> who]])
  BY DEF EnterWithGrant, EnterWithToken, Enter
<1>2. CASE UNCHANGED call
  BY <1>1, <1>2, PlacesFree DEF OpenSet, Open, Opening, SessInv
<1>3. ASSUME NEW who, call' = [call EXCEPT ![k] = [phase |-> "known", who |-> who]] PROVE SessInv'
  <2> DEFINE r == [phase |-> "known", who |-> who]
  <2>1. r.phase # "opening"
    OBVIOUS
  <2> QED
    BY <1>1, <1>3, <2>1, RequestOnly
<1> QED
  BY <1>1, <1>2, <1>3

LEMMA ToolSteps ==
  ASSUME HomeInv, SessInv, NEW k \in Calls, Return(k) \/ Freshen(k) \/ \E t : CallTool(k, t)
  PROVE  SessInv'
<1>1. UNCHANGED session /\ {"phase"} \subseteq DOMAIN call[k]
  <2>1. call[k].phase # "none"
    BY DEF Return, Freshen, CallTool
  <2> QED
    BY <2>1 DEF Return, Freshen, CallTool, HomeInv, CallsKeyed, Keyed
<1> DEFINE r == [call[k] EXCEPT !.phase = "ready"]
           b == [call[k] EXCEPT !.phase = "runs"]
<1>2. r.phase # "opening" /\ b.phase # "opening" /\ NoCall.phase # "opening"
  BY <1>1 DEF NoCall
<1>3. call' = [call EXCEPT ![k] = r] \/ call' = [call EXCEPT ![k] = b] \/ call' = [call EXCEPT ![k] = NoCall]
  BY DEF Return, Freshen, CallTool
<1> QED
  BY <1>1, <1>2, <1>3, RequestOnly

LEMMA SessBegins ==
  ASSUME AssistantInit
  PROVE  SessInv
<1>1. OpenSet = {} /\ Opening = {} /\ session = [s \in Sessions |-> session[s]]
  BY DEF AssistantInit, McpInit, OpenSet, Open, Opening, NoCall
<1> QED
  BY <1>1, FS_EmptySet, PlacesCounted DEF SessInv

LEMMA SessStep ==
  ASSUME HomeInv, SessInv, [AssistantNext]_assistantVars
  PROVE  SessInv'
<1>1. CASE UNCHANGED <<call, session>>
  BY <1>1, PlacesFree DEF OpenSet, Open, Opening, SessInv
<1>2. CASE McpNext
  <2>1. ASSUME NEW k \in Calls, NEW s \in Sessions,
               UseSession(k, s) \/ Opened(k, s) \/ CloseSession(k, s)
        PROVE  SessInv'
    BY <2>1, SessionSteps, OpenedStep
  <2>2. ASSUME NEW k \in Calls, Initialize(k) \/ Return(k) \/ \E t \in ToolNames : CallTool(k, t) PROVE SessInv'
    BY <2>2, InitializeStep, ToolSteps
  <2>3. ASSUME NEW k \in Calls,
               \/ \E f \in Families : \E i \in 1..Len(token[f]) : EnterWithGrant(k, <<f, i>>)
               \/ \E t \in StaticTokens : EnterWithToken(k, t)
        PROVE  SessInv'
    BY <2>3, EnterSteps
  <2>4. CASE Sweep \/ \E s \in Sessions : SessionIdles(s)
    BY <2>4, IdleSteps
  <2>5. CASE Midnight \/ \E t \in StaticTokens : Withdraw(t) \/ CacheExpires(t)
    BY <1>1, <2>5 DEF Midnight, Withdraw, CacheExpires
  <2> QED
    BY <1>2, <2>1, <2>2, <2>3, <2>4, <2>5 DEF McpNext
<1>3. ASSUME NEW k \in Calls, FreshenShop(k) PROVE SessInv'
  BY <1>3, ToolSteps DEF FreshenShop
<1>4. CASE RestartServer
  <2>1. OpenSet' = {} /\ Opening' = {} /\ session' = [s \in Sessions |-> session'[s]]
    BY <1>4 DEF RestartServer, Restart, OpenSet, Open, Opening, NoCall
  <2> QED
    BY <2>1, FS_EmptySet, PlacesCounted DEF SessInv
<1> QED
  BY <1>1, <1>2, <1>3, <1>4 DEF AssistantNext, McpIdle, Leave, assistantVars, mcpVars

\* The limit of sessions is looked at before the transport stores one: it is
\* exceeded by at most one for every other request on its way (http.ts).
THEOREM SessionsCapped == AssistantSpec => []SessionsBounded
<1>1. SessInv => SessionsBounded
  <2> SUFFICES ASSUME SessInv PROVE Cardinality(OpenSet) <= MaxSessions + Cardinality(Calls) - 1
    BY DEF SessionsBounded, SessionCount, OpenSet
  <2>1. Cardinality(OpenSet) \in Nat /\ Cardinality(Opening) \in Nat
    BY PlacesCounted, PlacesTyped
  <2> QED
    BY <2>1, PlacesCounted DEF SessInv
<1> QED
  BY <1>1, HomeInit, HomeStep, SessBegins, SessStep, PTL DEF AssistantSpec

-----------------------------------------------------------------------------
(* Remembered rules.                                                       *)

\* Calls that have counted the rules of a shop and will insert one.
Counting(t) == {k \in Calls : run[k].tool = "remember" /\ run[k].phase = "counted" /\ run[k].tenant = t}
Pending(t) == {run[k].what : k \in Counting(t)}

RulesOK(t) ==
    /\ IsFiniteSet(rules[t])
    /\ Cardinality(rules[t] \union Pending(t)) <= MaxRules + Cardinality(Calls) - 1

RulesInv == DOMAIN rules = ShopTenants /\ \A t \in ShopTenants : RulesOK(t)

LEMMA AskedRules ==
  ASSUME NEW S \in SUBSET Calls, NEW runs
  PROVE  /\ IsFiniteSet({runs[k].what : k \in S}) /\ Cardinality({runs[k].what : k \in S}) <= Cardinality(Calls)
         /\ Cardinality({runs[k].what : k \in S}) \in Nat
<1> DEFINE T == {runs[k].what : k \in S}
           f == [k \in S |-> runs[k].what]
<1>1. f \in Surjection(S, T)
  BY DEF Surjection
<1>2. IsFiniteSet(T) /\ Cardinality(T) <= Cardinality(S)
  <2> HIDE DEF f, T
  <2>1. IsFiniteSet(S)
    BY PlacesCounted
  <2> QED
    BY <1>1, <2>1, FS_Surjection
<1> QED
  BY <1>2, PlacesCounted, FS_CardinalityType

LEMMA RulesCounted ==
  ASSUME NEW t
  PROVE  /\ IsFiniteSet(Pending(t)) /\ Cardinality(Pending(t)) <= Cardinality(Calls) /\ Cardinality(Pending(t)) \in Nat
         /\ IsFiniteSet(Pending(t)') /\ Cardinality(Pending(t)') <= Cardinality(Calls) /\ Cardinality(Pending(t)') \in Nat
<1>1. Counting(t) \in SUBSET Calls /\ Counting(t)' \in SUBSET Calls
  BY DEF Counting
<1>2. Pending(t) = {run[k].what : k \in Counting(t)} /\ Pending(t)' = {run'[k].what : k \in Counting(t)'}
  BY DEF Pending
<1>3. /\ IsFiniteSet({run[k].what : k \in Counting(t)})
      /\ Cardinality({run[k].what : k \in Counting(t)}) <= Cardinality(Calls)
      /\ Cardinality({run[k].what : k \in Counting(t)}) \in Nat
  BY <1>1, AskedRules
<1>4. /\ IsFiniteSet({run'[k].what : k \in Counting(t)'})
      /\ Cardinality({run'[k].what : k \in Counting(t)'}) <= Cardinality(Calls)
      /\ Cardinality({run'[k].what : k \in Counting(t)'}) \in Nat
  BY <1>1, AskedRules
<1> QED
  BY <1>2, <1>3, <1>4

\* Rules and what will be added to them only shrink.
LEMMA RulesShrink ==
  ASSUME NEW t, RulesOK(t), IsFiniteSet(rules'[t]),
         rules'[t] \union Pending(t)' \subseteq rules[t] \union Pending(t)
  PROVE  RulesOK(t)'
<1>1. IsFiniteSet(rules[t] \union Pending(t))
  BY RulesCounted, FS_Union DEF RulesOK
<1>2. /\ Cardinality(rules'[t] \union Pending(t)') <= Cardinality(rules[t] \union Pending(t))
      /\ IsFiniteSet(rules'[t] \union Pending(t)')
  BY <1>1, FS_Subset
<1>3. /\ Cardinality(rules'[t] \union Pending(t)') \in Nat /\ Cardinality(rules[t] \union Pending(t)) \in Nat
  BY <1>1, <1>2, FS_CardinalityType
<1> QED
  BY <1>2, <1>3, PlacesCounted, RulesAssumption DEF RulesOK

LEMMA PendingLess ==
  ASSUME HomeInv, NEW k \in Calls, NEW r, r.tool # "remember" \/ r.phase # "counted", run' = [run EXCEPT ![k] = r],
         NEW t
  PROVE  Pending(t)' \subseteq Pending(t)
<1>1. Counting(t)' \subseteq Counting(t) \ {k}
  BY DEF Counting, HomeInv, RunsOwned
<1>2. \A j \in Counting(t)' : run'[j].what = run[j].what
  BY <1>1 DEF HomeInv, RunsOwned
<1> QED
  BY <1>1, <1>2 DEF Pending

\* A call that ends, or goes on without counting rules.
LEMMA RunMoves ==
  ASSUME HomeInv, RulesInv, NEW k \in Calls, NEW r, r.tool # "remember" \/ r.phase # "counted",
         run' = [run EXCEPT ![k] = r], UNCHANGED rules
  PROVE  RulesInv'
<1>1. \A t \in ShopTenants : RulesOK(t)'
  BY PendingLess, RulesShrink DEF RulesInv, RulesOK
<1> QED
  BY <1>1 DEF RulesInv

LEMMA FinishRules ==
  ASSUME HomeInv, RulesInv, NEW k \in Calls, Tools!Finish(k), UNCHANGED rules
  PROVE  RulesInv'
<1> DEFINE r == [tool |-> run[k].tool, phase |-> "done", tenant |-> run[k].tenant]
<1>1. run' = [run EXCEPT ![k] = r] /\ r.phase # "counted"
  BY DEF Tools!Finish
<1> QED
  BY <1>1, RunMoves

LEMMA GoRules ==
  ASSUME HomeInv, RulesInv, NEW k \in Calls, NEW phase, phase # "counted", NEW more,
         Tools!Go(k, phase, more), UNCHANGED rules
  PROVE  RulesInv'
<1> DEFINE r == [tool |-> run[k].tool, phase |-> phase, tenant |-> run[k].tenant, what |-> more]
<1>1. run' = [run EXCEPT ![k] = r] /\ r.phase # "counted"
  BY DEF Tools!Go
<1> QED
  BY <1>1, RunMoves

\* Counting: the rule is known, or there is room for one at least.
LEMMA CountStep ==
  ASSUME HomeInv, RulesInv, NEW k \in Calls, NEW r, Tools!BeginRemember(k, r)
  PROVE  RulesInv'
<1>1. CASE Tools!Finish(k)
  BY <1>1, FinishRules DEF Tools!BeginRemember, Tools!reorderVars
<1>2. CASE Tools!Go(k, "counted", r) /\ ~Tools!TooManyRules(rules[run[k].tenant], r)
  <2> DEFINE row == [tool |-> run[k].tool, phase |-> "counted", tenant |-> run[k].tenant, what |-> r]
  <2>1. run' = [run EXCEPT ![k] = row] /\ UNCHANGED rules /\ DOMAIN run = Calls
    BY <1>2 DEF Tools!Go, Tools!BeginRemember, Tools!reorderVars, HomeInv, RunsOwned
  <2>2. row.tenant = run[k].tenant /\ row.what = r
    OBVIOUS
  <2> HIDE DEF row
  <2>3. run'[k] = row /\ \A j \in Calls \ {k} : run'[j] = run[j]
    BY <2>1
  <2>4. ASSUME NEW t \in ShopTenants, t # run[k].tenant PROVE RulesOK(t)'
    <3>1. Counting(t)' \subseteq Counting(t) \ {k}
      BY <2>2, <2>3, <2>4 DEF Counting
    <3>2. Pending(t)' \subseteq Pending(t)
      BY <2>3, <3>1 DEF Pending, Counting
    <3> QED
      BY <2>1, <3>2, RulesShrink DEF RulesInv, RulesOK
  <2>5. ASSUME NEW t \in ShopTenants, t = run[k].tenant PROVE RulesOK(t)'
    <3>1. Pending(t)' \subseteq Pending(t) \union {r}
      <4>1. Counting(t)' \subseteq Counting(t) \union {k}
        BY <2>3 DEF Counting
      <4> QED
        BY <2>2, <2>3, <4>1 DEF Pending, Counting
    <3>2. CASE r \in rules[t]
      BY <2>1, <3>1, <3>2, RulesShrink DEF RulesInv, RulesOK
    <3>3. CASE r \notin rules[t]
      <4>1. ~(Cardinality(rules[t]) >= MaxRules)
        <5>1. Tools!Cardinality(rules[t]) = Cardinality(rules[t])
          BY DEF Tools!Cardinality, Cardinality
        <5> QED
          BY <1>2, <2>5, <3>3, <5>1 DEF Tools!TooManyRules
      <4>2. IsFiniteSet(rules[t]) /\ Cardinality(rules[t]) \in Nat
        BY FS_CardinalityType DEF RulesInv, RulesOK
      <4>3. /\ IsFiniteSet(Pending(t)') /\ Cardinality(Pending(t)') \in Nat
            /\ Cardinality(Pending(t)') <= Cardinality(Calls)
        BY RulesCounted
      <4>4. Cardinality(rules[t] \union Pending(t)') <= Cardinality(rules[t]) + Cardinality(Pending(t)')
        <5>1. Cardinality(rules[t] \union Pending(t)') =
                Cardinality(rules[t]) + Cardinality(Pending(t)') - Cardinality(rules[t] \intersect Pending(t)')
          BY <4>2, <4>3, FS_Union
        <5>2. Cardinality(rules[t] \intersect Pending(t)') \in Nat
          BY <4>2, FS_Intersection, FS_CardinalityType
        <5> QED
          BY <4>2, <4>3, <5>1, <5>2
      <4>5. Cardinality(rules[t] \union Pending(t)') \in Nat
        BY <4>2, <4>3, FS_Union, FS_CardinalityType
      <4> QED
        BY <2>1, <4>1, <4>2, <4>3, <4>4, <4>5, PlacesCounted, RulesAssumption DEF RulesOK
    <3> QED
      BY <3>2, <3>3
  <2> QED
    BY <2>1, <2>4, <2>5 DEF RulesInv
<1> QED
  BY <1>1, <1>2 DEF Tools!BeginRemember

LEMMA ChangeStep ==
  ASSUME HomeInv, RulesInv, NEW k \in Calls,
         Tools!Remember(k) \/ \E which : Tools!Forget(k, which)
  PROVE  RulesInv'
<1>1. Tools!Finish(k) /\ DOMAIN rules' = DOMAIN rules
  BY DEF Tools!Remember, Tools!Forget
<1>2. \A t : Pending(t)' \subseteq Pending(t)
  <2> DEFINE r == [tool |-> run[k].tool, phase |-> "done", tenant |-> run[k].tenant]
  <2>1. run' = [run EXCEPT ![k] = r] /\ r.phase # "counted"
    BY <1>1 DEF Tools!Finish
  <2> QED
    BY <2>1, PendingLess
<1>3. CASE Tools!Remember(k)
  <2>1. k \in Counting(run[k].tenant) /\ rules' = [rules EXCEPT ![run[k].tenant] = @ \union {run[k].what}]
    BY <1>3 DEF Tools!Remember, Tools!At, Counting
  <2>2. ASSUME NEW t \in ShopTenants PROVE RulesOK(t)'
    <3>1. rules'[t] = rules[t] \/ (t = run[k].tenant /\ rules'[t] = rules[t] \union {run[k].what})
      BY <2>1 DEF RulesInv
    <3>2. t = run[k].tenant => run[k].what \in Pending(t)
      BY <2>1 DEF Pending
    <3>3. IsFiniteSet(rules'[t])
      BY <3>1, FS_AddElement DEF RulesInv, RulesOK
    <3> QED
      BY <1>2, <3>1, <3>2, <3>3, RulesShrink DEF RulesInv
  <2> QED
    BY <1>1, <2>2 DEF RulesInv
<1>4. ASSUME NEW which, Tools!Forget(k, which) PROVE RulesInv'
  <2>1. rules' = [rules EXCEPT ![run[k].tenant] = @ \ which]
    BY <1>4 DEF Tools!Forget
  <2>2. ASSUME NEW t \in ShopTenants PROVE RulesOK(t)'
    <3>1. rules'[t] \subseteq rules[t]
      BY <2>1 DEF RulesInv
    <3>2. IsFiniteSet(rules'[t])
      BY <3>1, FS_Subset DEF RulesInv, RulesOK
    <3> QED
      BY <1>2, <3>1, <3>2, RulesShrink DEF RulesInv
  <2> QED
    BY <1>1, <2>2 DEF RulesInv
<1> QED
  BY <1>3, <1>4

LEMMA ReorderRules ==
  ASSUME HomeInv, RulesInv, Tools!ReorderNext
  PROVE  RulesInv'
<1>1. ASSUME NEW k \in Calls, Tools!Read(k) \/ Tools!ToolFails(k) PROVE RulesInv'
  BY <1>1, FinishRules DEF Tools!Read, Tools!ToolFails, Tools!reorderVars
<1>2. ASSUME NEW k \in Calls, Tools!LockDrafts(k) PROVE RulesInv'
  BY <1>2, FinishRules, GoRules DEF Tools!LockDrafts, Tools!reorderVars
<1>3. ASSUME NEW k \in Calls, NEW g, NEW from, Tools!CreateDraft(k, g, from) PROVE RulesInv'
  BY <1>3, FinishRules DEF Tools!CreateDraft
<1>4. ASSUME NEW k \in Calls, NEW g, Tools!BeginConfirm(k, g) PROVE RulesInv'
  BY <1>4, GoRules DEF Tools!BeginConfirm, Tools!reorderVars
<1>5. ASSUME NEW k \in Calls, NEW heard, Tools!ConfirmDrafts(k, heard) PROVE RulesInv'
  BY <1>5, FinishRules DEF Tools!ConfirmDrafts
<1>6. ASSUME NEW g, Tools!DraftExpires(g) PROVE RulesInv'
  BY <1>6 DEF Tools!DraftExpires, RulesInv, RulesOK, Pending, Counting
<1> QED
  BY <1>1, <1>2, <1>3, <1>4, <1>5, <1>6, CountStep, ChangeStep DEF Tools!ReorderNext

LEMMA McpRules ==
  ASSUME HomeInv, RulesInv, McpNext, UNCHANGED rules
  PROVE  RulesInv'
<1>1. CASE UNCHANGED run
  BY <1>1 DEF RulesInv, RulesOK, Pending, Counting
<1>2. ASSUME NEW k \in Calls, NEW tool, CallTool(k, tool) PROVE RulesInv'
  <2> DEFINE r == [tool |-> tool, phase |-> "begun", tenant |-> call[k].session.tenant]
  <2>1. UNCHANGED run \/ run' = [run EXCEPT ![k] = r]
    BY <1>2 DEF CallTool
  <2>2. r.phase # "counted"
    OBVIOUS
  <2> QED
    BY <1>1, <2>1, <2>2, RunMoves
<1>3. ASSUME NEW k \in Calls, Return(k) PROVE RulesInv'
  BY <1>3, RunMoves DEF Return, NoRun
<1>4. UNCHANGED run \/ (\E k \in Calls : Return(k)) \/ \E k \in Calls, tool \in ToolNames : CallTool(k, tool)
  BY DEF McpNext, EnterWithGrant, EnterWithToken, Initialize, UseSession, Opened, CloseSession,
         SessionIdles, Sweep, Withdraw, CacheExpires, Midnight
<1> QED
  BY <1>1, <1>2, <1>3, <1>4

LEMMA RulesBegin ==
  ASSUME AssistantInit
  PROVE  RulesInv
<1>1. rules = [t \in ShopTenants |-> {}]
  BY DEF AssistantInit, Tools!ReorderInit
<1>2. ASSUME NEW t \in ShopTenants PROVE RulesOK(t)
  <2>1. Pending(t) = {}
    BY DEF AssistantInit, McpInit, NoRun, Pending, Counting
  <2> QED
    BY <1>1, <2>1, FS_EmptySet, PlacesCounted, RulesAssumption DEF RulesOK
<1> QED
  BY <1>1, <1>2 DEF RulesInv

LEMMA RulesStep ==
  ASSUME HomeInv, RulesInv, [AssistantNext]_assistantVars
  PROVE  RulesInv'
<1>1. CASE UNCHANGED <<rules, run>>
  BY <1>1 DEF RulesInv, RulesOK, Pending, Counting
<1>2. CASE McpNext /\ ToolsIdle
  BY <1>2, McpRules DEF ToolsIdle
<1>3. ASSUME NEW k \in Calls, FreshenShop(k) PROVE RulesInv'
  BY <1>1, <1>3 DEF FreshenShop, Freshen, Tools!Refill, ToolsIdle
<1>4. CASE RestartServer
  <2>1. UNCHANGED rules /\ \A t : Pending(t)' = {}
    BY <1>4 DEF RestartServer, Restart, ToolsIdle, NoRun, Pending, Counting
  <2>2. \A t \in ShopTenants : RulesOK(t)'
    BY <2>1, RulesShrink DEF RulesInv, RulesOK
  <2> QED
    BY <2>1, <2>2 DEF RulesInv
<1>5. CASE Leave
  BY <1>1, <1>5 DEF Leave, McpIdle, Tools!CloseShop
<1>6. CASE GrantNext /\ McpIdle /\ ToolsIdle
  BY <1>1, <1>6 DEF McpIdle, ToolsIdle
<1> QED
  BY <1>1, <1>2, <1>3, <1>4, <1>5, <1>6, ReorderRules DEF AssistantNext, assistantVars, mcpVars

\* The limit of rules is counted before the insert: it is exceeded by at most
\* one for every other call that counts at once (memory-tools.ts).
THEOREM RulesCapped == AssistantSpec => []RulesBounded
<1>1. RulesInv => RulesBounded
  <2> SUFFICES ASSUME RulesInv, NEW t \in ShopTenants
               PROVE  Cardinality(rules[t]) <= MaxRules + Cardinality(Calls) - 1
    <3>1. /\ Tools!Cardinality(Calls) = Cardinality(Calls)
          /\ \A u \in ShopTenants : Tools!Cardinality(rules[u]) = Cardinality(rules[u])
      <4>1. Tools!Cardinality(Calls) = Cardinality(Calls)
        BY DEF Tools!Cardinality, Cardinality
      <4>2. ASSUME NEW u PROVE Tools!Cardinality(rules[u]) = Cardinality(rules[u])
        BY DEF Tools!Cardinality, Cardinality
      <4> QED
        BY <4>1, <4>2
    <3> QED
      BY <3>1 DEF RulesBounded, Tools!RulesBounded
  <2>1. IsFiniteSet(rules[t] \union Pending(t))
    BY RulesCounted, FS_Union DEF RulesInv, RulesOK
  <2>2. Cardinality(rules[t]) <= Cardinality(rules[t] \union Pending(t))
    BY <2>1, FS_Subset
  <2>3. Cardinality(rules[t]) \in Nat /\ Cardinality(rules[t] \union Pending(t)) \in Nat
    BY <2>1, FS_CardinalityType DEF RulesInv, RulesOK
  <2> QED
    BY <2>2, <2>3, PlacesCounted, RulesAssumption DEF RulesInv, RulesOK
<1> QED
  BY <1>1, HomeInit, HomeStep, RulesBegin, RulesStep, PTL DEF AssistantSpec
=============================================================================
