---------------------------- MODULE GrantProofs ----------------------------
(***************************************************************************)
(* Theorems of the grants of AssistantService, for any number of accounts, *)
(* shops, apps, codes, tokens and requests, whatever the sessions and      *)
(* tools do: how families end, and what a consent is bound to.             *)
(***************************************************************************)
EXTENDS AssistantService, FiniteSetTheorems, SequenceTheorems, TLAPS

-----------------------------------------------------------------------------
(* The tokens of a family.                                                 *)

PairRows == [access : {"active", "revoked"}, age : {"fresh", "stale", "over", "gone"},
             refresh : {"none", "active", "rotated", "revoked"}]

\* A code that was exchanged, or refused, and is not accepted again.
UsedUp(f) == IssuedCode(f) /\ code[f].used

FamilyOK(f) ==
    /\ "age" \in DOMAIN code[f]
    /\ IssuedCode(f) => "used" \in DOMAIN code[f] /\ code[f].used \in BOOLEAN
    /\ token[f] \in Seq(PairRows)

\* Only a used code has tokens, and of those at most one refreshes.
TokensOK(f) ==
    /\ token[f] # <<>> => UsedUp(f)
    /\ \A i, j \in DOMAIN token[f] :
          token[f][i].refresh = "active" /\ token[f][j].refresh = "active" => i = j

\* A family whose revocation met no token on its way has nothing left.
KilledOK(f) ==
    killed[f] = "clean" =>
        UsedUp(f) /\ ~Issuing(f) /\ \A i \in DOMAIN token[f] : Dead(token[f][i])

FamiliesOK ==
    /\ DOMAIN token = Families /\ DOMAIN killed = Families
    /\ \A f \in Families : FamilyOK(f) /\ TokensOK(f) /\ KilledOK(f)

\* The first tokens of a family are made once, and a rotation holds the pair
\* that refreshes, alone.
HandlerOK(h) ==
    /\ doing[h].kind = "issue" =>
          doing[h].family \in Families /\ UsedUp(doing[h].family) /\ token[doing[h].family] = <<>>
    /\ doing[h].kind = "rotate" =>
          /\ doing[h].family \in Families /\ doing[h].pair[1] = doing[h].family
          /\ doing[h].pair \in Pairs(doing[h].family)
          /\ PairAt(doing[h].pair).refresh = "active"
    /\ doing[h].kind \in {"revoke", "link"} => \A p \in doing[h].seen : p[1] \in Families => UsedUp(p[1])

Alone(h, j) ==
    (doing[h].kind \in {"issue", "rotate"} /\ doing[j].kind \in {"issue", "rotate"}
     /\ doing[h].family = doing[j].family) => h = j

HandlersOK ==
    /\ DOMAIN doing = Handlers
    /\ \A h \in Handlers : HandlerOK(h)
    /\ \A h, j \in Handlers : Alone(h, j)

GrantInv == FamiliesOK /\ HandlersOK

-----------------------------------------------------------------------------
(* Steps that issue no token.                                              *)

\* A pair keeps its place, or the family is gone; no pair comes back.
Fades(f) ==
    \/ token'[f] = <<>>
    \/ /\ token'[f] \in Seq(PairRows) /\ Len(token'[f]) = Len(token[f])
       /\ \A i \in 1..Len(token[f]) :
             /\ token'[f][i].refresh = "active" => token[f][i].refresh = "active"
             /\ Dead(token[f][i]) => Dead(token'[f][i])

\* A request stays as it is, or becomes one that will issue nothing.
Harmless(h) ==
    \/ /\ doing'[h] = doing[h]
       /\ doing[h].kind = "rotate" =>
             token'[doing[h].family] # <<>> /\ PairAt(doing[h].pair)'.refresh = "active"
    \/ /\ doing'[h].kind \notin {"issue", "rotate"}
       /\ doing'[h].kind \in {"revoke", "link"} =>
             \A p \in doing'[h].seen : p[1] \in Families => UsedUp(p[1])

Domains == DOMAIN code' = Families /\ DOMAIN token' = Families /\ DOMAIN killed' = Families /\ DOMAIN doing' = Handlers

CodeOK(f) ==
    /\ "age" \in DOMAIN code[f]
    /\ IssuedCode(f) => "used" \in DOMAIN code[f] /\ code[f].used \in BOOLEAN

LEMMA NothingIssued ==
  ASSUME GrantInv, Domains,
         \A f \in Families : CodeOK(f)' /\ (UsedUp(f) => UsedUp(f)') /\ Fades(f),
         \A f \in Families : killed'[f] = killed[f] \/ killed'[f] = "raced" \/ KilledOK(f)',
         \A h \in Handlers : Harmless(h)
  PROVE  GrantInv'
<1>1. Families' = Families
  BY DEF Domains, Families
<1>2. ASSUME NEW f \in Families
      PROVE  /\ token[f] \in Seq(PairRows) /\ DOMAIN token[f] = 1..Len(token[f])
             /\ token'[f] \in Seq(PairRows) /\ DOMAIN token'[f] = 1..Len(token'[f])
             /\ token'[f] # <<>> => token[f] # <<>> /\ Len(token'[f]) = Len(token[f])
  <2>1. token[f] \in Seq(PairRows)
    BY DEF GrantInv, FamiliesOK, FamilyOK
  <2>2. CASE token'[f] = <<>>
    BY <2>1, <2>2
  <2>3. CASE token'[f] # <<>>
    <3>1. token'[f] \in Seq(PairRows) /\ Len(token'[f]) = Len(token[f])
      BY <2>3 DEF Fades
    <3> QED
      BY <2>1, <2>3, <3>1, EmptySeq
  <2> QED
    BY <2>2, <2>3
<1>3. ASSUME NEW f \in Families, Issuing(f)' PROVE Issuing(f)
  BY <1>3 DEF Issuing, Harmless
<1>4. ASSUME NEW f \in Families PROVE FamilyOK(f)' /\ TokensOK(f)' /\ KilledOK(f)'
  <2>1. FamilyOK(f) /\ TokensOK(f) /\ KilledOK(f)
    BY DEF GrantInv, FamiliesOK
  <2>2. FamilyOK(f)'
    BY <1>2 DEF FamilyOK, CodeOK
  <2>3. CASE token'[f] = <<>>
    BY <1>2, <1>3, <2>1, <2>2, <2>3 DEF TokensOK, KilledOK
  <2>4. CASE token'[f] # <<>>
    <3>1. TokensOK(f)'
      BY <1>2, <2>1, <2>4 DEF TokensOK, Fades
    <3>2. KilledOK(f)'
      BY <1>2, <1>3, <2>1, <2>4 DEF KilledOK, Fades
    <3> QED
      BY <2>2, <3>1, <3>2
  <2> QED
    BY <2>3, <2>4
<1>5. ASSUME NEW h \in Handlers PROVE HandlerOK(h)'
  <2>1. HandlerOK(h)
    BY DEF GrantInv, HandlersOK
  <2>2. CASE doing'[h].kind = "issue"
    BY <1>1, <1>2, <2>1, <2>2 DEF HandlerOK, Harmless
  <2>3. CASE doing'[h].kind = "rotate"
    BY <1>1, <1>2, <2>1, <2>3 DEF HandlerOK, Harmless, Pairs
  <2>4. CASE doing'[h].kind \in {"revoke", "link"}
    BY <1>1, <2>1, <2>4 DEF HandlerOK, Harmless
  <2> QED
    BY <2>2, <2>3, <2>4 DEF HandlerOK
<1>6. ASSUME NEW h \in Handlers, NEW j \in Handlers PROVE Alone(h, j)'
  BY DEF GrantInv, HandlersOK, Alone, Harmless
<1> QED
  BY <1>1, <1>4, <1>5, <1>6 DEF GrantInv, FamiliesOK, HandlersOK, Domains

Calm(r) ==
    /\ r.kind \notin {"issue", "rotate"}
    /\ r.kind \in {"revoke", "link"} => \A p \in r.seen : p[1] \in Families => UsedUp(p[1])

LEMMA TokensStay ==
  ASSUME GrantInv, DOMAIN code' = Families, UNCHANGED <<token, killed>>,
         \A f \in Families : CodeOK(f)' /\ (UsedUp(f) => UsedUp(f)'),
         \/ UNCHANGED doing
         \/ \E h \in Handlers : \E r : doing' = [doing EXCEPT ![h] = r] /\ Calm(r)
  PROVE  GrantInv'
<1>1. Domains
  BY DEF GrantInv, FamiliesOK, HandlersOK, Domains
<1>2. \A f \in Families : Fades(f)
  BY DEF GrantInv, FamiliesOK, FamilyOK, Fades
<1>3. ASSUME NEW h \in Handlers PROVE Harmless(h)
  <2>1. CASE doing'[h] = doing[h]
    <3>1. doing[h].kind = "rotate" => token[doing[h].family] # <<>> /\ PairAt(doing[h].pair).refresh = "active"
      BY DEF GrantInv, FamiliesOK, FamilyOK, HandlersOK, HandlerOK, Pairs
    <3> QED
      BY <2>1, <3>1 DEF Harmless, PairAt
  <2>2. CASE Calm(doing'[h])
    BY <2>2 DEF Calm, Harmless
  <2>3. doing'[h] = doing[h] \/ Calm(doing'[h])
    BY DEF GrantInv, HandlersOK
  <2> QED
    BY <2>1, <2>2, <2>3
<1> QED
  BY <1>1, <1>2, <1>3, NothingIssued

LEMMA CodesStay ==
  ASSUME GrantInv, UNCHANGED code
  PROVE  DOMAIN code' = Families /\ \A f \in Families : CodeOK(f)' /\ (UsedUp(f) => UsedUp(f)')
BY DEF GrantInv, FamiliesOK, FamilyOK, CodeOK, UsedUp, IssuedCode, Families

\* What a revocation has seen is tokens, so their codes are used up.
LEMMA PairsUsed ==
  ASSUME GrantInv, NEW f \in Families
  PROVE  \A p \in Pairs(f) : p[1] = f /\ UsedUp(f)
<1>1. token[f] \in Seq(PairRows) /\ (token[f] # <<>> => UsedUp(f))
  BY DEF GrantInv, FamiliesOK, FamilyOK, TokensOK
<1>2. token[f] = <<>> => Len(token[f]) = 0
  OBVIOUS
<1> QED
  BY <1>1, <1>2 DEF Pairs

LEMMA EndsCalmly ==
  ASSUME GrantInv, NEW h \in Handlers, End(h), UNCHANGED <<code, token, killed>>
  PROVE  GrantInv'
<1>1. doing' = [doing EXCEPT ![h] = Idle] /\ Calm(Idle)
  BY DEF End, Calm, Idle
<1> QED
  BY <1>1, CodesStay, TokensStay

LEMMA ScanKeeps ==
  ASSUME GrantInv, NEW h \in Handlers, NEW kind \in {"revoke", "link"}, NEW a, NEW shop, NEW seen,
         ScanTo(h, kind, a, shop, seen), seen \subseteq UNION {Pairs(f) : f \in Families},
         UNCHANGED <<code, token, killed>>
  PROVE  GrantInv'
<1> DEFINE r == [kind |-> kind, account |-> a, shop |-> shop, seen |-> seen]
<1>1. doing' = [doing EXCEPT ![h] = r]
  BY DEF ScanTo, Begin
<1>2. Calm(r)
  BY PairsUsed DEF Calm
<1> QED
  BY <1>1, <1>2, CodesStay, TokensStay

LEMMA RequestsKeep ==
  ASSUME GrantInv, NEW h \in Handlers,
         \/ \E a \in Accounts : LogIn(h, a)
         \/ \E ok \in BOOLEAN : CheckedLogIn(h, ok)
         \/ \E c \in Clients, s \in Scopes : Allow(h, c, s)
         \/ Die(h)
  PROVE  GrantInv'
<1>1. ASSUME NEW a \in Accounts, LogIn(h, a) PROVE GrantInv'
  <2>1. doing' = [doing EXCEPT ![h] = [kind |-> "login", account |-> a]] /\ Calm([kind |-> "login", account |-> a])
    BY <1>1 DEF LogIn, Begin, Calm
  <2> QED
    BY <1>1, <2>1, CodesStay, TokensStay DEF LogIn
<1>2. ASSUME NEW c \in Clients, NEW s \in Scopes, Allow(h, c, s) PROVE GrantInv'
  <2> DEFINE r == [kind |-> "allow", account |-> cookie, client |-> c, scopes |-> s]
  <2>1. doing' = [doing EXCEPT ![h] = r] /\ Calm(r)
    BY <1>2 DEF Allow, Begin, Calm
  <2> QED
    BY <1>2, <2>1, CodesStay, TokensStay DEF Allow
<1>3. ASSUME NEW ok \in BOOLEAN, CheckedLogIn(h, ok) PROVE GrantInv'
  BY <1>3, EndsCalmly DEF CheckedLogIn
<1>4. ASSUME Die(h) PROVE GrantInv'
  BY <1>4, EndsCalmly DEF Die
<1> QED
  BY <1>1, <1>2, <1>3, <1>4

LEMMA CodesKeep ==
  ASSUME GrantInv, NEW f \in Families,
         (\E h \in Handlers : CreateCode(h, f)) \/ CodeExpires(f) \/ CodeDeleted(f)
  PROVE  GrantInv'
<1>1. FamilyOK(f)
  BY DEF GrantInv, FamiliesOK
<1>2. ASSUME CodeExpires(f) \/ CodeDeleted(f) PROVE GrantInv'
  <2>1. PICK age \in {"over", "gone"} : code' = [code EXCEPT ![f].age = age]
    BY <1>2 DEF CodeExpires, CodeDeleted
  <2>2. DOMAIN code' = Families /\ \A g \in Families : CodeOK(g)' /\ (UsedUp(g) => UsedUp(g)')
    BY <1>1, <1>2, <2>1 DEF CodeExpires, CodeDeleted, GrantInv, FamiliesOK, FamilyOK, CodeOK, UsedUp, IssuedCode, Families
  <2> QED
    BY <1>2, <2>2, TokensStay DEF CodeExpires, CodeDeleted
<1>3. ASSUME NEW h \in Handlers, CreateCode(h, f) PROVE GrantInv'
  <2>1. doing' = [doing EXCEPT ![h] = Idle] /\ Calm(Idle) /\ UNCHANGED <<token, killed>>
    BY <1>3 DEF CreateCode, End, Calm, Idle
  <2>2. CASE UNCHANGED code
    BY <2>1, <2>2, CodesStay, TokensStay
  <2>3. CASE code' = [code EXCEPT ![f] = CodeRow(doing[h])]
    <3>1. code'[f] = CodeRow(doing[h]) /\ ~UsedUp(f)
      BY <1>3, <2>3 DEF CreateCode, UsedUp, Families
    <3>2. DOMAIN code' = Families /\ \A g \in Families : CodeOK(g)' /\ (UsedUp(g) => UsedUp(g)')
      BY <2>3, <3>1 DEF CodeRow, GrantInv, FamiliesOK, FamilyOK, CodeOK, UsedUp, IssuedCode, Families
    <3> QED
      BY <2>1, <3>2, TokensStay
  <2> QED
    BY <1>3, <2>2, <2>3 DEF CreateCode
<1> QED
  BY <1>2, <1>3

LEMMA ScansKeep ==
  ASSUME GrantInv, NEW h \in Handlers,
         \/ \E f \in Families : \E i \in 1..Len(token[f]) : RevokeToken(h, <<f, i>>)
         \/ \E c \in Clients : RevokeGrant(h, c)
         \/ \E s \in Shops : Link(h, s)
  PROVE  GrantInv'
<1>1. ASSUME NEW f \in Families, NEW i, RevokeToken(h, <<f, i>>) PROVE GrantInv'
  BY <1>1, ScanKeeps DEF RevokeToken
<1>2. ASSUME NEW c \in Clients, RevokeGrant(h, c) PROVE GrantInv'
  BY <1>2, ScanKeeps DEF RevokeGrant, OwnPairs, OwnFamilies
<1>3. ASSUME NEW s \in Shops, Link(h, s) PROVE GrantInv'
  BY <1>3, ScanKeeps DEF Link, OwnPairs, OwnFamilies
<1> QED
  BY <1>1, <1>2, <1>3

-----------------------------------------------------------------------------
(* Steps that take tokens back, or let them expire.                        *)

StillActive(p) == token'[p[1]][p[2]].refresh = "active"

\* A step that leaves the rotations under way their pairs.
LEMMA TokensFade ==
  ASSUME GrantInv, DOMAIN code' = Families, DOMAIN token' = Families, DOMAIN killed' = Families,
         \A f \in Families : CodeOK(f)' /\ (UsedUp(f) => UsedUp(f)') /\ Fades(f),
         \A f \in Families : killed'[f] = killed[f] \/ killed'[f] = "raced" \/ KilledOK(f)',
         UNCHANGED doing \/ \E h \in Handlers : doing[h].kind # "rotate" /\ End(h),
         \A h \in Handlers : doing[h].kind = "rotate" =>
             \/ token'[doing[h].family] = token[doing[h].family]
             \/ (token'[doing[h].family] # <<>> /\ StillActive(doing[h].pair))
  PROVE  GrantInv'
<1>1. Domains
  BY DEF GrantInv, HandlersOK, Domains, End
<1>2. ASSUME NEW h \in Handlers PROVE Harmless(h)
  <2>1. CASE doing'[h] = doing[h]
    <3>1. CASE doing[h].kind # "rotate"
      BY <2>1, <3>1 DEF Harmless
    <3>2. CASE doing[h].kind = "rotate"
      <4>1. token[doing[h].family] # <<>> /\ PairAt(doing[h].pair).refresh = "active" /\ doing[h].pair[1] = doing[h].family
        BY <3>2 DEF GrantInv, FamiliesOK, FamilyOK, HandlersOK, HandlerOK, Pairs
      <4> QED
        BY <2>1, <3>2, <4>1 DEF Harmless, PairAt, StillActive
    <3> QED
      BY <3>1, <3>2
  <2>2. CASE doing'[h] = Idle
    BY <2>2 DEF Harmless, Idle
  <2> QED
    BY <2>1, <2>2 DEF GrantInv, HandlersOK, End
<1> QED
  BY <1>1, <1>2, NothingIssued

LEMMA FunctionSeq ==
  ASSUME NEW S, NEW n \in Nat, NEW t \in [1..n -> S]
  PROVE  t \in Seq(S) /\ Len(t) = n
OBVIOUS

LEMMA RevokedRows ==
  ASSUME NEW pair \in PairRows
  PROVE  /\ RevokedPair(pair) \in PairRows /\ Dead(RevokedPair(pair))
         /\ RevokedPair(pair).refresh # "active"
         /\ UnlinkedPair(pair) \in PairRows /\ UnlinkedPair(pair).refresh # "active"
         /\ Dead(pair) => Dead(UnlinkedPair(pair))
BY DEF PairRows, RevokedPair, UnlinkedPair, Dead

\* An UPDATE fades every family.
LEMMA ChangedFades ==
  ASSUME GrantInv, NEW seen, token' \in {Changed(seen, RevokedPair), Changed(seen, UnlinkedPair)}
  PROVE  /\ DOMAIN token' = Families
         /\ \A f \in Families : Fades(f)
         /\ \A p : p[1] \in Families /\ p \in Pairs(p[1]) /\ p \notin seen => token'[p[1]][p[2]] = token[p[1]][p[2]]
         /\ \A f \in Families : Len(token'[f]) = Len(token[f])
<1> DEFINE Op(pair) == IF token' = Changed(seen, RevokedPair) THEN RevokedPair(pair) ELSE UnlinkedPair(pair)
<1>1. token' = [f \in Families |-> [i \in DOMAIN token[f] |->
                   IF <<f, i>> \in seen THEN Op(token[f][i]) ELSE token[f][i]]]
  BY DEF Changed
<1>2. ASSUME NEW f \in Families
      PROVE  /\ token[f] \in Seq(PairRows) /\ DOMAIN token[f] = 1..Len(token[f]) /\ Len(token[f]) \in Nat
             /\ \A i \in 1..Len(token[f]) : token[f][i] \in PairRows
  BY LenProperties DEF GrantInv, FamiliesOK, FamilyOK
<1>3. ASSUME NEW pair \in PairRows PROVE Op(pair) \in PairRows /\ Op(pair).refresh # "active" /\ (Dead(pair) => Dead(Op(pair)))
  BY RevokedRows
<1> HIDE DEF Op
<1>4. ASSUME NEW f \in Families PROVE Fades(f) /\ Len(token'[f]) = Len(token[f])
  <2>1. token'[f] \in [1..Len(token[f]) -> PairRows]
    BY <1>1, <1>2, <1>3
  <2>2. token'[f] \in Seq(PairRows) /\ Len(token'[f]) = Len(token[f])
    BY <1>2, <2>1, FunctionSeq
  <2>3. ASSUME NEW i \in 1..Len(token[f])
        PROVE  /\ token'[f][i].refresh = "active" => token[f][i].refresh = "active"
               /\ Dead(token[f][i]) => Dead(token'[f][i])
    BY <1>1, <1>2, <1>3
  <2> QED
    BY <2>2, <2>3 DEF Fades
<1>5. ASSUME NEW p, p[1] \in Families, p \in Pairs(p[1]), p \notin seen
      PROVE  token'[p[1]][p[2]] = token[p[1]][p[2]]
  <2>1. PICK i \in 1..Len(token[p[1]]) : p = <<p[1], i>>
    BY <1>5 DEF Pairs
  <2> QED
    BY <1>1, <1>2, <1>5, <2>1
<1> QED
  BY <1>1, <1>4, <1>5

\* The update waits for the rotations that hold what it has seen.
LEMMA UpdateSpares ==
  ASSUME GrantInv, NEW seen, token' \in {Changed(seen, RevokedPair), Changed(seen, UnlinkedPair)},
         \A p \in seen : ~Locked(p), NEW h \in Handlers, doing[h].kind = "rotate", doing' [h] = doing[h]
  PROVE  token'[doing[h].family] # <<>> /\ StillActive(doing[h].pair)
<1>1. /\ doing[h].family \in Families /\ doing[h].pair[1] = doing[h].family
      /\ doing[h].pair \in Pairs(doing[h].family) /\ PairAt(doing[h].pair).refresh = "active"
      /\ doing[h].pair \notin seen
  BY DEF GrantInv, HandlersOK, HandlerOK, Locked
<1>2. Len(token[doing[h].family]) # 0 /\ Len(token'[doing[h].family]) = Len(token[doing[h].family])
  BY <1>1, ChangedFades, LenProperties DEF Pairs, GrantInv, FamiliesOK, FamilyOK
<1> QED
  BY <1>1, <1>2, ChangedFades DEF PairAt, StillActive

LEMMA UpdatesKeep ==
  ASSUME GrantInv, NEW h \in Handlers, Revoke(h) \/ Linked(h)
  PROVE  GrantInv'
<1> DEFINE seen == doing[h].seen
<1>1. /\ UNCHANGED code /\ End(h) /\ doing[h].kind # "rotate"
      /\ token' \in {Changed(seen, RevokedPair), Changed(seen, UnlinkedPair)}
      /\ \A p \in seen : ~Locked(p)
  BY DEF Revoke, Linked
<1>2. /\ DOMAIN token' = Families /\ \A f \in Families : Fades(f)
      /\ \A f \in Families : Len(token'[f]) = Len(token[f])
  BY <1>1, ChangedFades
<1>3. ASSUME NEW j \in Handlers, doing[j].kind = "rotate"
      PROVE  token'[doing[j].family] # <<>> /\ StillActive(doing[j].pair)
  <2>1. doing'[j] = doing[j]
    BY <1>1, <1>3 DEF End
  <2> QED
    BY <1>1, <1>3, <2>1, UpdateSpares
<1>4. DOMAIN killed' = Families
  BY DEF Revoke, Linked, GrantInv, FamiliesOK
<1>5. ASSUME NEW f \in Families, Revoke(h), killed'[f] = "clean", killed'[f] # killed[f] PROVE KilledOK(f)'
  <2>1. /\ \E p \in seen : p[1] = f
        /\ Pairs(f) \subseteq seen /\ ~Issuing(f)
    BY <1>5 DEF Revoke
  <2>2. UsedUp(f)'
    <3>1. UsedUp(f)
      BY <2>1, <1>5 DEF Revoke, GrantInv, HandlersOK, HandlerOK
    <3> QED
      BY <1>1, <3>1 DEF UsedUp, IssuedCode
  <2>3. ~Issuing(f)'
    BY <1>1, <2>1 DEF Issuing, End, GrantInv, HandlersOK, Idle
  <2>4. \A i \in DOMAIN token'[f] : Dead(token'[f][i])
    <3>1. token[f] \in Seq(PairRows) /\ DOMAIN token[f] = 1..Len(token[f])
      BY LenProperties DEF GrantInv, FamiliesOK, FamilyOK
    <3>2. token'[f] = [i \in DOMAIN token[f] |-> RevokedPair(token[f][i])]
      BY <1>5, <2>1, <3>1 DEF Revoke, Changed, Pairs
    <3>3. ASSUME NEW i \in DOMAIN token[f] PROVE token[f][i] \in PairRows
      BY <3>1, ElementOfSeq
    <3> QED
      BY <3>2, <3>3, RevokedRows
  <2> QED
    BY <2>2, <2>3, <2>4 DEF KilledOK
<1>6. \A f \in Families : killed'[f] = killed[f] \/ killed'[f] = "raced" \/ KilledOK(f)'
  <2>1. CASE Revoke(h)
    BY <1>5, <2>1 DEF Revoke
  <2>2. CASE Linked(h)
    BY <2>2 DEF Linked
  <2> QED
    BY <2>1, <2>2
<1>7. DOMAIN code' = Families /\ \A f \in Families : CodeOK(f)' /\ (UsedUp(f) => UsedUp(f)')
  BY <1>1, CodesStay
<1>8. \E j \in Handlers : doing[j].kind # "rotate" /\ End(j)
  BY <1>1
<1> QED
  BY <1>2, <1>3, <1>4, <1>6, <1>7, <1>8, TokensFade

LEMMA AgeKeeps ==
  ASSUME GrantInv, NEW f \in Families, NEW i \in 1..Len(token[f]), TokenAges(<<f, i>>)
  PROVE  GrantInv'
<1>1. token[f] \in Seq(PairRows) /\ token[f][i] \in PairRows /\ Len(token[f]) \in Nat
  BY ElementOfSeq, LenProperties DEF GrantInv, FamiliesOK, FamilyOK
<1> DEFINE row == [token[f][i] EXCEPT !.age = Later[@]]
<1>2. /\ row \in PairRows /\ row.refresh = token[f][i].refresh
      /\ Dead(token[f][i]) => Dead(row)
  <2>1. token[f][i].age \in {"fresh", "stale", "over"}
    BY <1>1 DEF TokenAges, PairAt, PairRows
  <2>2. Later[token[f][i].age] \in {"stale", "over", "gone"}
    BY <2>1 DEF Later
  <2> QED
    BY <1>1, <2>2 DEF PairRows, Dead
<1>3. /\ UNCHANGED <<code, doing, killed>> /\ DOMAIN token' = Families
      /\ token'[f] = [token[f] EXCEPT ![i] = row]
      /\ \A g \in Families \ {f} : token'[g] = token[g]
  BY DEF TokenAges, GrantInv, FamiliesOK
<1> HIDE DEF row
<1>4. /\ token'[f] \in Seq(PairRows) /\ Len(token'[f]) = Len(token[f])
      /\ \A j \in 1..Len(token[f]) : token'[f][j] = IF j = i THEN row ELSE token[f][j]
  BY <1>1, <1>2, <1>3, ExceptSeq
<1>5. \A g \in Families : Fades(g)
  <2>1. Fades(f)
    BY <1>2, <1>4 DEF Fades
  <2>2. \A g \in Families \ {f} : Fades(g)
    BY <1>3 DEF Fades, GrantInv, FamiliesOK, FamilyOK
  <2> QED
    BY <2>1, <2>2
<1>6. ASSUME NEW h \in Handlers, doing[h].kind = "rotate"
      PROVE  \/ token'[doing[h].family] = token[doing[h].family]
             \/ (token'[doing[h].family] # <<>> /\ StillActive(doing[h].pair))
  <2>1. /\ doing[h].family \in Families /\ doing[h].pair[1] = doing[h].family
        /\ doing[h].pair \in Pairs(doing[h].family) /\ PairAt(doing[h].pair).refresh = "active"
    BY <1>6 DEF GrantInv, HandlersOK, HandlerOK
  <2>2. CASE doing[h].family = f
    <3>1. PICK j \in 1..Len(token[f]) : doing[h].pair = <<f, j>>
      BY <2>1, <2>2 DEF Pairs
    <3>2. token'[f][j].refresh = "active" /\ Len(token'[f]) # 0
      BY <1>1, <1>2, <1>4, <2>1, <3>1 DEF PairAt
    <3> QED
      BY <1>3, <2>2, <3>1, <3>2, EmptySeq DEF StillActive
  <2> QED
    BY <1>3, <2>1, <2>2
<1>7. DOMAIN code' = Families /\ \A g \in Families : CodeOK(g)' /\ (UsedUp(g) => UsedUp(g)')
  BY <1>3, CodesStay
<1>8. DOMAIN killed' = Families
  BY <1>3 DEF GrantInv, FamiliesOK
<1> QED
  BY <1>3, <1>5, <1>6, <1>7, <1>8, TokensFade

\* Families go with their account, or with their app.
LEMMA FamiliesGo ==
  ASSUME GrantInv, NEW its \in SUBSET Families, \A f \in its : IssuedCode(f),
         code' = [f \in Families |-> IF f \in its THEN [code[f] EXCEPT !.age = "gone"] ELSE code[f]],
         token' = [f \in Families |-> IF f \in its THEN <<>> ELSE token[f]],
         \A h \in Handlers : doing[h].kind = "rotate" => doing[h].family \notin its,
         UNCHANGED <<doing, killed>>
  PROVE  GrantInv'
<1>1. DOMAIN code' = Families /\ \A f \in Families : CodeOK(f)' /\ (UsedUp(f) => UsedUp(f)')
  BY DEF GrantInv, FamiliesOK, FamilyOK, CodeOK, UsedUp, IssuedCode
<1>2. DOMAIN token' = Families /\ DOMAIN killed' = Families /\ \A f \in Families : Fades(f)
  BY DEF GrantInv, FamiliesOK, FamilyOK, Fades
<1>3. \A h \in Handlers : doing[h].kind = "rotate" => token'[doing[h].family] = token[doing[h].family]
  BY DEF GrantInv, HandlersOK, HandlerOK
<1> QED
  BY <1>1, <1>2, <1>3, TokensFade

LEMMA DeleteKeeps ==
  ASSUME GrantInv, DeleteAccount
  PROVE  GrantInv'
<1>1. OwnFamilies(cookie) \in SUBSET Families /\ \A f \in OwnFamilies(cookie) : IssuedCode(f) /\ code[f].account = cookie
  BY DEF OwnFamilies
<1> QED
  BY <1>1, FamiliesGo DEF DeleteAccount

LEMMA CleanUpKeeps ==
  ASSUME GrantInv, NEW c \in Clients, CleanUp(c)
  PROVE  GrantInv'
<1> DEFINE its == {f \in Families : IssuedCode(f) /\ code[f].client = c}
<1>1. its \in SUBSET Families /\ \A f \in its : IssuedCode(f) /\ ~Issuing(f)
  BY DEF CleanUp
<1>2. \A h \in Handlers : doing[h].kind = "rotate" => doing[h].family \notin its
  BY <1>1 DEF Issuing
<1> QED
  BY <1>1, <1>2, FamiliesGo DEF CleanUp

-----------------------------------------------------------------------------
(* Steps that lead to new tokens.                                          *)

Issues(h, f) == doing[h].kind \in {"issue", "rotate"} /\ doing[h].family = f

LEMMA BeginsToIssue ==
  ASSUME GrantInv, NEW h \in Handlers, NEW f \in Families, NEW r,
         doing' = [doing EXCEPT ![h] = r], r.kind \in {"issue", "rotate"}, r.family = f,
         killed[f] # "clean", \A j \in Handlers \ {h} : ~Issues(j, f), HandlerOK(h)',
         DOMAIN code' = Families, \A g \in Families : CodeOK(g)' /\ (UsedUp(g) => UsedUp(g)'),
         UNCHANGED <<token, killed>>
  PROVE  GrantInv'
<1>1. /\ DOMAIN doing' = Handlers /\ doing'[h] = r
      /\ \A j \in Handlers \ {h} : doing'[j] = doing[j]
      /\ Families' = Families
  BY DEF GrantInv, HandlersOK, Families
<1>2. \A g \in Families \ {f} : Issuing(g)' => Issuing(g)
  BY <1>1 DEF Issuing
<1>3. FamiliesOK'
  BY <1>1, <1>2 DEF GrantInv, FamiliesOK, FamilyOK, CodeOK, TokensOK, KilledOK, Dead
<1>4. \A j \in Handlers : HandlerOK(j)'
  <2>1. ASSUME NEW j \in Handlers \ {h} PROVE HandlerOK(j)'
    BY <1>1 DEF GrantInv, HandlersOK, HandlerOK, Pairs, PairAt
  <2> QED
    BY <2>1
<1>5. \A i, j \in Handlers : Alone(i, j)'
  BY <1>1 DEF GrantInv, HandlersOK, Alone, Issues
<1> QED
  BY <1>1, <1>3, <1>4, <1>5 DEF GrantInv, HandlersOK

LEMMA HasIssued ==
  ASSUME GrantInv, NEW h \in Handlers, NEW f \in Families, Issues(h, f), End(h),
         DOMAIN token' = Families, \A g \in Families \ {f} : token'[g] = token[g],
         token'[f] \in Seq(PairRows), UsedUp(f),
         \A i, j \in DOMAIN token'[f] : token'[f][i].refresh = "active" /\ token'[f][j].refresh = "active" => i = j,
         UNCHANGED <<code, killed>>
  PROVE  GrantInv'
<1>1. /\ DOMAIN doing' = Handlers /\ doing'[h].kind = "idle"
      /\ \A j \in Handlers \ {h} : doing'[j] = doing[j]
      /\ Families' = Families /\ \A g \in Families : UsedUp(g)' = UsedUp(g)
  BY DEF GrantInv, HandlersOK, Families, End, Idle, UsedUp, IssuedCode
<1>2. killed[f] # "clean"
  BY DEF GrantInv, FamiliesOK, KilledOK, Issues, Issuing
<1>3. ASSUME NEW g \in Families PROVE FamilyOK(g)' /\ TokensOK(g)' /\ KilledOK(g)'
  <2>1. FamilyOK(g) /\ TokensOK(g) /\ KilledOK(g)
    BY DEF GrantInv, FamiliesOK
  <2>2. CASE g = f
    BY <1>1, <1>2, <2>1, <2>2 DEF FamilyOK, TokensOK, KilledOK, IssuedCode
  <2>3. CASE g # f
    <3>1. token'[g] = token[g] /\ (Issuing(g)' => Issuing(g))
      BY <1>1, <2>3 DEF Issuing
    <3> QED
      BY <1>1, <2>1, <3>1 DEF FamilyOK, TokensOK, KilledOK, IssuedCode, Dead
  <2> QED
    BY <2>2, <2>3
<1>4. ASSUME NEW j \in Handlers PROVE HandlerOK(j)'
  <2>1. CASE j = h
    BY <1>1, <2>1 DEF HandlerOK
  <2>2. CASE j # h
    <3>1. HandlerOK(j) /\ ~Issues(j, f) /\ doing'[j] = doing[j]
      BY <1>1, <2>2 DEF GrantInv, HandlersOK, Alone, Issues
    <3> QED
      BY <1>1, <3>1 DEF HandlerOK, Issues, Pairs, PairAt
  <2> QED
    BY <2>1, <2>2
<1>5. \A i, j \in Handlers : Alone(i, j)'
  BY <1>1 DEF GrantInv, HandlersOK, Alone
<1> QED
  BY <1>1, <1>3, <1>4, <1>5 DEF GrantInv, FamiliesOK, HandlersOK

\* A code is exchanged for tokens once; trying again revokes them.
LEMMA ExchangeKeeps ==
  ASSUME GrantInv, NEW h \in Handlers, NEW f \in Families, NEW c \in Clients, NEW proof \in BOOLEAN,
         Exchange(h, f, c, proof)
  PROVE  GrantInv'
<1>1. CASE code[f].used
  BY <1>1, ScanKeeps DEF Exchange
<1>2. CASE ~code[f].used
  <2>1. /\ ~UsedUp(f) /\ UNCHANGED <<token, killed>>
        /\ code' = [code EXCEPT ![f].used = TRUE]
    BY <1>2 DEF Exchange, UsedUp
  <2>2. FamilyOK(f) /\ IssuedCode(f)
    BY <1>2 DEF Exchange, GrantInv, FamiliesOK
  <2>3. DOMAIN code' = Families /\ UsedUp(f)' /\ \A g \in Families : CodeOK(g)' /\ (UsedUp(g) => UsedUp(g)')
    BY <2>1, <2>2 DEF GrantInv, FamiliesOK, FamilyOK, CodeOK, UsedUp, IssuedCode, Families
  <2>4. CASE UNCHANGED doing
    BY <2>1, <2>3, <2>4, TokensStay
  <2>5. CASE doing' = [doing EXCEPT ![h] = [kind |-> "issue", family |-> f]]
    <3>1. token[f] = <<>> /\ killed[f] # "clean"
      BY <2>1 DEF GrantInv, FamiliesOK, TokensOK, KilledOK
    <3>2. \A j \in Handlers : ~Issues(j, f)
      BY <2>1, <3>1, EmptySeq DEF GrantInv, HandlersOK, HandlerOK, Issues, Pairs
    <3>3. HandlerOK(h)'
      BY <2>1, <2>3, <2>5, <3>1 DEF HandlerOK, GrantInv, HandlersOK, Families
    <3> QED
      <4> DEFINE r == [kind |-> "issue", family |-> f]
      <4>1. doing' = [doing EXCEPT ![h] = r] /\ r.kind \in {"issue", "rotate"} /\ r.family = f
        BY <2>5
      <4> QED
        BY <2>1, <2>3, <3>1, <3>2, <3>3, <4>1, BeginsToIssue
  <2> QED
    BY <1>2, <2>4, <2>5 DEF Exchange, Begin
<1> QED
  BY <1>1, <1>2

LEMMA NewPair ==
  ASSUME NEW f
  PROVE  IssuedPair(f) \in PairRows
BY DEF IssuedPair, PairRows

LEMMA IssueKeeps ==
  ASSUME GrantInv, NEW h \in Handlers, Issue(h)
  PROVE  GrantInv'
<1>1. PICK f \in Families : /\ f = doing[h].family /\ Issues(h, f)
                           /\ UsedUp(f) /\ token[f] = <<>>
  BY DEF Issue, GrantInv, HandlersOK, HandlerOK, Issues
<1>2. End(h) /\ UNCHANGED <<code, killed>>
  BY DEF Issue
<1>3. CASE UNCHANGED token
  BY <1>2, <1>3, EndsCalmly
<1>4. CASE token' = [token EXCEPT ![f] = Append(@, IssuedPair(f))]
  <2>1. DOMAIN token' = Families /\ \A g \in Families \ {f} : token'[g] = token[g]
    BY <1>4 DEF GrantInv, FamiliesOK
  <2>2. token'[f] = Append(<<>>, IssuedPair(f))
    BY <1>1, <1>4 DEF GrantInv, FamiliesOK
  <2>3. token'[f] \in Seq(PairRows) /\ DOMAIN token'[f] = {1}
    BY <2>2, NewPair, EmptySeq
  <2> QED
    BY <1>1, <1>2, <2>1, <2>3, HasIssued
<1> QED
  BY <1>1, <1>3, <1>4 DEF Issue

LEMMA RefreshKeeps ==
  ASSUME GrantInv, NEW h \in Handlers, NEW f \in Families, NEW i \in 1..Len(token[f]), Refresh(h, <<f, i>>)
  PROVE  GrantInv'
<1> DEFINE p == <<f, i>>
<1>1. p \in Pairs(f) /\ ~Locked(p) /\ UNCHANGED <<code, token, killed>>
  BY DEF Refresh, Pairs
<1>2. CASE ScanTo(h, "revoke", NoOne, NoOne, Pairs(f))
  BY <1>1, <1>2, ScanKeeps
<1>3. ASSUME Refreshable(PairAt(p)), doing' = [doing EXCEPT ![h] = [kind |-> "rotate", family |-> f, pair |-> p]]
      PROVE  GrantInv'
  <2> DEFINE r == [kind |-> "rotate", family |-> f, pair |-> p]
  <2>1. doing' = [doing EXCEPT ![h] = r] /\ r.kind \in {"issue", "rotate"} /\ r.family = f
    BY <1>3
  <2>2. PairAt(p).refresh = "active" /\ token[f][i].refresh = "active"
    BY <1>3 DEF Refreshable, PairAt
  <2>3. token[f] \in Seq(PairRows) /\ DOMAIN token[f] = 1..Len(token[f]) /\ token[f] # <<>>
    BY EmptySeq, LenProperties DEF GrantInv, FamiliesOK, FamilyOK
  <2>4. killed[f] # "clean"
    BY <2>2, <2>3 DEF GrantInv, FamiliesOK, KilledOK, Dead
  <2>5. ASSUME NEW j \in Handlers, Issues(j, f) PROVE FALSE
    <3>1. doing[j].kind = "rotate" /\ doing[j].pair \in Pairs(f) /\ PairAt(doing[j].pair).refresh = "active"
      BY <2>3, <2>5 DEF GrantInv, HandlersOK, HandlerOK, Issues
    <3>2. PICK k \in 1..Len(token[f]) : doing[j].pair = <<f, k>>
      BY <3>1 DEF Pairs
    <3>3. token[f][k].refresh = "active"
      BY <3>1, <3>2 DEF PairAt
    <3>4. k = i
      BY <2>2, <2>3, <3>3 DEF GrantInv, FamiliesOK, TokensOK
    <3> QED
      BY <1>1, <3>1, <3>2, <3>4 DEF Locked
  <2>6. HandlerOK(h)'
    BY <1>1, <2>1, <2>2 DEF HandlerOK, GrantInv, HandlersOK, Families, Pairs, PairAt
  <2> QED
    BY <1>1, <2>1, <2>4, <2>5, <2>6, CodesStay, BeginsToIssue
<1> QED
  BY <1>2, <1>3 DEF Refresh, Begin

\* A rotation takes the token that refreshes and puts its own in its place.
LEMMA RotatedKeeps ==
  ASSUME GrantInv, NEW h \in Handlers, Rotated(h)
  PROVE  GrantInv'
<1>1. PICK f \in Families : /\ f = doing[h].family /\ Issues(h, f) /\ doing[h].pair[1] = f
                           /\ doing[h].pair \in Pairs(f) /\ PairAt(doing[h].pair).refresh = "active"
  BY DEF Rotated, GrantInv, HandlersOK, HandlerOK, Issues
<1>2. PICK i \in 1..Len(token[f]) : doing[h].pair = <<f, i>>
  BY <1>1 DEF Pairs
<1>3. /\ token[f] \in Seq(PairRows) /\ DOMAIN token[f] = 1..Len(token[f]) /\ Len(token[f]) \in Nat
      /\ token[f][i] \in PairRows /\ token[f][i].refresh = "active" /\ UsedUp(f)
  BY <1>1, <1>2, LenProperties, ElementOfSeq, PairsUsed DEF GrantInv, FamiliesOK, FamilyOK, PairAt
<1> DEFINE old == [token[f][i] EXCEPT !.refresh = "rotated"]
           left == [token[f] EXCEPT ![i] = old]
<1>4. old \in PairRows /\ old.refresh = "rotated"
  BY <1>3 DEF PairRows
<1>5. /\ End(h) /\ UNCHANGED <<code, killed>> /\ DOMAIN token' = Families
      /\ \A g \in Families \ {f} : token'[g] = token[g]
      /\ token'[f] = Append(left, IssuedPair(f))
  <2>1. token' = [token EXCEPT ![f] = Append([token[f] EXCEPT ![i].refresh = "rotated"], IssuedPair(f))]
    BY <1>1, <1>2 DEF Rotated
  <2>2. [token[f] EXCEPT ![i].refresh = "rotated"] = left
    OBVIOUS
  <2>3. End(h) /\ UNCHANGED <<code, killed>> /\ DOMAIN token = Families
    BY DEF Rotated, GrantInv, FamiliesOK
  <2> HIDE DEF left
  <2> QED
    BY <2>1, <2>2, <2>3
<1> HIDE DEF old
<1>6. /\ left \in Seq(PairRows) /\ Len(left) = Len(token[f])
      /\ \A j \in 1..Len(token[f]) : left[j] = IF j = i THEN old ELSE token[f][j]
  BY <1>3, <1>4, ExceptSeq
<1> HIDE DEF left
<1>7. /\ token'[f] \in Seq(PairRows) /\ DOMAIN token'[f] = 1..(Len(token[f]) + 1)
      /\ \A j \in 1..Len(token[f]) : token'[f][j] = left[j]
  BY <1>3, <1>5, <1>6, NewPair
<1>8. ASSUME NEW j \in 1..Len(token[f]) PROVE token'[f][j].refresh # "active"
  <2>1. j # i => token[f][j].refresh # "active"
    BY <1>3 DEF GrantInv, FamiliesOK, TokensOK
  <2> QED
    BY <1>4, <1>6, <1>7, <2>1
<1>9. \A j, k \in DOMAIN token'[f] : token'[f][j].refresh = "active" /\ token'[f][k].refresh = "active" => j = k
  BY <1>3, <1>7, <1>8
<1> QED
  BY <1>1, <1>3, <1>5, <1>7, <1>9, HasIssued

-----------------------------------------------------------------------------
(* The whole program.                                                      *)

LEMMA GrantsBegin ==
  ASSUME AssistantInit
  PROVE  GrantInv
<1>1. /\ DOMAIN token = Families /\ DOMAIN killed = Families
      /\ \A f \in Families : code[f] = NoCode /\ token[f] = <<>> /\ killed[f] = "no"
      /\ doing = [h \in Handlers |-> Idle]
  BY DEF AssistantInit, GrantInit, Families
<1>2. \A f \in Families : DOMAIN token[f] = {} /\ token[f] \in Seq(PairRows)
  <2>1. <<>> \in Seq(PairRows) /\ DOMAIN <<>> = {}
    BY EmptySeq
  <2> QED
    BY <1>1, <2>1
<1>3. FamiliesOK
  BY <1>1, <1>2 DEF FamiliesOK, FamilyOK, TokensOK, KilledOK, NoCode, IssuedCode
<1>4. HandlersOK
  BY <1>1 DEF HandlersOK, HandlerOK, Alone, Idle
<1> QED
  BY <1>3, <1>4 DEF GrantInv

LEMMA NothingGranted ==
  ASSUME GrantInv, UNCHANGED <<code, token, doing, killed>>
  PROVE  GrantInv'
BY CodesStay, TokensStay DEF GrantInv, FamiliesOK

LEMMA GrantsKeep ==
  ASSUME GrantInv, GrantNext
  PROVE  GrantInv'
<1>1. ASSUME NEW a \in Accounts, SignUp(a) \/ LockEnds(a) PROVE GrantInv'
  BY <1>1, NothingGranted DEF SignUp, LockEnds
<1>2. ASSUME NEW c \in Clients, Register(c) \/ ClientIdles(c) PROVE GrantInv'
  BY <1>2, NothingGranted DEF Register, ClientIdles
<1>3. CASE LogOut
  BY <1>3, NothingGranted DEF LogOut
<1>4. ASSUME NEW h \in Handlers,
             \/ \E a \in Accounts : LogIn(h, a)
             \/ \E ok \in BOOLEAN : CheckedLogIn(h, ok)
             \/ \E c \in Clients, s \in Scopes : Allow(h, c, s)
             \/ \E f \in Families : CreateCode(h, f)
             \/ \E f \in Families, c \in Clients, proof \in BOOLEAN : Exchange(h, f, c, proof)
             \/ Issue(h) \/ Rotated(h) \/ Revoke(h) \/ Linked(h) \/ Die(h)
             \/ \E f \in Families : \E i \in 1..Len(token[f]) : Refresh(h, <<f, i>>) \/ RevokeToken(h, <<f, i>>)
             \/ \E c \in Clients : RevokeGrant(h, c)
             \/ \E s \in Shops : Link(h, s)
      PROVE  GrantInv'
  <2>1. CASE \/ \E a \in Accounts : LogIn(h, a)
             \/ \E ok \in BOOLEAN : CheckedLogIn(h, ok)
             \/ \E c \in Clients, s \in Scopes : Allow(h, c, s)
             \/ Die(h)
    BY <2>1, RequestsKeep
  <2>2. CASE \/ \E f \in Families : \E i \in 1..Len(token[f]) : RevokeToken(h, <<f, i>>)
             \/ \E c \in Clients : RevokeGrant(h, c)
             \/ \E s \in Shops : Link(h, s)
    BY <2>2, ScansKeep
  <2>3. CASE \/ \E f \in Families : CreateCode(h, f)
             \/ \E f \in Families, c \in Clients, proof \in BOOLEAN : Exchange(h, f, c, proof)
             \/ \E f \in Families : \E i \in 1..Len(token[f]) : Refresh(h, <<f, i>>)
             \/ Issue(h) \/ Rotated(h)
    BY <2>3, CodesKeep, ExchangeKeeps, RefreshKeeps, IssueKeeps, RotatedKeeps
  <2>4. CASE Revoke(h) \/ Linked(h)
    BY <2>4, UpdatesKeep
  <2> QED
    BY <1>4, <2>1, <2>2, <2>3, <2>4
<1>5. ASSUME NEW f \in Families, CodeExpires(f) \/ CodeDeleted(f) PROVE GrantInv'
  BY <1>5, CodesKeep
<1> QED
  BY <1>1, <1>2, <1>3, <1>4, <1>5, AgeKeeps, CleanUpKeeps DEF GrantNext

LEMMA GrantsStep ==
  ASSUME GrantInv, [AssistantNext]_assistantVars
  PROVE  GrantInv'
<1>1. CASE UNCHANGED <<code, token, doing, killed>>
  BY <1>1, NothingGranted
<1>2. CASE GrantNext
  BY <1>2, GrantsKeep
<1>3. CASE Leave
  BY <1>3, DeleteKeeps DEF Leave
<1>4. CASE McpNext /\ McpOnly
  BY <1>1, <1>4 DEF McpOnly
<1>5. ASSUME NEW k \in Calls, FreshenShop(k) PROVE GrantInv'
  BY <1>1, <1>5 DEF FreshenShop, McpOnly
<1>6. CASE RestartServer
  BY <1>1, <1>6 DEF RestartServer, McpOnly
<1> QED
  BY <1>1, <1>2, <1>3, <1>4, <1>5, <1>6 DEF AssistantNext, assistantVars, grantVars

\* At most one refresh token of a grant is good at a time, however exchange,
\* rotation and revocation interleave (rotateRefreshToken, issueTokens).
THEOREM OneRefresh == AssistantSpec => []OneRefreshToken
<1>1. GrantInv => OneRefreshToken
  <2> SUFFICES ASSUME GrantInv, NEW f \in Families
               PROVE  Cardinality({i \in DOMAIN token[f] : token[f][i].refresh = "active"}) <= 1
    BY DEF OneRefreshToken
  <2> DEFINE good == {i \in DOMAIN token[f] : token[f][i].refresh = "active"}
  <2>1. \A i, j \in good : i = j
    BY DEF GrantInv, FamiliesOK, TokensOK
  <2>2. good = {} \/ \E i : good = {i}
    BY <2>1
  <2>3. Cardinality(good) \in {0, 1}
    BY <2>2, FS_EmptySet, FS_Singleton
  <2> QED
    BY <2>3
<1> QED
  BY <1>1, GrantsBegin, GrantsStep, PTL DEF AssistantSpec

\* A family revoked while nothing was being issued for it stays dead
\* (revokeToken and revokeGrant, against a late exchange or rotation).
THEOREM RevokedDead == AssistantSpec => []RevokedStaysDead
<1>1. GrantInv => RevokedStaysDead
  BY DEF GrantInv, FamiliesOK, KilledOK, RevokedStaysDead
<1> QED
  BY <1>1, GrantsBegin, GrantsStep, PTL DEF AssistantSpec

-----------------------------------------------------------------------------
(* What a consent is bound to.                                             *)

AccountsOK ==
    /\ DOMAIN account = Accounts /\ cookie \in Accounts \union {NoOne}
    /\ \A a \in Accounts : {"state", "shop", "failed", "locked"} \subseteq DOMAIN account[a]

\* Consents are given by accounts that are, or were, there.
Given(f) ==
    IssuedCode(f) =>
        /\ {"account", "shop", "used", "age"} \subseteq DOMAIN code[f]
        /\ code[f].account \in Accounts /\ account[code[f].account].state # "none"

AllowOK(h) == doing[h].kind \in {"login", "allow", "link"} => doing[h].account \in Accounts

\* A grant is for the shop of its account, or it is over for good.
Settled(f) == code[f].shop = account[code[f].account].shop
Over(f) == UsedUp(f) /\ ~Issuing(f) /\ \A i \in DOMAIN token[f] : ~Live(token[f][i])

ConsentOK(f) ==
    IssuedCode(f) /\ Exists(code[f].account) /\ code[f].account \notin relinked => Settled(f) \/ Over(f)

ConsentInv ==
    /\ AccountsOK
    /\ \A h \in Handlers : AllowOK(h)
    /\ \A f \in Families : Given(f) /\ ConsentOK(f)

-----------------------------------------------------------------------------
(* What is over stays over.                                                *)

\* No pair comes back to life.
Withers(f) ==
    \/ token'[f] = <<>>
    \/ /\ DOMAIN token'[f] = DOMAIN token[f]
       /\ \A i \in DOMAIN token[f] : Live(token'[f][i]) => Live(token[f][i])

LEMMA OverStays ==
  ASSUME GrantInv, NEW f \in Families, Over(f), UsedUp(f) => UsedUp(f)', Withers(f),
         \A h \in Handlers : (doing'[h].kind \in {"issue", "rotate"} /\ doing'[h].family = f) => doing'[h] = doing[h]
  PROVE  Over(f)'
<1>1. ~Issuing(f)'
  BY DEF Over, Issuing
<1>2. \A i \in DOMAIN token'[f] : ~Live(token'[f][i])
  BY DEF Over, Withers
<1> QED
  BY <1>1, <1>2 DEF Over

LEMMA CalmStays ==
  ASSUME GrantInv, UNCHANGED token, \A f \in Families : UsedUp(f) => UsedUp(f)',
         \/ UNCHANGED doing
         \/ \E h \in Handlers : \E r : doing' = [doing EXCEPT ![h] = r] /\ r.kind \notin {"issue", "rotate"}
  PROVE  \A f \in Families : Over(f) => Over(f)'
<1>1. \A f \in Families : Withers(f)
  BY DEF Withers
<1>2. \A h \in Handlers : doing'[h] = doing[h] \/ doing'[h].kind \notin {"issue", "rotate"}
  BY DEF GrantInv, HandlersOK
<1> QED
  BY <1>1, <1>2, OverStays

LEMMA EndStays ==
  ASSUME GrantInv, NEW h \in Handlers, End(h), UNCHANGED code, NEW f \in Families, Over(f), Withers(f)
  PROVE  Over(f)'
<1>1. \A j \in Handlers : doing'[j] = doing[j] \/ doing'[j].kind = "idle"
  BY DEF End, Idle, GrantInv, HandlersOK
<1>2. UsedUp(f) => UsedUp(f)'
  BY DEF UsedUp, IssuedCode
<1> QED
  BY <1>1, <1>2, OverStays

LEMMA UpdateStays ==
  ASSUME GrantInv, NEW h \in Handlers, Revoke(h) \/ Linked(h), NEW f \in Families, Over(f)
  PROVE  Over(f)'
<1>1. /\ UNCHANGED code /\ End(h)
      /\ token' \in {Changed(doing[h].seen, RevokedPair), Changed(doing[h].seen, UnlinkedPair)}
  BY DEF Revoke, Linked
<1>2. DOMAIN token'[f] = DOMAIN token[f]
  BY <1>1 DEF Changed
<1>3. ASSUME NEW i \in DOMAIN token[f], Live(token'[f][i]) PROVE Live(token[f][i])
  <2>1. token[f][i] \in PairRows
    BY ElementOfSeq, LenProperties DEF GrantInv, FamiliesOK, FamilyOK
  <2>2. ~Live(RevokedPair(token[f][i])) /\ ~Live(UnlinkedPair(token[f][i]))
    BY <2>1 DEF Live, RevokedPair, UnlinkedPair, PairRows
  <2>3. token'[f][i] \in {token[f][i], RevokedPair(token[f][i]), UnlinkedPair(token[f][i])}
    BY <1>1 DEF Changed
  <2> QED
    BY <1>3, <2>2, <2>3
<1>4. Withers(f)
  BY <1>2, <1>3 DEF Withers
<1> QED
  BY <1>1, <1>4, EndStays

LEMMA AgeStays ==
  ASSUME GrantInv, NEW g \in Families, NEW i \in 1..Len(token[g]), TokenAges(<<g, i>>), NEW f \in Families, Over(f)
  PROVE  Over(f)'
<1>1. token[g] \in Seq(PairRows) /\ token[g][i] \in PairRows /\ DOMAIN token[g] = 1..Len(token[g])
  BY ElementOfSeq, LenProperties DEF GrantInv, FamiliesOK, FamilyOK
<1> DEFINE row == [token[g][i] EXCEPT !.age = Later[@]]
<1>2. Live(row) => Live(token[g][i])
  <2>1. token[g][i].age \in {"fresh", "stale", "over"}
    BY <1>1 DEF TokenAges, PairAt, PairRows
  <2>2. /\ token[g][i].age = "fresh" => Later[token[g][i].age] = "stale"
        /\ token[g][i].age = "stale" => Later[token[g][i].age] = "over"
        /\ token[g][i].age = "over" => Later[token[g][i].age] = "gone"
    BY DEF Later
  <2> QED
    BY <1>1, <2>1, <2>2 DEF PairRows, Live
<1>3. /\ UNCHANGED <<code, doing>>
      /\ token' = [token EXCEPT ![g] = [token[g] EXCEPT ![i] = row]]
  BY DEF TokenAges
<1> HIDE DEF row
<1>4. Withers(f)
  BY <1>1, <1>2, <1>3 DEF Withers, GrantInv, FamiliesOK
<1>5. UsedUp(f) => UsedUp(f)'
  BY <1>3 DEF UsedUp, IssuedCode
<1> QED
  BY <1>3, <1>4, <1>5, OverStays

\* A code's age moves on, and a code that is used up stays so.
LEMMA UsedStays ==
  ASSUME GrantInv, NEW f \in Families, NEW g \in Families, UsedUp(g),
         \/ CodeExpires(f) \/ CodeDeleted(f) \/ \E h \in Handlers : CreateCode(h, f)
         \/ code' = [code EXCEPT ![f].used = TRUE]
  PROVE  UsedUp(g)'
<1>1. FamilyOK(g) /\ FamilyOK(f)
  BY DEF GrantInv, FamiliesOK
<1> QED
  BY <1>1 DEF CodeExpires, CodeDeleted, CreateCode, FamilyOK, UsedUp, IssuedCode, Families

LEMMA IssuesStay ==
  ASSUME GrantInv, NEW h \in Handlers, NEW f \in Families, Over(f),
         \/ Issue(h) \/ Rotated(h)
         \/ \E g \in Families, c \in Clients, proof \in BOOLEAN : Exchange(h, g, c, proof)
         \/ \E g \in Families : \E i \in 1..Len(token[g]) : Refresh(h, <<g, i>>)
  PROVE  Over(f)'
<1>1. CASE Issue(h) \/ Rotated(h)
  <2>1. End(h) /\ UNCHANGED code /\ Issues(h, doing[h].family) /\ doing[h].family # f
    BY <1>1 DEF Issue, Rotated, Issues, Over, Issuing
  <2>2. token'[f] = token[f]
    BY <1>1, <2>1 DEF Issue, Rotated, GrantInv, FamiliesOK, HandlersOK, HandlerOK
  <2>3. Withers(f)
    BY <2>2 DEF Withers
  <2> QED
    BY <2>1, <2>3, EndStays
<1>2. ASSUME NEW g \in Families, NEW c \in Clients, NEW proof \in BOOLEAN, Exchange(h, g, c, proof)
      PROVE  Over(f)'
  <2>1. Withers(f)
    BY <1>2 DEF Exchange, Withers
  <2>2. UsedUp(f) => UsedUp(f)'
    BY <1>2, UsedStays DEF Exchange, UsedUp, IssuedCode
  <2>3. \/ UNCHANGED doing
        \/ \E r : doing' = [doing EXCEPT ![h] = r] /\ (r.kind \in {"issue", "rotate"} => r.family = g /\ ~UsedUp(g))
    <3>1. CASE code[g].used
      <4> DEFINE r == [kind |-> "revoke", account |-> NoOne, shop |-> NoOne, seen |-> Pairs(g)]
      <4>1. doing' = [doing EXCEPT ![h] = r] /\ r.kind = "revoke"
        BY <1>2, <3>1 DEF Exchange, ScanTo, Begin
      <4> QED
        BY <4>1
    <3>2. CASE ~code[g].used
      <4> DEFINE r == [kind |-> "issue", family |-> g]
      <4>1. UNCHANGED doing \/ doing' = [doing EXCEPT ![h] = r]
        BY <1>2, <3>2 DEF Exchange, Begin
      <4>2. r.family = g /\ ~UsedUp(g)
        BY <3>2 DEF UsedUp
      <4> QED
        BY <4>1, <4>2
    <3> QED
      BY <3>1, <3>2
  <2>4. \A j \in Handlers : (doing'[j].kind \in {"issue", "rotate"} /\ doing'[j].family = f) => doing'[j] = doing[j]
    BY <2>3 DEF GrantInv, HandlersOK, Over
  <2> QED
    BY <2>1, <2>2, <2>4, OverStays
<1>3. ASSUME NEW g \in Families, NEW i \in 1..Len(token[g]), Refresh(h, <<g, i>>)
      PROVE  Over(f)'
  <2>1. Withers(f)
    BY <1>3 DEF Refresh, Withers
  <2>2. UsedUp(f) => UsedUp(f)'
    BY <1>3 DEF Refresh, UsedUp, IssuedCode
  <2>3. \E r : doing' = [doing EXCEPT ![h] = r] /\ (r.kind \in {"issue", "rotate"} => r.family = g /\ Live(token[g][i]))
    <3>1. CASE ScanTo(h, "revoke", NoOne, NoOne, Pairs(g))
      <4> DEFINE r == [kind |-> "revoke", account |-> NoOne, shop |-> NoOne, seen |-> Pairs(g)]
      <4>1. doing' = [doing EXCEPT ![h] = r] /\ r.kind = "revoke"
        BY <3>1 DEF ScanTo, Begin
      <4> QED
        BY <4>1
    <3>2. CASE Refreshable(PairAt(<<g, i>>)) /\ doing' = [doing EXCEPT ![h] = [kind |-> "rotate", family |-> g, pair |-> <<g, i>>]]
      <4> DEFINE r == [kind |-> "rotate", family |-> g, pair |-> <<g, i>>]
      <4>1. r.family = g /\ Live(token[g][i])
        BY <3>2 DEF Refreshable, Live, PairAt
      <4> QED
        BY <3>2, <4>1
    <3> QED
      BY <1>3, <3>1, <3>2 DEF Refresh, Begin
  <2>4. i \in DOMAIN token[g]
    BY LenProperties DEF GrantInv, FamiliesOK, FamilyOK
  <2>5. \A j \in Handlers : (doing'[j].kind \in {"issue", "rotate"} /\ doing'[j].family = f) => doing'[j] = doing[j]
    BY <2>3, <2>4 DEF GrantInv, HandlersOK, Over
  <2> QED
    BY <2>1, <2>2, <2>5, OverStays
<1> QED
  BY <1>1, <1>2, <1>3

LEMMA GoneStays ==
  ASSUME GrantInv, NEW its \in SUBSET Families,
         code' = [f \in Families |-> IF f \in its THEN [code[f] EXCEPT !.age = "gone"] ELSE code[f]],
         token' = [f \in Families |-> IF f \in its THEN <<>> ELSE token[f]],
         UNCHANGED doing, NEW f \in Families, Over(f)
  PROVE  Over(f)'
<1>1. Withers(f) /\ (UsedUp(f) => UsedUp(f)')
  BY DEF Withers, GrantInv, FamiliesOK, FamilyOK, UsedUp, IssuedCode
<1> QED
  BY <1>1, OverStays

-----------------------------------------------------------------------------
(* Steps that make no code and link no shop.                               *)

CodesSame ==
    /\ DOMAIN code' = Families
    /\ \A f \in Families : IssuedCode(f)' =>
          /\ IssuedCode(f) /\ DOMAIN code'[f] = DOMAIN code[f]
          /\ code'[f].account = code[f].account /\ code'[f].shop = code[f].shop

\* Accounts come, go and keep their shop.
AccountsSame ==
    \A a \in Accounts :
        /\ account[a].state # "none" => account'[a].state # "none"
        /\ Exists(a)' => account[a].state = "none" \/ (Exists(a) /\ account'[a].shop = account[a].shop)

RequestsOK ==
    \/ UNCHANGED doing
    \/ \E h \in Handlers : \E r : /\ doing' = [doing EXCEPT ![h] = r]
                                  /\ r.kind \in {"login", "allow", "link"} => r.account \in Accounts

LEMMA Carries ==
  ASSUME GrantInv, ConsentInv, AccountsOK', CodesSame, AccountsSame, RequestsOK,
         relinked \subseteq relinked', \A f \in Families : Over(f) => Over(f)'
  PROVE  ConsentInv'
<1>1. Families' = Families
  BY DEF CodesSame, Families
<1>2. \A h \in Handlers : AllowOK(h)'
  BY DEF RequestsOK, AllowOK, ConsentInv, GrantInv, HandlersOK
<1>3. ASSUME NEW f \in Families PROVE Given(f)'
  BY DEF Given, ConsentInv, CodesSame, AccountsSame
<1>4. ASSUME NEW f \in Families, IssuedCode(f)', Exists(code[f].account)', code'[f].account \notin relinked'
      PROVE  Settled(f)' \/ Over(f)'
  <2>1. /\ IssuedCode(f) /\ code'[f].account = code[f].account /\ code'[f].shop = code[f].shop
        /\ code[f].account \in Accounts /\ account[code[f].account].state # "none"
        /\ code[f].account \notin relinked
    BY <1>4 DEF CodesSame, ConsentInv, Given
  <2>2. account'[code[f].account].state = "open"
    BY <1>4, <2>1 DEF Exists
  <2>3. Exists(code[f].account) /\ account'[code[f].account].shop = account[code[f].account].shop
    <3>1. ASSUME NEW a \in Accounts, account'[a].state = "open", account[a].state # "none"
          PROVE  Exists(a) /\ account'[a].shop = account[a].shop
      BY <3>1 DEF AccountsSame, Exists
    <3> QED
      BY <2>1, <2>2, <3>1
  <2>4. Settled(f) \/ Over(f)
    BY <2>1, <2>3 DEF ConsentInv, ConsentOK
  <2> QED
    BY <2>1, <2>3, <2>4 DEF Settled
<1>5. \A f \in Families : ConsentOK(f)'
  BY <1>4 DEF ConsentOK
<1> QED
  BY <1>1, <1>2, <1>3, <1>5 DEF ConsentInv

LEMMA NothingAllowed ==
  ASSUME ConsentInv, UNCHANGED <<account, cookie>>
  PROVE  AccountsOK' /\ AccountsSame
BY DEF ConsentInv, AccountsOK, AccountsSame, Exists

LEMMA CodeSame ==
  ASSUME GrantInv, UNCHANGED code
  PROVE  CodesSame
BY DEF CodesSame, IssuedCode, Families

LEMMA EndOK ==
  ASSUME NEW h \in Handlers, End(h)
  PROVE  RequestsOK
<1>1. doing' = [doing EXCEPT ![h] = Idle] /\ Idle.kind = "idle"
  BY DEF End, Idle
<1> QED
  BY <1>1 DEF RequestsOK

LEMMA BeginOK ==
  ASSUME NEW h \in Handlers, NEW r, Begin(h, r), r.kind \in {"login", "allow", "link"} => r.account \in Accounts
  PROVE  RequestsOK
BY DEF RequestsOK, Begin

LEMMA AccountSteps ==
  ASSUME GrantInv, ConsentInv,
         \/ \E a \in Accounts : SignUp(a) \/ LockEnds(a)
         \/ \E h \in Handlers, ok \in BOOLEAN : CheckedLogIn(h, ok)
         \/ LogOut
  PROVE  ConsentInv'
<1>1. UNCHANGED <<code, token, relinked>> /\ CodesSame
  BY CodeSame DEF SignUp, LockEnds, CheckedLogIn, LogOut
<1>2. \A f \in Families : UsedUp(f) => UsedUp(f)'
  BY <1>1 DEF UsedUp, IssuedCode
<1>3. ASSUME NEW a \in Accounts, SignUp(a) \/ LockEnds(a) PROVE ConsentInv'
  <2>1. UNCHANGED doing /\ \A f \in Families : Over(f) => Over(f)'
    BY <1>1, <1>2, <1>3, CalmStays DEF SignUp, LockEnds
  <2>2. AccountsOK' /\ AccountsSame
    BY <1>3 DEF SignUp, LockEnds, AccountRow, ConsentInv, AccountsOK, AccountsSame, Exists
  <2> QED
    BY <1>1, <2>1, <2>2, Carries DEF RequestsOK
<1>4. ASSUME NEW h \in Handlers, NEW ok \in BOOLEAN, CheckedLogIn(h, ok) PROVE ConsentInv'
  <2>1. End(h) /\ doing[h].account \in Accounts
    BY <1>4 DEF CheckedLogIn, ConsentInv, AllowOK
  <2>2. \A f \in Families : Over(f) => Over(f)'
    BY <1>1, <2>1, EndStays DEF Withers
  <2>3. AccountsOK' /\ AccountsSame
    <3> DEFINE a == doing[h].account
               row == RecordedLogin(account[a], ok)
    <3>1. {"state", "shop", "failed", "locked"} \subseteq DOMAIN account[a]
      BY <2>1 DEF ConsentInv, AccountsOK
    <3>2. DOMAIN row = DOMAIN account[a] /\ row.state = account[a].state /\ row.shop = account[a].shop
      BY <3>1 DEF RecordedLogin
    <3>3. CASE account' = [account EXCEPT ![a] = row] /\ cookie' \in {a, cookie}
      <4> HIDE DEF row
      <4> QED
        BY <2>1, <3>1, <3>2, <3>3 DEF ConsentInv, AccountsOK, AccountsSame, Exists
    <3>4. CASE UNCHANGED <<account, cookie>>
      BY <3>4, NothingAllowed
    <3> QED
      BY <1>4, <3>3, <3>4 DEF CheckedLogIn
  <2> QED
    BY <1>1, <2>1, <2>2, <2>3, EndOK, Carries
<1>5. CASE LogOut
  <2>1. UNCHANGED doing /\ \A f \in Families : Over(f) => Over(f)'
    BY <1>1, <1>2, <1>5, CalmStays DEF LogOut
  <2>2. AccountsOK' /\ AccountsSame
    BY <1>5 DEF LogOut, ConsentInv, AccountsOK, AccountsSame, Exists
  <2> QED
    BY <1>1, <2>1, <2>2, Carries DEF RequestsOK
<1> QED
  BY <1>3, <1>4, <1>5

LEMMA CalmSteps ==
  ASSUME GrantInv, ConsentInv, UNCHANGED <<account, cookie, code, token, relinked>>,
         \/ UNCHANGED doing
         \/ \E h \in Handlers : \E r : /\ doing' = [doing EXCEPT ![h] = r]
                                       /\ r.kind \notin {"issue", "rotate"}
                                       /\ r.kind \in {"login", "allow", "link"} => r.account \in Accounts
  PROVE  ConsentInv'
<1>1. CodesSame /\ AccountsOK' /\ AccountsSame
  BY CodeSame, NothingAllowed
<1>2. \A f \in Families : Over(f) => Over(f)'
  BY CalmStays DEF UsedUp, IssuedCode
<1>3. RequestsOK
  BY DEF RequestsOK
<1> QED
  BY <1>1, <1>2, <1>3, Carries

LEMMA RequestSteps ==
  ASSUME GrantInv, ConsentInv, NEW h \in Handlers,
         \/ \E a \in Accounts : LogIn(h, a)
         \/ \E c \in Clients, s \in Scopes : Allow(h, c, s)
         \/ Die(h)
  PROVE  ConsentInv'
<1>1. ASSUME NEW a \in Accounts, LogIn(h, a) PROVE ConsentInv'
  <2> DEFINE r == [kind |-> "login", account |-> a]
  <2>1. doing' = [doing EXCEPT ![h] = r] /\ r.kind = "login" /\ r.account \in Accounts
    BY <1>1 DEF LogIn, Begin
  <2> QED
    BY <1>1, <2>1, CalmSteps DEF LogIn
<1>2. ASSUME NEW c \in Clients, NEW s \in Scopes, Allow(h, c, s) PROVE ConsentInv'
  <2> DEFINE r == [kind |-> "allow", account |-> cookie, client |-> c, scopes |-> s]
  <2>1. doing' = [doing EXCEPT ![h] = r] /\ r.kind = "allow" /\ r.account \in Accounts
    BY <1>2 DEF Allow, Begin, SignedIn, ConsentInv, AccountsOK
  <2> QED
    BY <1>2, <2>1, CalmSteps DEF Allow
<1>3. ASSUME Die(h) PROVE ConsentInv'
  <2>1. doing' = [doing EXCEPT ![h] = Idle] /\ Idle.kind = "idle"
    BY <1>3 DEF Die, End, Idle
  <2> QED
    BY <1>3, <2>1, CalmSteps DEF Die
<1> QED
  BY <1>1, <1>2, <1>3

LEMMA ScanOnly ==
  ASSUME GrantInv, ConsentInv, NEW h \in Handlers, NEW kind \in {"revoke", "link"}, NEW a, NEW shop, NEW seen,
         ScanTo(h, kind, a, shop, seen), kind = "link" => a \in Accounts,
         UNCHANGED <<account, cookie, code, token, relinked>>
  PROVE  ConsentInv'
<1> DEFINE r == [kind |-> kind, account |-> a, shop |-> shop, seen |-> seen]
<1>1. doing' = [doing EXCEPT ![h] = r] /\ r.kind = kind /\ r.account = a
  BY DEF ScanTo, Begin
<1> QED
  BY <1>1, CalmSteps

LEMMA ScanSteps ==
  ASSUME GrantInv, ConsentInv, NEW h \in Handlers,
         \/ \E f \in Families : \E i \in 1..Len(token[f]) : RevokeToken(h, <<f, i>>)
         \/ \E c \in Clients : RevokeGrant(h, c)
         \/ \E s \in Shops : Link(h, s)
  PROVE  ConsentInv'
<1>1. ASSUME NEW f \in Families, NEW i, RevokeToken(h, <<f, i>>) PROVE ConsentInv'
  BY <1>1, ScanOnly DEF RevokeToken
<1>2. ASSUME NEW c \in Clients, RevokeGrant(h, c) PROVE ConsentInv'
  BY <1>2, ScanOnly DEF RevokeGrant
<1>3. ASSUME NEW s \in Shops, Link(h, s) PROVE ConsentInv'
  <2>1. cookie \in Accounts
    BY <1>3 DEF Link, SignedIn, ConsentInv, AccountsOK
  <2> QED
    BY <1>3, <2>1, ScanOnly DEF Link
<1> QED
  BY <1>1, <1>2, <1>3

LEMMA TokenSteps ==
  ASSUME GrantInv, ConsentInv, NEW h \in Handlers,
         \/ Issue(h) \/ Rotated(h) \/ Revoke(h)
         \/ \E f \in Families, c \in Clients, proof \in BOOLEAN : Exchange(h, f, c, proof)
         \/ \E f \in Families : \E i \in 1..Len(token[f]) : Refresh(h, <<f, i>>)
  PROVE  ConsentInv'
<1>1. UNCHANGED <<account, cookie, relinked>>
  BY DEF Issue, Rotated, Revoke, Exchange, Refresh
<1>2. AccountsOK' /\ AccountsSame
  BY <1>1, NothingAllowed
<1>3. \A f \in Families : Over(f) => Over(f)'
  BY IssuesStay, UpdateStays
<1>4. CASE Issue(h) \/ Rotated(h) \/ Revoke(h)
  <2>1. CodesSame /\ RequestsOK
    BY <1>4, CodeSame, EndOK DEF Issue, Rotated, Revoke
  <2> QED
    BY <1>1, <1>2, <1>3, <2>1, Carries
<1>5. ASSUME NEW f \in Families, NEW c \in Clients, NEW proof \in BOOLEAN, Exchange(h, f, c, proof)
      PROVE  ConsentInv'
  <2>1. CASE code[f].used
    BY <1>5, <2>1, ScanOnly DEF Exchange
  <2>2. CASE ~code[f].used
    <3>1. code' = [code EXCEPT ![f].used = TRUE]
      BY <1>5, <2>2 DEF Exchange
    <3>2. CodesSame
      <4>1. \A g \in Families : IssuedCode(g) => {"account", "shop", "used", "age"} \subseteq DOMAIN code[g]
        BY DEF ConsentInv, Given
      <4>2. IssuedCode(f)
        BY <1>5 DEF Exchange
      <4> QED
        BY <3>1, <4>1, <4>2 DEF CodesSame, IssuedCode, Families
    <3>3. RequestsOK
      <4> DEFINE r == [kind |-> "issue", family |-> f]
      <4>1. UNCHANGED doing \/ doing' = [doing EXCEPT ![h] = r]
        BY <1>5, <2>2 DEF Exchange, Begin
      <4>2. r.kind = "issue"
        OBVIOUS
      <4> QED
        BY <4>1, <4>2 DEF RequestsOK
    <3> QED
      BY <1>1, <1>2, <1>3, <3>2, <3>3, Carries
  <2> QED
    BY <2>1, <2>2
<1>6. ASSUME NEW f \in Families, NEW i \in 1..Len(token[f]), Refresh(h, <<f, i>>)
      PROVE  ConsentInv'
  <2>1. CASE ScanTo(h, "revoke", NoOne, NoOne, Pairs(f))
    BY <1>6, <2>1, ScanOnly DEF Refresh
  <2>2. CASE Begin(h, [kind |-> "rotate", family |-> f, pair |-> <<f, i>>])
    <3>1. CodesSame /\ RequestsOK
      BY <1>6, <2>2, CodeSame, BeginOK DEF Refresh
    <3> QED
      BY <1>1, <1>2, <1>3, <3>1, Carries
  <2> QED
    BY <1>6, <2>1, <2>2 DEF Refresh
<1> QED
  BY <1>4, <1>5, <1>6

LEMMA GoneSteps ==
  ASSUME GrantInv, ConsentInv, NEW its \in SUBSET Families,
         code' = [f \in Families |-> IF f \in its THEN [code[f] EXCEPT !.age = "gone"] ELSE code[f]],
         token' = [f \in Families |-> IF f \in its THEN <<>> ELSE token[f]],
         \A f \in its : IssuedCode(f),
         UNCHANGED <<doing, relinked>>, AccountsOK', AccountsSame
  PROVE  ConsentInv'
<1>1. \A f \in Families : Over(f) => Over(f)'
  BY GoneStays
<1>2. CodesSame
  <2>1. \A g \in Families : IssuedCode(g) => {"account", "shop", "used", "age"} \subseteq DOMAIN code[g]
    BY DEF ConsentInv, Given
  <2> QED
    BY <2>1 DEF CodesSame, IssuedCode
<1> QED
  BY <1>1, <1>2, Carries DEF RequestsOK

LEMMA AgeSteps ==
  ASSUME GrantInv, ConsentInv,
         \/ \E c \in Clients : Register(c) \/ ClientIdles(c) \/ CleanUp(c)
         \/ \E f \in Families : CodeExpires(f) \/ CodeDeleted(f) \/ \E i \in 1..Len(token[f]) : TokenAges(<<f, i>>)
  PROVE  ConsentInv'
<1>1. UNCHANGED <<account, cookie, doing, relinked>> /\ AccountsOK' /\ AccountsSame
  BY NothingAllowed DEF Register, ClientIdles, CleanUp, CodeExpires, CodeDeleted, TokenAges
<1>2. ASSUME NEW c \in Clients, Register(c) \/ ClientIdles(c) PROVE ConsentInv'
  BY <1>2, CalmSteps DEF Register, ClientIdles
<1>3. ASSUME NEW c \in Clients, CleanUp(c) PROVE ConsentInv'
  <2> DEFINE its == {f \in Families : IssuedCode(f) /\ code[f].client = c}
  <2>1. its \in SUBSET Families /\ \A f \in its : IssuedCode(f)
    OBVIOUS
  <2> QED
    BY <1>1, <1>3, <2>1, GoneSteps DEF CleanUp
<1>4. ASSUME NEW f \in Families, CodeExpires(f) \/ CodeDeleted(f) PROVE ConsentInv'
  <2>1. PICK age \in {"over", "gone"} : code' = [code EXCEPT ![f].age = age]
    BY <1>4 DEF CodeExpires, CodeDeleted
  <2>2. CodesSame
    <3>1. \A g \in Families : IssuedCode(g) => {"account", "shop", "used", "age"} \subseteq DOMAIN code[g]
      BY DEF ConsentInv, Given
    <3>2. IssuedCode(f)
      BY <1>4 DEF CodeExpires, CodeDeleted
    <3> QED
      BY <2>1, <3>1, <3>2 DEF CodesSame, IssuedCode, Families
  <2>3. \A g \in Families : Over(g) => Over(g)'
    BY <1>1, <1>4, UsedStays, CalmStays DEF CodeExpires, CodeDeleted
  <2> QED
    BY <1>1, <2>2, <2>3, Carries DEF RequestsOK
<1>5. ASSUME NEW f \in Families, NEW i \in 1..Len(token[f]), TokenAges(<<f, i>>) PROVE ConsentInv'
  <2>1. CodesSame
    BY <1>5, CodeSame DEF TokenAges
  <2>2. \A g \in Families : Over(g) => Over(g)'
    BY <1>5, AgeStays
  <2> QED
    BY <1>1, <2>1, <2>2, Carries DEF RequestsOK
<1> QED
  BY <1>2, <1>3, <1>4, <1>5

-----------------------------------------------------------------------------
(* Consenting, linking and leaving.                                        *)

\* A new code is for the shop its account has at that moment.
LEMMA CreateStep ==
  ASSUME GrantInv, ConsentInv, NEW h \in Handlers, NEW f \in Families, CreateCode(h, f)
  PROVE  ConsentInv'
<1>1. /\ UNCHANGED <<account, cookie, token, relinked>> /\ End(h) /\ doing[h].account \in Accounts
      /\ AccountsOK' /\ AccountsSame /\ RequestsOK
  BY NothingAllowed, EndOK DEF CreateCode, ConsentInv, AllowOK
<1>2. \A g \in Families : UsedUp(g) => UsedUp(g)'
  BY UsedStays
<1>3. \A g \in Families : Over(g) => Over(g)'
  <2>1. doing' = [doing EXCEPT ![h] = Idle] /\ Idle.kind = "idle"
    BY <1>1 DEF End, Idle
  <2> QED
    BY <1>1, <1>2, <2>1, CalmStays
<1>4. CASE UNCHANGED code
  BY <1>1, <1>3, <1>4, CodeSame, Carries
<1>5. CASE code' = [code EXCEPT ![f] = CodeRow(doing[h])] /\ Exists(doing[h].account)
  <2> DEFINE a == doing[h].account
  <2>1. /\ Families' = Families /\ code'[f] = CodeRow(doing[h])
        /\ \A g \in Families \ {f} : code'[g] = code[g]
    BY <1>5 DEF Families
  <2>2. Given(f)' /\ Settled(f)'
    BY <1>1, <1>5, <2>1 DEF CodeRow, Given, Settled, Exists
  <2>3. ASSUME NEW g \in Families \ {f} PROVE Given(g)' /\ ConsentOK(g)'
    BY <1>1, <1>3, <2>1 DEF ConsentInv, Given, ConsentOK, Settled, IssuedCode, Exists
  <2>4. \A j \in Handlers : AllowOK(j)'
    BY <1>1 DEF RequestsOK, AllowOK, ConsentInv, GrantInv, HandlersOK
  <2>5. \A g \in Families : Given(g)' /\ ConsentOK(g)'
    BY <2>2, <2>3 DEF ConsentOK
  <2> QED
    BY <1>1, <2>1, <2>4, <2>5 DEF ConsentInv
<1> QED
  BY <1>4, <1>5 DEF CreateCode

\* Linking a real shop ends every grant of the account, unless a consent is
\* still on its way.
LEMMA LinkStep ==
  ASSUME GrantInv, ConsentInv, NEW h \in Handlers, Linked(h)
  PROVE  ConsentInv'
<1> DEFINE a == doing[h].account
           seen == doing[h].seen
<1>1. /\ UNCHANGED <<cookie, code>> /\ End(h) /\ a \in Accounts
      /\ account' = [account EXCEPT ![a].shop = doing[h].shop]
      /\ token' = Changed(seen, UnlinkedPair) /\ relinked \subseteq relinked'
  BY DEF Linked, ConsentInv, AllowOK
<1>2. AccountsOK' /\ \A b \in Accounts : account'[b].state = account[b].state
                     /\ (b # a => account'[b].shop = account[b].shop)
  BY <1>1 DEF ConsentInv, AccountsOK
<1>3. /\ Families' = Families
      /\ \A f \in Families : Given(f)' /\ (Over(f) => Over(f)')
  BY <1>1, <1>2, UpdateStays DEF ConsentInv, Given, IssuedCode, Families
<1>4. ASSUME NEW f \in Families, IssuedCode(f), code[f].account = a, a \notin relinked' PROVE Over(f)'
  <2>1. f \in OwnFamilies(a) /\ ~Consenting(a) /\ \A p \in OwnPairs(a) \ seen : ~Live(PairAt(p))
    BY <1>4 DEF OwnFamilies, Linked
  <2>2. UsedUp(f) /\ ~Issuing(f)
    BY <1>4, <2>1 DEF Consenting, UsedUp, GrantInv, FamiliesOK, FamilyOK
  <2>3. ~Issuing(f)' /\ UsedUp(f)'
    BY <1>1, <2>2 DEF Issuing, End, Idle, GrantInv, HandlersOK, UsedUp, IssuedCode
  <2>4. token[f] \in Seq(PairRows) /\ DOMAIN token[f] = 1..Len(token[f])
    BY LenProperties DEF GrantInv, FamiliesOK, FamilyOK
  <2>5. ASSUME NEW i \in DOMAIN token[f] PROVE ~Live(token'[f][i])
    <3>1. token[f][i] \in PairRows
      BY <2>4, ElementOfSeq
    <3>2. token'[f][i] = IF <<f, i>> \in seen THEN UnlinkedPair(token[f][i]) ELSE token[f][i]
      BY <1>1 DEF Changed
    <3>3. ~Live(UnlinkedPair(token[f][i]))
      BY <3>1 DEF Live, UnlinkedPair, PairRows
    <3>4. <<f, i>> \notin seen => ~Live(token[f][i])
      BY <2>1, <2>4 DEF OwnPairs, Pairs, PairAt
    <3> QED
      BY <3>2, <3>3, <3>4
  <2>6. DOMAIN token'[f] = DOMAIN token[f]
    BY <1>1 DEF Changed
  <2> QED
    BY <2>3, <2>5, <2>6 DEF Over
<1>5. ASSUME NEW f \in Families PROVE ConsentOK(f)'
  <2>1. CASE code[f].account = a
    BY <1>1, <1>4, <2>1 DEF ConsentOK, IssuedCode
  <2>2. CASE code[f].account # a
    BY <1>1, <1>2, <1>3, <2>2 DEF ConsentInv, Given, ConsentOK, Settled, IssuedCode, Exists
  <2> QED
    BY <2>1, <2>2
<1>6. \A j \in Handlers : AllowOK(j)'
  BY <1>1, EndOK DEF RequestsOK, AllowOK, ConsentInv, GrantInv, HandlersOK
<1> QED
  BY <1>2, <1>3, <1>5, <1>6 DEF ConsentInv

LEMMA DeleteStep ==
  ASSUME GrantInv, ConsentInv, DeleteAccount
  PROVE  ConsentInv'
<1>1. OwnFamilies(cookie) \in SUBSET Families /\ \A f \in OwnFamilies(cookie) : IssuedCode(f)
  BY DEF OwnFamilies
<1>2. AccountsOK' /\ AccountsSame
  BY DEF DeleteAccount, AccountRow, ConsentInv, AccountsOK, AccountsSame, Exists
<1> QED
  BY <1>1, <1>2, GoneSteps DEF DeleteAccount

LEMMA ConsentBegins ==
  ASSUME AssistantInit
  PROVE  ConsentInv
BY DEF AssistantInit, GrantInit, ConsentInv, AccountsOK, AccountRow, AllowOK, Given, ConsentOK,
       IssuedCode, NoCode, Idle, Families

LEMMA ConsentStep ==
  ASSUME GrantInv, ConsentInv, [AssistantNext]_assistantVars
  PROVE  ConsentInv'
<1>1. CASE UNCHANGED <<account, cookie, code, token, doing, relinked>>
  BY <1>1, CalmSteps
<1>2. CASE GrantNext
  <2>1. ASSUME NEW h \in Handlers,
               \/ \E a \in Accounts : LogIn(h, a)
               \/ \E ok \in BOOLEAN : CheckedLogIn(h, ok)
               \/ \E c \in Clients, s \in Scopes : Allow(h, c, s)
               \/ \E f \in Families : CreateCode(h, f)
               \/ \E f \in Families, c \in Clients, proof \in BOOLEAN : Exchange(h, f, c, proof)
               \/ Issue(h) \/ Rotated(h) \/ Revoke(h) \/ Linked(h) \/ Die(h)
               \/ \E f \in Families : \E i \in 1..Len(token[f]) : Refresh(h, <<f, i>>) \/ RevokeToken(h, <<f, i>>)
               \/ \E c \in Clients : RevokeGrant(h, c)
               \/ \E s \in Shops : Link(h, s)
        PROVE  ConsentInv'
    <3>1. CASE \/ \E a \in Accounts : LogIn(h, a)
               \/ \E ok \in BOOLEAN : CheckedLogIn(h, ok)
               \/ \E c \in Clients, s \in Scopes : Allow(h, c, s)
               \/ Die(h)
      BY <3>1, AccountSteps, RequestSteps
    <3>2. CASE \/ \E f \in Families : \E i \in 1..Len(token[f]) : RevokeToken(h, <<f, i>>)
               \/ \E c \in Clients : RevokeGrant(h, c)
               \/ \E s \in Shops : Link(h, s)
      BY <3>2, ScanSteps
    <3>3. CASE \/ Issue(h) \/ Rotated(h) \/ Revoke(h)
               \/ \E f \in Families, c \in Clients, proof \in BOOLEAN : Exchange(h, f, c, proof)
               \/ \E f \in Families : \E i \in 1..Len(token[f]) : Refresh(h, <<f, i>>)
      BY <3>3, TokenSteps
    <3>4. CASE Linked(h) \/ \E f \in Families : CreateCode(h, f)
      BY <3>4, LinkStep, CreateStep
    <3> QED
      BY <2>1, <3>1, <3>2, <3>3, <3>4
  <2> QED
    BY <1>2, <2>1, AccountSteps, AgeSteps DEF GrantNext
<1>3. CASE Leave
  BY <1>3, DeleteStep DEF Leave
<1>4. CASE McpNext /\ McpOnly
  BY <1>1, <1>4 DEF McpOnly
<1>5. ASSUME NEW k \in Calls, FreshenShop(k) PROVE ConsentInv'
  BY <1>1, <1>5 DEF FreshenShop, McpOnly
<1>6. CASE RestartServer
  BY <1>1, <1>6 DEF RestartServer, McpOnly
<1> QED
  BY <1>1, <1>2, <1>3, <1>4, <1>5, <1>6 DEF AssistantNext, assistantVars, grantVars

\* An app reaches only the shop its owner saw when consenting: linking a real
\* shop leaves no live token from before (linkInvite, against late consents).
THEOREM ConsentKept == AssistantSpec => []ConsentHolds
<1>1. GrantInv /\ ConsentInv => ConsentHolds
  <2> SUFFICES ASSUME GrantInv, ConsentInv, NEW f \in Families, NEW i \in DOMAIN token[f],
                      Live(token[f][i]), Exists(code[f].account), code[f].account \notin relinked
               PROVE  code[f].shop = account[code[f].account].shop
    BY DEF ConsentHolds
  <2>1. token[f] # <<>>
    OBVIOUS
  <2>2. IssuedCode(f)
    BY <2>1 DEF GrantInv, FamiliesOK, TokensOK, UsedUp
  <2> QED
    BY <2>2 DEF ConsentInv, ConsentOK, Settled, Over
<1> QED
  BY <1>1, GrantsBegin, GrantsStep, ConsentBegins, ConsentStep, PTL DEF AssistantSpec
=============================================================================
