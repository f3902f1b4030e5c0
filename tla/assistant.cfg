CONSTANTS Accounts={a1} Shops={s1} DemoShop=demo Clients={c1,c2} UrlClients={c2} Handlers={h1,h2} NoOne=none
 StaticTokens={t1,t2} ReadOnlyTokens={t2} Sessions={1,2,3} MaxSessions=1 Calls={k1,k2}
 Groups={g1} Suppliers={p1,p2} Rules={r1,r2,r3} MaxRules=1 MaxLapses=1
Scopes <- AScopes
Bounds <- ABounds
StaticShop <- AStaticShop
SPECIFICATION AssistantSpec
INVARIANTS GuessesBounded OneRefreshToken RevokedStaysDead ConsentHolds CallsStayHome SessionsBounded ConfirmedOnceTogether RulesBounded
CHECK_DEADLOCK FALSE
SYMMETRY ASymmetry
