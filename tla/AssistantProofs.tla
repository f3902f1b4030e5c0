--------------------------- MODULE AssistantProofs ---------------------------
(***************************************************************************)
(* Theorems of AssistantService for any number of accounts, shops, tokens, *)
(* sessions, tool calls and drafts.                                        *)
(***************************************************************************)
EXTENDS AssistantService, TLAPS

-----------------------------------------------------------------------------
(* Tool calls stay in the shop of their bearer.                            *)

\* The shop that a principal's key stands for.
KeyTenant(key) == IF key[1] = "oauth" THEN key[2] ELSE <<key[2], NoOne>>

\* A session works for the shop of the key that opened it, ...
SessionsKeyed ==
    /\ DOMAIN session = Sessions
    /\ \A s \in Sessions : Open(s) =>
          /\ {"key", "tenant"} \subseteq DOMAIN session[s]
          /\ session[s].tenant = KeyTenant(session[s].key)

\* ... a request for that of the key it came with, ...
Keyed(c) ==
    /\ {"phase", "who"} \subseteq DOMAIN c
    /\ c.who.tenant = KeyTenant(c.who.key)
    /\ c.phase = "body" => c.session.tenant = c.who.tenant

CallsKeyed ==
    /\ DOMAIN call = Calls
    /\ \A k \in Calls : call[k].phase # "none" => Keyed(call[k])

\* ... and a tool runs only for a request that waits for it.
RunsOwned ==
    /\ DOMAIN run = Calls
    /\ \A k \in Calls : run[k].tool # "none" =>
          /\ call[k].phase = "runs"
          /\ run[k].tenant = call[k].who.tenant
          /\ run[k].tool \in WriteTools => call[k].who.write

HomeInv == SessionsKeyed /\ CallsKeyed /\ RunsOwned

LEMMA PrincipalsKeyed ==
    /\ \A p : OAuthPrincipal(p).tenant = KeyTenant(OAuthPrincipal(p).key)
    /\ \A t : StaticPrincipal(t).tenant = KeyTenant(StaticPrincipal(t).key)
BY DEF OAuthPrincipal, StaticPrincipal, OAuthKey, StaticKey, KeyTenant

\* A request that begins runs no tool yet.
LEMMA EnterHome ==
  ASSUME HomeInv, NEW k \in Calls, NEW who, who.tenant = KeyTenant(who.key),
         Enter(k, who), UNCHANGED <<session, run>>
  PROVE  HomeInv'
<1>1. call[k].phase = "none" /\ run[k].tool = "none"
  BY DEF HomeInv, RunsOwned, Enter, NoCall
<1>2. /\ DOMAIN call' = Calls
      /\ call'[k] = [phase |-> "known", who |-> who]
      /\ \A j \in Calls \ {k} : call'[j] = call[j]
  BY DEF HomeInv, CallsKeyed, Enter
<1>3. CallsKeyed'
  BY <1>2 DEF HomeInv, CallsKeyed, Keyed
<1>4. RunsOwned'
  BY <1>1, <1>2 DEF HomeInv, RunsOwned
<1> QED
  BY <1>3, <1>4 DEF HomeInv, SessionsKeyed, Open

LEMMA SessionsSwept ==
  ASSUME HomeInv, session' \in {session, WithoutIdle}
  PROVE  SessionsKeyed'
BY DEF HomeInv, SessionsKeyed, Open, WithoutIdle

\* A request that moves on, or ends, without a tool.
LEMMA CallMoves ==
  ASSUME HomeInv, NEW k \in Calls, NEW c, call[k].phase # "runs",
         call' = [call EXCEPT ![k] = c], c.phase # "none" => Keyed(c), UNCHANGED run
  PROVE  CallsKeyed' /\ RunsOwned'
<1>1. run[k].tool = "none"
  BY DEF HomeInv, RunsOwned
<1>2. /\ DOMAIN call' = Calls
      /\ call'[k] = c
      /\ \A j \in Calls \ {k} : call'[j] = call[j]
  BY DEF HomeInv, CallsKeyed
<1> QED
  BY <1>1, <1>2 DEF HomeInv, CallsKeyed, RunsOwned

LEMMA McpHome ==
  ASSUME HomeInv, McpNext
  PROVE  HomeInv'
<1>1. CASE UNCHANGED <<call, session, run>>
  BY <1>1 DEF HomeInv, SessionsKeyed, CallsKeyed, RunsOwned, Open
<1>2. ASSUME NEW k \in Calls, NEW p, EnterWithGrant(k, p) PROVE HomeInv'
  BY <1>2, EnterHome, PrincipalsKeyed DEF EnterWithGrant
<1>3. ASSUME NEW k \in Calls, NEW t \in StaticTokens, EnterWithToken(k, t) PROVE HomeInv'
  <2>1. CASE Enter(k, StaticPrincipal(t))
    BY <1>3, <2>1, EnterHome, PrincipalsKeyed DEF EnterWithToken
  <2>2. CASE UNCHANGED call
    BY <1>3, <2>2, <1>1 DEF EnterWithToken
  <2> QED
    BY <1>3, <2>1, <2>2 DEF EnterWithToken
<1>4. ASSUME NEW k \in Calls, Initialize(k) PROVE HomeInv'
  <2>1. session' \in {session, WithoutIdle}
    BY <1>4 DEF Initialize
  <2>2. PICK c \in {NoCall, [call[k] EXCEPT !.phase = "opening"]} : call' = [call EXCEPT ![k] = c]
    BY <1>4 DEF Initialize
  <2>3. c.phase # "none" => Keyed(c)
    BY <1>4, <2>2 DEF Initialize, HomeInv, CallsKeyed, Keyed, NoCall
  <2> QED
    BY <1>4, <2>1, <2>2, <2>3, SessionsSwept, CallMoves DEF Initialize, HomeInv
<1>5. ASSUME NEW k \in Calls, Return(k) PROVE HomeInv'
  BY <1>5 DEF Return, HomeInv, SessionsKeyed, CallsKeyed, RunsOwned, Open, NoCall, NoRun
<1>6. ASSUME NEW k \in Calls, NEW s \in Sessions, UseSession(k, s) PROVE HomeInv'
  <2>1. CASE MayUse(s, call[k].who)
    <3> DEFINE c == [phase |-> "body", who |-> call[k].who, session |-> session[s]]
    <3>1. Keyed(c)
      BY <1>6, <2>1 DEF UseSession, MayUse, HomeInv, SessionsKeyed, CallsKeyed, Keyed
    <3>2. CallsKeyed' /\ RunsOwned'
      BY <1>6, <2>1, <3>1, CallMoves DEF UseSession
    <3>3. SessionsKeyed'
      BY <1>6, <2>1 DEF UseSession, MayUse, HomeInv, SessionsKeyed, Open
    <3> QED
      BY <3>2, <3>3 DEF HomeInv
  <2>2. CASE ~MayUse(s, call[k].who)
    BY <1>6, <2>2, CallMoves, SessionsSwept DEF UseSession, NoCall, HomeInv
  <2> QED
    BY <2>1, <2>2
<1>7. ASSUME NEW k \in Calls, NEW s \in Sessions, Opened(k, s) PROVE HomeInv'
  <2>1. CallsKeyed' /\ RunsOwned'
    BY <1>7, CallMoves DEF Opened, NoCall
  <2>2. SessionsKeyed'
    BY <1>7 DEF Opened, HomeInv, SessionsKeyed, CallsKeyed, Keyed, Open
  <2> QED
    BY <2>1, <2>2 DEF HomeInv
<1>8. ASSUME NEW k \in Calls, NEW s \in Sessions, CloseSession(k, s) PROVE HomeInv'
  <2>1. CallsKeyed' /\ RunsOwned'
    BY <1>8, CallMoves DEF CloseSession, NoCall
  <2>2. SessionsKeyed'
    BY <1>8 DEF CloseSession, HomeInv, SessionsKeyed, Open
  <2> QED
    BY <2>1, <2>2 DEF HomeInv
<1>9. ASSUME NEW k \in Calls, NEW t \in ToolNames, CallTool(k, t) PROVE HomeInv'
  <2>1. CASE Permitted(t, call[k])
    <3>1. Keyed(call[k]) /\ call[k].phase = "body"
      BY <1>9 DEF CallTool, HomeInv, CallsKeyed
    <3>2. /\ DOMAIN call' = Calls /\ DOMAIN run' = Calls
          /\ call'[k] = [call[k] EXCEPT !.phase = "runs"]
          /\ run'[k] = [tool |-> t, phase |-> "begun", tenant |-> call[k].session.tenant]
          /\ \A j \in Calls \ {k} : call'[j] = call[j] /\ run'[j] = run[j]
      BY <1>9, <2>1 DEF CallTool, HomeInv, CallsKeyed, RunsOwned
    <3>3. call'[k].phase = "runs" /\ call'[k].who = call[k].who /\ DOMAIN call'[k] = DOMAIN call[k]
      BY <3>1, <3>2 DEF Keyed
    <3>4. CallsKeyed'
      BY <3>1, <3>2, <3>3 DEF HomeInv, CallsKeyed, Keyed
    <3>5. RunsOwned'
      BY <2>1, <3>1, <3>2, <3>3 DEF HomeInv, RunsOwned, Permitted, Keyed
    <3> QED
      BY <1>9, <3>4, <3>5 DEF CallTool, HomeInv, SessionsKeyed, Open
  <2>2. CASE ~Permitted(t, call[k])
    BY <1>9, <2>2, CallMoves, SessionsSwept DEF CallTool, NoCall, HomeInv
  <2> QED
    BY <2>1, <2>2
<1>10. ASSUME NEW s \in Sessions, SessionIdles(s) PROVE HomeInv'
  BY <1>10 DEF SessionIdles, HomeInv, SessionsKeyed, CallsKeyed, RunsOwned, Open
<1>11. ASSUME Sweep PROVE HomeInv'
  BY <1>11, SessionsSwept DEF Sweep, HomeInv, CallsKeyed, RunsOwned
<1>12. ASSUME NEW t, Withdraw(t) \/ CacheExpires(t) PROVE HomeInv'
  BY <1>12, <1>1 DEF Withdraw, CacheExpires
<1>13. ASSUME Midnight PROVE HomeInv'
  BY <1>13, <1>1 DEF Midnight
<1> QED
  BY <1>2, <1>3, <1>4, <1>5, <1>6, <1>7, <1>8, <1>9, <1>10, <1>11, <1>12, <1>13 DEF McpNext

\* A running tool keeps its name and its shop.
LEMMA ToolsHome ==
  ASSUME HomeInv, Tools!ReorderNext, UNCHANGED <<call, session>>
  PROVE  HomeInv'
<1>1. SessionsKeyed' /\ CallsKeyed'
  BY DEF HomeInv, SessionsKeyed, CallsKeyed, Open
<1>2. ASSUME NEW k \in Calls, run[k].tool # "none",
             Tools!Finish(k) \/ \E phase, more : Tools!Go(k, phase, more)
      PROVE  RunsOwned'
  BY <1>2 DEF HomeInv, RunsOwned, Tools!Finish, Tools!Go
<1>3. ASSUME UNCHANGED run PROVE RunsOwned'
  BY <1>3 DEF HomeInv, RunsOwned
<1>4. ASSUME NEW k \in Calls, Tools!Read(k) \/ Tools!Remember(k) \/ Tools!ToolFails(k) PROVE RunsOwned'
  BY <1>2, <1>4 DEF Tools!Read, Tools!Remember, Tools!ToolFails, Tools!At
<1>5. ASSUME NEW k \in Calls, Tools!LockDrafts(k) PROVE RunsOwned'
  BY <1>2, <1>5 DEF Tools!LockDrafts, Tools!At
<1>6. ASSUME NEW k \in Calls, NEW g, NEW from, Tools!CreateDraft(k, g, from) PROVE RunsOwned'
  BY <1>2, <1>6 DEF Tools!CreateDraft, Tools!At
<1>7. ASSUME NEW k \in Calls, NEW g, Tools!BeginConfirm(k, g) PROVE RunsOwned'
  BY <1>2, <1>7 DEF Tools!BeginConfirm, Tools!At
<1>8. ASSUME NEW k \in Calls, NEW heard, Tools!ConfirmDrafts(k, heard) PROVE RunsOwned'
  BY <1>2, <1>8 DEF Tools!ConfirmDrafts, Tools!At
<1>9. ASSUME NEW k \in Calls, NEW r, Tools!BeginRemember(k, r) PROVE RunsOwned'
  BY <1>2, <1>9 DEF Tools!BeginRemember, Tools!At
<1>10. ASSUME NEW k \in Calls, NEW which, Tools!Forget(k, which) PROVE RunsOwned'
  BY <1>2, <1>10 DEF Tools!Forget, Tools!At
<1>11. ASSUME NEW g, Tools!DraftExpires(g) PROVE RunsOwned'
  BY <1>3, <1>11 DEF Tools!DraftExpires
<1>12. RunsOwned'
  BY <1>4, <1>5, <1>6, <1>7, <1>8, <1>9, <1>10, <1>11 DEF Tools!ReorderNext
<1> QED
  BY <1>1, <1>12 DEF HomeInv

LEMMA HomeInit ==
  ASSUME AssistantInit
  PROVE  HomeInv
BY DEF AssistantInit, McpInit, HomeInv, SessionsKeyed, CallsKeyed, RunsOwned, Open, NoCall, NoRun

LEMMA HomeStep ==
  ASSUME HomeInv, [AssistantNext]_assistantVars
  PROVE  HomeInv'
<1>1. CASE UNCHANGED <<call, session, run>>
  BY <1>1 DEF HomeInv, SessionsKeyed, CallsKeyed, RunsOwned, Open
<1>2. CASE McpNext
  BY <1>2, McpHome
<1>3. ASSUME NEW k \in Calls, FreshenShop(k) PROVE HomeInv'
  <2>1. Freshen(k)
    BY <1>3 DEF FreshenShop
  <2>2. Keyed([call[k] EXCEPT !.phase = "ready"])
    BY <2>1 DEF Freshen, HomeInv, CallsKeyed, Keyed
  <2> QED
    BY <2>1, <2>2, CallMoves, SessionsSwept DEF Freshen, HomeInv
<1>4. CASE RestartServer
  BY <1>4 DEF RestartServer, Restart, HomeInv, SessionsKeyed, CallsKeyed, RunsOwned, Open, NoCall, NoRun
<1>5. CASE Tools!ReorderNext /\ UNCHANGED <<grantVars, call, session, valid, cached, dated, checked, called>>
  BY <1>5, ToolsHome
<1> QED
  BY <1>1, <1>2, <1>3, <1>4, <1>5 DEF AssistantNext, McpIdle, Leave, assistantVars, mcpVars

\* A running tool works for the shop of the token it was called with, and
\* changes something only if that token allowed it (http.ts, handleMcp).
THEOREM CallsHome == AssistantSpec => []CallsStayHome
<1>1. HomeInv => CallsStayHome
  BY DEF HomeInv, RunsOwned, CallsStayHome
<1> QED
  BY <1>1, HomeInit, HomeStep, PTL DEF AssistantSpec

-----------------------------------------------------------------------------
(* The drafts of one call are confirmed together, and once.                *)

AllAre(g, state) == \A s \in DOMAIN drafts[g].status : drafts[g].status[s] = state

\* The drafts of a group share one state, ...
GroupOK(g) ==
    \/ drafts[g] = Tools!NoDrafts
    \/ drafts[g].state = "dropped"
    \/ /\ drafts[g].state = "made"
       /\ {"state", "tenant", "expired", "status"} \subseteq DOMAIN drafts[g]
       /\ DOMAIN drafts[g].status # {}
       /\ AllAre(g, "draft") \/ AllAre(g, "confirmed")

\* ... which is "confirmed" once that was announced, ...
ToldOK(g) ==
    /\ told[g] \in {0, 1}
    /\ told[g] = 1 => drafts[g] # Tools!NoDrafts /\ (Tools!Made(g) => AllAre(g, "confirmed"))

GroupsOK ==
    /\ DOMAIN drafts = Groups /\ DOMAIN told = Groups
    /\ \A g \in Groups : GroupOK(g) /\ ToldOK(g)

\* ... and a confirmation that holds the row locks of a group holds drafts of
\* its shop, alone.
Asks(k) == run[k].tool = "confirm" /\ run[k].phase \in {"asked", "locked"}
Locks(k, g) == Tools!At(k, "confirm", "locked") /\ run[k].what.group = g

Holding(g, tenant) == Tools!Made(g) /\ AllAre(g, "draft") /\ drafts[g].tenant = tenant

LocksOK ==
    /\ DOMAIN run = Calls
    /\ \A k \in Calls : Asks(k) => run[k].what.group \in Groups
    /\ \A k \in Calls, g \in Groups : Locks(k, g) => Holding(g, run[k].tenant)
    /\ \A j, k \in Calls, g \in Groups : Locks(j, g) /\ Locks(k, g) => j = k

DraftInv == GroupsOK /\ LocksOK

\* A call that takes no lock, while the drafts that others hold stay.
LEMMA LocksKept ==
  ASSUME DraftInv, NEW k \in Calls, NEW r, run' = [run EXCEPT ![k] = r],
         r.tool = "confirm" => r.phase # "locked" /\ (r.phase = "asked" => r.what.group \in Groups),
         \A j \in Calls \ {k}, g \in Groups : Locks(j, g) => Holding(g, run[j].tenant)'
  PROVE  LocksOK'
<1>1. /\ DOMAIN run' = Calls
      /\ run'[k] = r
      /\ \A j \in Calls \ {k} : run'[j] = run[j]
  BY DEF DraftInv, LocksOK
<1>2. /\ \A j \in Calls \ {k} : Asks(j)' = Asks(j)
      /\ \A j \in Calls \ {k}, g \in Groups : Locks(j, g)' = Locks(j, g)
      /\ \A g \in Groups : ~Locks(k, g)'
  BY <1>1 DEF Asks, Locks, Tools!At
<1>3. \A j \in Calls : Asks(j)' => run'[j].what.group \in Groups
  BY <1>1, <1>2 DEF DraftInv, LocksOK, Asks
<1>4. \A j \in Calls, g \in Groups : Locks(j, g)' => Holding(g, run[j].tenant)' /\ j # k
  BY <1>2
<1> QED
  BY <1>1, <1>2, <1>3, <1>4 DEF DraftInv, LocksOK, Holding

LEMMA GroupsSame ==
  ASSUME DraftInv, UNCHANGED <<drafts, told>>
  PROVE  GroupsOK' /\ \A g, t : Holding(g, t) => Holding(g, t)'
BY DEF DraftInv, GroupsOK, GroupOK, ToldOK, AllAre, Holding, Tools!Made, Tools!NoDrafts

LEMMA CallOnly ==
  ASSUME DraftInv, NEW k \in Calls, NEW r, run' = [run EXCEPT ![k] = r],
         r.tool = "confirm" => r.phase # "locked" /\ (r.phase = "asked" => r.what.group \in Groups),
         UNCHANGED <<drafts, told>>
  PROVE  DraftInv'
<1>1. ASSUME NEW j \in Calls \ {k}, NEW g \in Groups, Locks(j, g) PROVE Holding(g, run[j].tenant)'
  <2>1. run'[j] = run[j]
    BY DEF DraftInv, LocksOK
  <2> QED
    BY <1>1, <2>1 DEF DraftInv, LocksOK, Holding, Tools!Made, AllAre
<1> QED
  BY <1>1, LocksKept, GroupsSame DEF DraftInv

\* What a call leaves in run when its tool has ended.
Done(k) == [tool |-> run[k].tool, phase |-> "done", tenant |-> run[k].tenant]

LEMMA FinishOnly ==
  ASSUME DraftInv, NEW k \in Calls, Tools!Finish(k), UNCHANGED <<drafts, told>>
  PROVE  DraftInv'
<1>1. run' = [run EXCEPT ![k] = Done(k)]
  BY DEF Tools!Finish, Done
<1>2. Done(k).phase = "done"
  BY DEF Done
<1> QED
  BY <1>1, <1>2, CallOnly

LEMMA NothingDrafted ==
  ASSUME DraftInv, UNCHANGED <<run, drafts, told>>
  PROVE  DraftInv'
<1>1. LocksOK'
  BY DEF DraftInv, LocksOK, Asks, Locks, Tools!At, Holding, Tools!Made, AllAre
<1> QED
  BY <1>1, GroupsSame DEF DraftInv

LEMMA CreateKeeps ==
  ASSUME DraftInv, NEW k \in Calls, NEW g \in Groups, NEW from \in SUBSET Suppliers,
         Tools!CreateDraft(k, g, from)
  PROVE  DraftInv'
<1> DEFINE made == Tools!DraftRows(run[k].tenant, from)
<1>1. run' = [run EXCEPT ![k] = Done(k)] /\ Done(k).phase = "done"
  BY DEF Tools!CreateDraft, Tools!Finish, Done
<1>2. CASE drafts' = drafts
  BY <1>2, FinishOnly DEF Tools!CreateDraft
<1>3. CASE from # {} /\ drafts' = [drafts EXCEPT ![g] = made]
  <2>1. /\ DOMAIN drafts' = Groups
        /\ drafts'[g] = [state |-> "made", tenant |-> run[k].tenant, expired |-> FALSE, status |-> [s \in from |-> "draft"]]
        /\ \A h \in Groups \ {g} : drafts'[h] = drafts[h]
        /\ drafts[g] = Tools!NoDrafts /\ told' = told
    BY <1>3 DEF DraftInv, GroupsOK, Tools!CreateDraft, Tools!DraftRows
  <2>2. GroupOK(g)' /\ ToldOK(g)'
    BY <1>3, <2>1 DEF DraftInv, GroupsOK, GroupOK, ToldOK, AllAre
  <2>3. \A h \in Groups \ {g} : GroupOK(h)' /\ ToldOK(h)'
    BY <2>1 DEF DraftInv, GroupsOK, GroupOK, ToldOK, AllAre, Tools!Made
  <2>4. GroupsOK'
    BY <2>1, <2>2, <2>3 DEF DraftInv, GroupsOK
  <2>5. \A h \in Groups : \A t : Holding(h, t) => h # g /\ Holding(h, t)'
    BY <2>1 DEF Holding, AllAre, Tools!Made, Tools!NoDrafts
  <2>6. ASSUME NEW j \in Calls \ {k}, NEW h \in Groups, Locks(j, h) PROVE Holding(h, run[j].tenant)'
    <3>1. run'[j] = run[j]
      BY <1>1 DEF DraftInv, LocksOK
    <3>2. Holding(h, run[j].tenant)
      BY <2>6 DEF DraftInv, LocksOK
    <3> QED
      BY <2>5, <3>1, <3>2 DEF Holding
  <2> QED
    BY <1>1, <2>4, <2>6, LocksKept DEF DraftInv
<1> QED
  BY <1>2, <1>3 DEF Tools!CreateDraft

LEMMA LockKeeps ==
  ASSUME DraftInv, NEW k \in Calls, Tools!LockDrafts(k)
  PROVE  DraftInv'
<1> DEFINE g == run[k].what.group
<1>1. Tools!At(k, "confirm", "asked") /\ g \in Groups /\ UNCHANGED <<drafts, told>>
  BY DEF Tools!LockDrafts, Tools!At, Tools!reorderVars, DraftInv, LocksOK, Asks
<1>2. CASE Tools!Finish(k)
  BY <1>1, <1>2, CallOnly DEF Tools!Finish
<1>3. CASE /\ Tools!Go(k, "locked", run[k].what)
           /\ Tools!DraftsFree(k, g) /\ Tools!Made(g) /\ drafts[g].tenant = run[k].tenant
           /\ \E s \in DOMAIN drafts[g].status : drafts[g].status[s] = "draft"
  <2>1. /\ DOMAIN run' = Calls
        /\ run'[k] = [tool |-> run[k].tool, phase |-> "locked", tenant |-> run[k].tenant, what |-> run[k].what]
        /\ \A j \in Calls \ {k} : run'[j] = run[j]
    BY <1>3 DEF Tools!Go, DraftInv, LocksOK
  <2>2. Holding(g, run[k].tenant)
    BY <1>1, <1>3 DEF Holding, DraftInv, GroupsOK, GroupOK, AllAre, Tools!Made, Tools!NoDrafts
  <2>3. \A j \in Calls \ {k} : ~Locks(j, g)
    BY <1>3 DEF Locks, Tools!DraftsFree
  <2>4. /\ \A j \in Calls \ {k} : Asks(j)' = Asks(j)
        /\ \A j \in Calls \ {k}, h \in Groups : Locks(j, h)' = Locks(j, h)
        /\ \A h \in Groups : Locks(k, h)' => h = g
    BY <2>1 DEF Asks, Locks, Tools!At
  <2>5. \A j \in Calls : Asks(j)' => run'[j].what.group \in Groups
    BY <1>1, <2>1, <2>4 DEF DraftInv, LocksOK
  <2>6. \A j \in Calls, h \in Groups : Locks(j, h)' => Holding(h, run[j].tenant)
    BY <2>2, <2>4 DEF DraftInv, LocksOK
  <2>7. \A j \in Calls, h \in Groups : Locks(j, h)' => Holding(h, run[j].tenant)'
    BY <1>1, <2>1, <2>6 DEF Holding, AllAre, Tools!Made
  <2>8. \A i, j \in Calls, h \in Groups : Locks(i, h)' /\ Locks(j, h)' => i = j
    BY <2>3, <2>4 DEF DraftInv, LocksOK
  <2> QED
    BY <1>1, <2>1, <2>5, <2>7, <2>8, GroupsSame DEF DraftInv, LocksOK
<1> QED
  BY <1>2, <1>3 DEF Tools!LockDrafts

LEMMA ConfirmKeeps ==
  ASSUME DraftInv, NEW k \in Calls, NEW g \in Groups, g = run[k].what.group,
         NEW heard \in BOOLEAN, Tools!ConfirmDrafts(k, heard)
  PROVE  DraftInv'
<1>1. Locks(k, g) /\ Holding(g, run[k].tenant)
  BY DEF Tools!ConfirmDrafts, Locks, Tools!At, DraftInv, LocksOK, Asks
<1>2. run' = [run EXCEPT ![k] = Done(k)] /\ Done(k).phase = "done"
  BY DEF Tools!ConfirmDrafts, Tools!Finish, Done
<1>3. /\ DOMAIN drafts' = Groups
      /\ drafts'[g] = [drafts[g] EXCEPT !.status = [s \in DOMAIN drafts[g].status |-> "confirmed"]]
      /\ \A h \in Groups \ {g} : drafts'[h] = drafts[h]
  BY <1>1 DEF Tools!ConfirmDrafts, Tools!Confirmed, DraftInv, GroupsOK
<1>4. GroupOK(g) /\ ToldOK(g) /\ drafts[g].state = "made" /\ AllAre(g, "draft")
  BY <1>1 DEF Holding, DraftInv, GroupsOK, Tools!Made
<1>5. {"state", "tenant", "expired", "status"} \subseteq DOMAIN drafts[g] /\ DOMAIN drafts[g].status # {}
  BY <1>4 DEF GroupOK, Tools!NoDrafts
<1>6. /\ drafts'[g].state = "made" /\ DOMAIN drafts'[g] = DOMAIN drafts[g]
      /\ DOMAIN drafts'[g].status # {}
      /\ AllAre(g, "confirmed")'
  <2>1. drafts'[g].status = [s \in DOMAIN drafts[g].status |-> "confirmed"]
    BY <1>3, <1>5
  <2>2. drafts'[g].state = "made" /\ DOMAIN drafts'[g] = DOMAIN drafts[g]
    BY <1>3, <1>4, <1>5
  <2> QED
    BY <1>5, <2>1, <2>2 DEF AllAre
<1>7. told[g] = 0
  BY <1>4, <1>5 DEF ToldOK, AllAre, Tools!Made
<1>8. /\ DOMAIN told' = Groups /\ told'[g] \in {0, 1}
      /\ \A h \in Groups \ {g} : told'[h] = told[h]
  BY <1>1, <1>7 DEF Tools!ConfirmDrafts, DraftInv, GroupsOK
<1>9. GroupOK(g)' /\ ToldOK(g)'
  <2>1. drafts'[g] # Tools!NoDrafts
    BY <1>6 DEF Tools!NoDrafts
  <2>2. GroupOK(g)'
    BY <1>5, <1>6 DEF GroupOK
  <2> QED
    BY <1>6, <1>8, <2>1, <2>2 DEF ToldOK
<1>10. \A h \in Groups \ {g} : GroupOK(h)' /\ ToldOK(h)'
  BY <1>3, <1>8 DEF DraftInv, GroupsOK, GroupOK, ToldOK, AllAre, Tools!Made
<1>11. GroupsOK'
  BY <1>1, <1>3, <1>8, <1>9, <1>10 DEF GroupsOK
<1>12. ASSUME NEW j \in Calls \ {k}, NEW h \in Groups, Locks(j, h) PROVE Holding(h, run[j].tenant)'
  <2>1. h # g /\ run'[j] = run[j]
    BY <1>1, <1>2, <1>12 DEF DraftInv, LocksOK
  <2>2. Holding(h, run[j].tenant)
    BY <1>12 DEF DraftInv, LocksOK
  <2> QED
    BY <1>3, <2>1, <2>2 DEF Holding, AllAre, Tools!Made
<1> QED
  BY <1>2, <1>11, <1>12, LocksKept DEF DraftInv

LEMMA ExpiryKeeps ==
  ASSUME DraftInv, NEW g \in Groups, Tools!DraftExpires(g)
  PROVE  DraftInv'
<1>1. /\ DOMAIN drafts' = Groups /\ UNCHANGED <<run, told>>
      /\ drafts'[g] = [drafts[g] EXCEPT !.expired = TRUE]
      /\ \A h \in Groups \ {g} : drafts'[h] = drafts[h]
  BY DEF Tools!DraftExpires, DraftInv, GroupsOK
<1>2. GroupOK(g) /\ ToldOK(g) /\ drafts[g].state = "made"
  BY DEF Tools!DraftExpires, Tools!Made, DraftInv, GroupsOK
<1>3. {"state", "tenant", "expired", "status"} \subseteq DOMAIN drafts[g] /\ DOMAIN drafts[g].status # {}
  BY <1>2 DEF GroupOK, Tools!NoDrafts
<1>4. /\ drafts'[g].state = "made" /\ DOMAIN drafts'[g] = DOMAIN drafts[g]
      /\ drafts'[g].status = drafts[g].status /\ drafts'[g].tenant = drafts[g].tenant
  BY <1>1, <1>2, <1>3
<1>5. drafts'[g] # Tools!NoDrafts /\ drafts[g] # Tools!NoDrafts
  BY <1>2, <1>4 DEF Tools!NoDrafts
<1>6. GroupOK(g)' /\ ToldOK(g)'
  BY <1>1, <1>2, <1>3, <1>4, <1>5 DEF GroupOK, ToldOK, AllAre, Tools!Made
<1>7. \A h \in Groups \ {g} : GroupOK(h)' /\ ToldOK(h)'
  BY <1>1 DEF DraftInv, GroupsOK, GroupOK, ToldOK, AllAre, Tools!Made
<1>8. GroupsOK'
  BY <1>1, <1>6, <1>7 DEF DraftInv, GroupsOK
<1>9. ASSUME NEW h \in Groups, NEW t, Holding(h, t) PROVE Holding(h, t)'
  <2>1. drafts'[h].state = drafts[h].state /\ drafts'[h].status = drafts[h].status /\ drafts'[h].tenant = drafts[h].tenant
    BY <1>1, <1>2, <1>4
  <2> QED
    BY <1>9, <2>1 DEF Holding, AllAre, Tools!Made
<1>10. LocksOK'
  <2>1. ASSUME NEW j \in Calls, NEW h \in Groups, Locks(j, h)' PROVE Holding(h, run[j].tenant)'
    <3>1. Holding(h, run[j].tenant)
      BY <1>1, <2>1 DEF DraftInv, LocksOK, Locks, Tools!At
    <3>2. ASSUME NEW t, t = run[j].tenant PROVE Holding(h, run[j].tenant)'
      BY <1>1, <1>9, <3>1, <3>2 DEF Holding
    <3> QED
      BY <3>2
  <2> QED
    BY <1>1, <2>1 DEF DraftInv, LocksOK, Asks, Locks, Tools!At
<1> QED
  BY <1>8, <1>10 DEF DraftInv

\* Dropping a shop's drafts waits for those who hold them.
LEMMA DropKeeps ==
  ASSUME DraftInv, NEW t, Tools!MayDrop(t), drafts' = Tools!Without(t), UNCHANGED <<run, told>>
  PROVE  DraftInv'
<1>1. /\ DOMAIN drafts' = Groups
      /\ \A g \in Groups : drafts'[g] = IF Tools!Made(g) /\ drafts[g].tenant = t
                                       THEN [state |-> "dropped"] ELSE drafts[g]
  BY DEF Tools!Without
<1>2. ASSUME NEW g \in Groups PROVE GroupOK(g)' /\ ToldOK(g)'
  <2>1. GroupOK(g) /\ ToldOK(g)
    BY DEF DraftInv, GroupsOK
  <2>2. CASE drafts'[g] = drafts[g]
    BY <2>1, <2>2 DEF GroupOK, ToldOK, AllAre, Tools!Made
  <2>3. CASE drafts'[g] = [state |-> "dropped"]
    BY <2>1, <2>3 DEF GroupOK, ToldOK, Tools!Made, Tools!NoDrafts
  <2> QED
    BY <1>1, <2>2, <2>3
<1>3. GroupsOK'
  BY <1>1, <1>2 DEF DraftInv, GroupsOK
<1>4. ASSUME NEW k \in Calls, NEW g \in Groups, Locks(k, g)
      PROVE  Holding(g, run[k].tenant)'
  <2>1. Holding(g, run[k].tenant) /\ run[k].tenant # t
    BY <1>4 DEF DraftInv, LocksOK, Locks, Tools!MayDrop
  <2>2. drafts'[g] = drafts[g]
    BY <1>1, <2>1 DEF Holding
  <2> QED
    BY <2>1, <2>2 DEF Holding, AllAre, Tools!Made
<1>5. LocksOK'
  BY <1>4 DEF DraftInv, LocksOK, Asks, Locks, Tools!At
<1> QED
  BY <1>3, <1>5 DEF DraftInv

LEMMA ToolsKeep ==
  ASSUME DraftInv, Tools!ReorderNext
  PROVE  DraftInv'
<1>1. ASSUME NEW k \in Calls, Tools!Read(k) \/ Tools!Remember(k) \/ Tools!ToolFails(k) PROVE DraftInv'
  BY <1>1, FinishOnly DEF Tools!Read, Tools!Remember, Tools!ToolFails, Tools!reorderVars
<1>2. ASSUME NEW k \in Calls, NEW g \in Groups, Tools!BeginConfirm(k, g) PROVE DraftInv'
  <2> DEFINE r == [tool |-> run[k].tool, phase |-> "asked", tenant |-> run[k].tenant,
                   what |-> [group |-> g, late |-> Tools!Made(g) /\ drafts[g].expired]]
  <2>1. run' = [run EXCEPT ![k] = r] /\ UNCHANGED <<drafts, told>>
    BY <1>2 DEF Tools!BeginConfirm, Tools!Go, Tools!reorderVars
  <2>2. r.phase = "asked" /\ r.what.group = g
    OBVIOUS
  <2> QED
    BY <2>1, <2>2, CallOnly
<1>3. ASSUME NEW k \in Calls, NEW r \in Rules, Tools!BeginRemember(k, r) PROVE DraftInv'
  <2>1. CASE Tools!Finish(k)
    BY <1>3, <2>1, FinishOnly DEF Tools!BeginRemember, Tools!reorderVars
  <2>2. CASE Tools!Go(k, "counted", r)
    <3> DEFINE c == [tool |-> run[k].tool, phase |-> "counted", tenant |-> run[k].tenant, what |-> r]
    <3>1. run' = [run EXCEPT ![k] = c] /\ UNCHANGED <<drafts, told>> /\ c.phase = "counted"
      BY <1>3, <2>2 DEF Tools!BeginRemember, Tools!Go, Tools!reorderVars
    <3> QED
      BY <3>1, CallOnly
  <2> QED
    BY <1>3, <2>1, <2>2 DEF Tools!BeginRemember
<1>4. ASSUME NEW k \in Calls, NEW which, Tools!Forget(k, which) PROVE DraftInv'
  BY <1>4, FinishOnly DEF Tools!Forget
<1>5. ASSUME NEW k \in Calls, NEW heard \in BOOLEAN, Tools!ConfirmDrafts(k, heard) PROVE DraftInv'
  <2>1. PICK g \in Groups : g = run[k].what.group
    BY <1>5 DEF Tools!ConfirmDrafts, Tools!At, DraftInv, LocksOK, Asks
  <2> QED
    BY <1>5, <2>1, ConfirmKeeps
<1> QED
  BY <1>1, <1>2, <1>3, <1>4, <1>5, CreateKeeps, LockKeeps, ExpiryKeeps DEF Tools!ReorderNext

\* A request begins one tool, and forgets it when it returns.
LEMMA McpKeeps ==
  ASSUME DraftInv, McpNext, UNCHANGED <<drafts, told>>
  PROVE  DraftInv'
<1>1. ASSUME NEW k \in Calls, Return(k) PROVE DraftInv'
  <2>1. run' = [run EXCEPT ![k] = NoRun] /\ NoRun.tool = "none"
    BY <1>1 DEF Return, NoRun
  <2> QED
    BY <2>1, CallOnly
<1>2. ASSUME NEW k \in Calls, NEW t \in ToolNames, CallTool(k, t) PROVE DraftInv'
  <2>1. CASE Permitted(t, call[k])
    <3> DEFINE r == [tool |-> t, phase |-> "begun", tenant |-> call[k].session.tenant]
    <3>1. run' = [run EXCEPT ![k] = r] /\ r.phase = "begun"
      BY <1>2, <2>1 DEF CallTool
    <3> QED
      BY <3>1, CallOnly
  <2>2. CASE UNCHANGED run
    BY <2>2, NothingDrafted
  <2> QED
    BY <1>2, <2>1, <2>2 DEF CallTool
<1>3. ASSUME UNCHANGED run PROVE DraftInv'
  BY <1>3, NothingDrafted
<1>4. ASSUME NEW k \in Calls, Initialize(k) PROVE UNCHANGED run
  BY <1>4 DEF Initialize
<1>5. ASSUME NEW k \in Calls, NEW s \in Sessions,
             UseSession(k, s) \/ Opened(k, s) \/ CloseSession(k, s)
      PROVE  UNCHANGED run
  BY <1>5 DEF UseSession, Opened, CloseSession
<1>6. ASSUME NEW k \in Calls, NEW p, EnterWithGrant(k, p) PROVE UNCHANGED run
  BY <1>6 DEF EnterWithGrant
<1>7. ASSUME NEW k \in Calls, NEW t \in StaticTokens, EnterWithToken(k, t) PROVE UNCHANGED run
  BY <1>7 DEF EnterWithToken
<1>8. ASSUME NEW s, SessionIdles(s) PROVE UNCHANGED run
  BY <1>8 DEF SessionIdles
<1>9. ASSUME NEW t, Withdraw(t) \/ CacheExpires(t) PROVE UNCHANGED run
  BY <1>9 DEF Withdraw, CacheExpires
<1>10. ASSUME Sweep \/ Midnight PROVE UNCHANGED run
  BY <1>10 DEF Sweep, Midnight
<1> QED
  BY <1>1, <1>2, <1>3, <1>4, <1>5, <1>6, <1>7, <1>8, <1>9, <1>10 DEF McpNext

LEMMA DraftInit ==
  ASSUME AssistantInit
  PROVE  DraftInv
BY DEF AssistantInit, McpInit, Tools!ReorderInit, DraftInv, GroupsOK, GroupOK, ToldOK, LocksOK,
       Asks, Locks, Tools!At, Tools!NoDrafts, NoRun

LEMMA DraftStep ==
  ASSUME DraftInv, [AssistantNext]_assistantVars
  PROVE  DraftInv'
<1>1. CASE UNCHANGED <<run, drafts, told>>
  BY <1>1, NothingDrafted
<1>2. CASE McpNext /\ ToolsIdle
  BY <1>2, McpKeeps DEF ToolsIdle
<1>3. ASSUME NEW k \in Calls, FreshenShop(k) PROVE DraftInv'
  <2>1. UNCHANGED run
    BY <1>3 DEF FreshenShop, Freshen
  <2>2. CASE Tools!Refill(call[k].who.tenant)
    BY <2>1, <2>2, DropKeeps DEF Tools!Refill
  <2>3. CASE ToolsIdle
    BY <2>1, <2>3, <1>1 DEF ToolsIdle
  <2> QED
    BY <1>3, <2>2, <2>3 DEF FreshenShop
<1>4. CASE RestartServer
  BY <1>4 DEF RestartServer, Restart, ToolsIdle, DraftInv, GroupsOK, GroupOK, ToldOK, LocksOK, AllAre,
              Asks, Locks, Tools!At, Tools!Made, Tools!NoDrafts, NoRun
<1>5. CASE Leave
  BY <1>5, DropKeeps DEF Leave, McpIdle, Tools!CloseShop
<1>6. CASE Tools!ReorderNext
  BY <1>6, ToolsKeep
<1>7. CASE GrantNext /\ McpIdle /\ ToolsIdle
  BY <1>1, <1>7 DEF McpIdle, ToolsIdle
<1> QED
  BY <1>1, <1>2, <1>3, <1>4, <1>5, <1>6, <1>7 DEF AssistantNext, assistantVars, mcpVars

\* The orders of one draft are confirmed together, and their confirmation is
\* announced once, whoever else holds its token (confirm_reorder in tools.ts).
THEOREM ConfirmedOnce == AssistantSpec => []ConfirmedOnceTogether
<1>1. DraftInv => ConfirmedOnceTogether
  <2>1. ASSUME DraftInv, NEW g \in Groups
        PROVE  /\ told[g] <= 1
               /\ Tools!Made(g) => AllAre(g, "draft") \/ AllAre(g, "confirmed")
               /\ told[g] = 1 /\ Tools!Made(g) => AllAre(g, "confirmed")
    BY <2>1 DEF DraftInv, GroupsOK, GroupOK, ToldOK, Tools!Made, Tools!NoDrafts
  <2> QED
    BY <2>1 DEF ConfirmedOnceTogether, Tools!ConfirmedOnceTogether, AllAre
<1> QED
  BY <1>1, DraftInit, DraftStep, PTL DEF AssistantSpec
=============================================================================
