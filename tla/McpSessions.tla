---------------------------- MODULE McpSessions ----------------------------
(***************************************************************************)
(* The MCP endpoint: who a bearer token stands for, the sessions opened    *)
(* with it, and the requests that reach the tools through them.            *)
(*                                                                         *)
(* A request is split at its awaits: the token is resolved, a sample shop  *)
(* may be filled afresh, the body is read, and only then is the session    *)
(* asked to run a tool.  In between, the grants can change.                *)
(***************************************************************************)
EXTENDS OAuthGrants, ToolCalls

CONSTANTS StaticTokens,   \* bearer tokens given out by an operator
          ReadOnlyTokens, \* those of them without shop.write
          StaticShop,     \* the shop each belongs to
          Sessions,       \* places in the map of sessions, numbered
          MaxSessions     \* maxSessions, the limit of the server

ASSUME SessionAssumption ==
    /\ ReadOnlyTokens \subseteq StaticTokens /\ StaticShop \in [StaticTokens -> Shops]
    /\ IsFiniteSet(Sessions) /\ Sessions \subseteq Nat /\ IsFiniteSet(Calls) /\ MaxSessions \in Nat \ {0}

VARIABLES
    call,      \* call -> the request and what it has established
    session,   \* session -> NoOne or the row of the sessions map
    valid,     \* static tokens the database still accepts
    cached,    \* static token -> "none", "good" or "bad", the tokenCache
    dated,     \* shops whose sample data is of an earlier day
    checked,   \* sample shops found or made fresh today
    called     \* requests begun

mcpVars == <<call, session, valid, cached, dated, checked, called, run>>

NoCall == [phase |-> "none"]

McpInit ==
    /\ call = [k \in Calls |-> NoCall]
    /\ session = [s \in Sessions |-> NoOne]
    /\ valid = StaticTokens
    /\ cached = [t \in StaticTokens |-> "none"]
    /\ dated = {} /\ checked = {}
    /\ called = 0
    /\ run = [k \in Calls |-> NoRun]

(* A shop is named with its account when it is a sample shop.              *)
TenantOf(a) == IF account[a].shop = DemoShop THEN <<DemoShop, a>> ELSE <<account[a].shop, NoOne>>

OAuthKey(a) == <<"oauth", TenantOf(a), a>>

StaticKey(t) == <<"static", StaticShop[t], t \notin ReadOnlyTokens>>

(* resolveAccessToken: the tenant is the account's at this moment.         *)
OAuthPrincipal(p) ==
    LET a == code[p[1]].account IN
    [tenant |-> TenantOf(a), key |-> OAuthKey(a), profile |-> "chat",
     write |-> "shop.write" \in code[p[1]].scopes, demo |-> account[a].shop = DemoShop]

StaticPrincipal(t) ==
    [tenant |-> <<StaticShop[t], NoOne>>, key |-> StaticKey(t), profile |-> "voice",
     write |-> t \notin ReadOnlyTokens, demo |-> FALSE]

Accepted(p) ==
    /\ p \in Pairs(p[1]) /\ PairAt(p).access = "active" /\ PairAt(p).age = "fresh"
    /\ Exists(code[p[1]].account)

Enter(k, principal) ==
    /\ call[k] = NoCall /\ called < bound.calls
    /\ called' = called + 1
    /\ call' = [call EXCEPT ![k] = [phase |-> "known", who |-> principal]]

(* A request with an OAuth access token.  One that is not accepted is      *)
(* answered 401 and changes nothing.                                       *)
EnterWithGrant(k, p) ==
    /\ Accepted(p) /\ Enter(k, OAuthPrincipal(p))
    /\ UNCHANGED <<session, valid, cached, dated, checked, run>>

(* A request with a static token: the answer of the database, good or bad, *)
(* is kept for a while, and used without asking again.                     *)
EnterWithToken(k, t) ==
    LET answer == IF cached[t] # "none" THEN cached[t] ELSE IF t \in valid THEN "good" ELSE "bad" IN
    /\ cached' = [cached EXCEPT ![t] = answer]
    /\ IF answer = "good" THEN Enter(k, StaticPrincipal(t))
       ELSE call[k] = NoCall /\ called < bound.calls /\ called' = called + 1 /\ UNCHANGED call
    /\ UNCHANGED <<session, valid, dated, checked, run>>

(* ensureSandboxFresh: once a day per process a sample shop is asked for,  *)
(* and filled afresh if it is of an earlier day.                           *)
Freshen(k) ==
    LET t == call[k].who.tenant IN
    /\ call[k].phase = "known"
    /\ IF call[k].who.demo /\ t \notin checked
       THEN dated' = dated \ {t} /\ checked' = checked \union {t}
       ELSE UNCHANGED <<dated, checked>>
    /\ call' = [call EXCEPT ![k].phase = "ready"]
    /\ UNCHANGED <<session, valid, cached, called, run>>

Open(s) == session[s] # NoOne
SessionCount == Cardinality({s \in Sessions : Open(s)})

(* Mutant of MayUse: any known session will do.                            *)
MayUseAny(s, who) == Open(s)

(* A session is bound to the principal that opened it.                     *)
MayUse(s, who) == Open(s) /\ session[s].key = who.key

(* The session is found, the body is read.  A session that is not found is *)
(* answered 404.                                                           *)
UseSession(k, s) ==
    /\ call[k].phase = "ready"
    /\ IF MayUse(s, call[k].who)
       THEN /\ call' = [call EXCEPT ![k] = [phase |-> "body", who |-> call[k].who, session |-> session[s]]]
            /\ session' = [session EXCEPT ![s].idle = FALSE]
       ELSE call' = [call EXCEPT ![k] = NoCall] /\ UNCHANGED session
    /\ UNCHANGED <<valid, cached, dated, checked, called, run>>

(* A write tool needs shop.write of the token that came with the request.  *)
Permitted(tool, c) == tool \in WriteTools => c.who.write

(* The body names a tool: 403 without the scope, else the session's own    *)
(* server runs it, for the tenant the session was opened for.              *)
CallTool(k, tool) ==
    LET c == call[k] IN
    /\ c.phase = "body" /\ tool \in ToolsOf(c.session.profile)
    /\ IF Permitted(tool, c)
       THEN /\ run' = [run EXCEPT ![k] = [tool |-> tool, phase |-> "begun", tenant |-> c.session.tenant]]
            /\ call' = [call EXCEPT ![k].phase = "runs"]
       ELSE call' = [call EXCEPT ![k] = NoCall] /\ UNCHANGED run
    /\ UNCHANGED <<session, valid, cached, dated, checked, called>>

(* The tool has answered.                                                  *)
Return(k) ==
    /\ call[k].phase = "runs" /\ run[k].tool # "none" /\ run[k].phase = "done"
    /\ call' = [call EXCEPT ![k] = NoCall]
    /\ run' = [run EXCEPT ![k] = NoRun]
    /\ UNCHANGED <<session, valid, cached, dated, checked, called>>

(* Mutant of Full: one session more than the limit.                        *)
FullLate == SessionCount > MaxSessions

Full == SessionCount >= MaxSessions

WithoutIdle == [s \in Sessions |-> IF Open(s) /\ session[s].idle THEN NoOne ELSE session[s]]

(* An initialize request looks at the limit, sweeping when it is reached:  *)
(* 503 if that does not help, ...                                          *)
Initialize(k) ==
    LET swept == IF Full THEN WithoutIdle ELSE session IN
    /\ call[k].phase = "ready"
    /\ session' = swept
    /\ call' = [call EXCEPT ![k] = IF Full /\ swept = session THEN NoCall ELSE [@ EXCEPT !.phase = "opening"]]
    /\ UNCHANGED <<valid, cached, dated, checked, called, run>>

(* ... and later the transport stores the session, under an identifier     *)
(* nobody could have used before: which free place it takes is immaterial. *)
Opened(k, s) ==
    LET who == call[k].who IN
    /\ call[k].phase = "opening" /\ ~Open(s)
    /\ \A t \in Sessions : t < s => Open(t)
    /\ session' = [session EXCEPT ![s] = [key |-> who.key, tenant |-> who.tenant, write |-> who.write,
                                          profile |-> who.profile, idle |-> FALSE]]
    /\ call' = [call EXCEPT ![k] = NoCall]
    /\ UNCHANGED <<valid, cached, dated, checked, called, run>>

(* Ten idle minutes, and the sweep that closes such sessions.              *)
SessionIdles(s) ==
    /\ Open(s) /\ ~session[s].idle /\ Passes
    /\ session' = [session EXCEPT ![s].idle = TRUE]
    /\ UNCHANGED <<call, valid, cached, dated, checked, called, run>>

Sweep ==
    /\ \E s \in Sessions : Open(s) /\ session[s].idle
    /\ session' = WithoutIdle
    /\ UNCHANGED <<call, valid, cached, dated, checked, called, run>>

(* DELETE of a session by the principal that owns it.                      *)
CloseSession(k, s) ==
    /\ call[k].phase = "ready" /\ MayUse(s, call[k].who)
    /\ session' = [session EXCEPT ![s] = NoOne]
    /\ call' = [call EXCEPT ![k] = NoCall]
    /\ UNCHANGED <<valid, cached, dated, checked, called, run>>

(* The operator withdraws a static token; a kept answer grows old.         *)
Withdraw(t) ==
    /\ t \in valid /\ Passes
    /\ valid' = valid \ {t}
    /\ UNCHANGED <<call, session, cached, dated, checked, called, run>>

CacheExpires(t) ==
    /\ cached[t] # "none" /\ Passes
    /\ cached' = [cached EXCEPT ![t] = "none"]
    /\ UNCHANGED <<call, session, valid, dated, checked, called, run>>

(* Midnight in the shop's time zone.                                       *)
Midnight ==
    /\ Passes
    /\ dated' = {<<DemoShop, a>> : a \in {b \in Accounts : Exists(b)}}
    /\ checked' = {}
    /\ UNCHANGED <<call, session, valid, cached, called, run>>

(* The server is restarted: sessions and caches are in its memory only.    *)
Restart ==
    /\ faults < bound.faults
    /\ session' = [s \in Sessions |-> NoOne]
    /\ call' = [k \in Calls |-> NoCall]
    /\ run' = [k \in Calls |-> NoRun]
    /\ cached' = [t \in StaticTokens |-> "none"]
    /\ checked' = {}
    /\ UNCHANGED <<valid, dated, called>>

McpOnly == UNCHANGED <<bound, account, cookie, client, code, token, doing, invite, killed, relinked, waited>>

McpNext ==
    \/ \E k \in Calls :
          \/ \E f \in Families : \E i \in 1..Len(token[f]) : EnterWithGrant(k, <<f, i>>) /\ UNCHANGED <<elapsed, faults>>
          \/ \E t \in StaticTokens : EnterWithToken(k, t) /\ UNCHANGED <<elapsed, faults>>
          \/ (Initialize(k) \/ Return(k)) /\ UNCHANGED <<elapsed, faults>>
          \/ \E s \in Sessions : (UseSession(k, s) \/ Opened(k, s) \/ CloseSession(k, s)) /\ UNCHANGED <<elapsed, faults>>
          \/ \E t \in ToolNames : CallTool(k, t) /\ UNCHANGED <<elapsed, faults>>
    \/ \E s \in Sessions : SessionIdles(s) /\ UNCHANGED faults
    \/ Sweep /\ UNCHANGED <<elapsed, faults>>
    \/ \E t \in StaticTokens : (Withdraw(t) \/ CacheExpires(t)) /\ UNCHANGED faults
    \/ Midnight /\ UNCHANGED faults

(* What must hold.                                                         *)

(* A tool call touches only the shop its bearer's token stood for, and     *)
(* changes something only if that very token allowed it, whatever was      *)
(* linked, revoked or opened by others while its session lived.            *)
CallsStayHome ==
    \A k \in Calls : run[k].tool # "none" =>
        /\ run[k].tenant = call[k].who.tenant
        /\ run[k].tool \in WriteTools => call[k].who.write

(* Looking at the limit before the session is stored costs at most one     *)
(* session for every other request on its way.                             *)
SessionsBounded == SessionCount <= MaxSessions + Cardinality(Calls) - 1
=============================================================================
