-------------------------- MODULE AssistantService --------------------------
(***************************************************************************)
(* The MCP server as one program: the grants of its authorization server,  *)
(* the sessions they open, and the tools those run.  The three meet where  *)
(* a request resolves a token that may be revoked the next moment, and     *)
(* where a shop is filled afresh, linked or deleted under a running tool.  *)
(***************************************************************************)
EXTENDS McpSessions

CONSTANTS Groups, Suppliers, Rules, MaxRules, MaxLapses

ASSUME RulesAssumption == MaxRules \in Nat \ {0}

VARIABLES drafts, rules, closed, told, lapses

ShopTenants == {<<DemoShop, a>> : a \in Accounts} \union {<<s, NoOne>> : s \in Shops}

Tools == INSTANCE VoiceReorder WITH Tenants <- ShopTenants

assistantVars == <<grantVars, mcpVars, drafts, rules, closed, told, lapses>>
ToolsIdle == UNCHANGED <<drafts, rules, closed, told, lapses>>
McpIdle == UNCHANGED <<call, session, valid, cached, dated, checked, called, run>>

AssistantInit == GrantInit /\ McpInit /\ Tools!ReorderInit

(* A request to a sample shop of an earlier day fills it afresh first.     *)
FreshenShop(k) ==
    LET t == call[k].who.tenant IN
    /\ Freshen(k) /\ McpOnly /\ UNCHANGED <<elapsed, faults>>
    /\ IF call[k].who.demo /\ t \in dated \ checked THEN Tools!Refill(t) ELSE ToolsIdle

(* The account is deleted, and its sample shop with it.                    *)
Leave ==
    /\ DeleteAccount /\ McpIdle
    /\ Tools!CloseShop(<<DemoShop, cookie>>)

RestartServer ==
    /\ Restart /\ McpOnly /\ ToolsIdle
    /\ faults' = faults + 1
    /\ UNCHANGED elapsed

AssistantNext ==
    \/ GrantNext /\ McpIdle /\ ToolsIdle
    \/ Leave
    \/ McpNext /\ McpOnly /\ ToolsIdle
    \/ \E k \in Calls : FreshenShop(k)
    \/ RestartServer
    \/ /\ Tools!ReorderNext
       /\ UNCHANGED <<grantVars, call, session, valid, cached, dated, checked, called>>

AssistantSpec == AssistantInit /\ [][AssistantNext]_assistantVars

ConfirmedOnceTogether == Tools!ConfirmedOnceTogether
RulesBounded == Tools!RulesBounded
=============================================================================
