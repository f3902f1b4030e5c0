---------------------------- MODULE MCAssistant ----------------------------
(***************************************************************************)
(* Instances of AssistantService: each scenario bounds a different part of *)
(* the behaviour, so that the state space is the sum of them.              *)
(***************************************************************************)
EXTENDS AssistantService, TLC

AScopes == {{"shop.write", "offline_access"}, {}}

AStaticShop == [t \in StaticTokens |-> CHOOSE s \in Shops : TRUE]

Registered == {CHOOSE c \in Clients \ UrlClients : TRUE}

Quiet == [codes |-> 0, pairs |-> 0, wrong |-> 0, waits |-> 0, time |-> 0, faults |-> 0,
          handled |-> 0, calls |-> 0, joined |-> TRUE, apps |-> Registered]

ABounds == {
    \* two requests to the authorization server at a time, and expiry
    [Quiet EXCEPT !.codes = 1, !.pairs = 2, !.time = 2, !.handled = 2],
    \* from signing up to the first tokens, with an app named by its URL, and a request that dies
    [Quiet EXCEPT !.codes = 1, !.pairs = 1, !.time = 1, !.faults = 1, !.handled = 1, !.joined = FALSE, !.apps = Clients],
    \* guessing a password over a lock period
    [Quiet EXCEPT !.wrong = 9, !.waits = 1, !.handled = 2, !.joined = FALSE],
    \* tool calls while grants are revoked, linked, deleted
    [Quiet EXCEPT !.codes = 1, !.pairs = 1, !.handled = 1, !.calls = 2],
    \* a tool call across midnight or an idle session
    [Quiet EXCEPT !.codes = 1, !.pairs = 1, !.handled = 1, !.calls = 1, !.time = 1],
    \* tool calls of two operator tokens, then with a restart
    [Quiet EXCEPT !.joined = FALSE, !.calls = 4],
    [Quiet EXCEPT !.joined = FALSE, !.calls = 2, !.time = 1, !.faults = 1]}

ASymmetry == Permutations(Calls) \union Permutations(Handlers)
=============================================================================
