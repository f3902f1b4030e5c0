---------------------------- MODULE MCBackOffice ----------------------------
(***************************************************************************)
(* Instances of the services of BackOffice, one set of inputs for each.    *)
(***************************************************************************)
EXTENDS BackOffice, Sequences

CONSTANTS p1, p2, p3

(* The notifier: coalescing over the limit; a flush with rows that expire; *)
(* lost answers; two flushes with a lost answer; the interaction window.   *)
Silent == [notes |-> 0, flushes |-> 0, faults |-> 0, denials |-> 0, ages |-> FALSE, window |-> FALSE]
BCases == {
    [Silent EXCEPT !.notes = 3, !.denials = 3],
    [Silent EXCEPT !.notes = 2, !.denials = 2, !.flushes = 1, !.ages = TRUE],
    [Silent EXCEPT !.notes = 1, !.faults = 2, !.denials = 1],
    [Silent EXCEPT !.notes = 1, !.flushes = 2, !.denials = 1, !.faults = 1],
    [Silent EXCEPT !.notes = 1, !.window = TRUE]}

BLists == {<<p1, p2>>, <<p1, NoCode, p2>>, <<p3, p2, p1>>}

(* XML invoices: one sent twice with other units, one without a file, one  *)
(* that does not parse, one with a total of its own.                       *)
Document(unit) ==
    [doctype |-> FALSE, number |-> "n1", date |-> "d1", supplier |-> Absent, subtotal |-> Absent, tax |-> 1, total |-> Absent,
     items |-> <<[name |-> "rice", sku |-> Absent, qty |-> 2, price |-> 3, total |-> Absent, unit |-> unit],
                 [name |-> "milk", sku |-> Absent, qty |-> 1, price |-> Absent, total |-> 2, unit |-> unit]>>]
Secure == [scheme |-> "https", port |-> "443", allowed |-> TRUE, http |-> FALSE, private |-> FALSE]
Insecure == [Secure EXCEPT !.scheme = "http"]
Served == [ok |-> TRUE, redirects |-> FALSE, type |-> "xml", large |-> FALSE]
File(url, answer, doc) == [url |-> url, answer |-> answer, doc |-> doc]
BAttachments == {
    <<File(Secure, Served, Document("bag")), File(Secure, Served, Document("box"))>>,
    <<File(Secure, Served, Document("bag")), Absent>>,
    <<File(Secure, Served, [Document("bag") EXCEPT !.total = Unread]), File(Insecure, Served, Document("bag"))>>,
    <<File([Insecure EXCEPT !.http = TRUE], Served, [Document("bag") EXCEPT !.total = 9]),
      File(Secure, [Served EXCEPT !.type = ""], Document("bag"))>>}

(* The admin service: credentials set by several operators; keys that      *)
(* change; tenants; invites; permissions; parts that are switched off.     *)
By(how, key, role) == [how |-> how, key |-> key, role |-> role, valid |-> TRUE]
Ops == By("token", "k1", "ops")
Request(kind, by, arg, nr) == [kind |-> kind, by |-> by, tenant |-> "t1", arg |-> arg, nr |-> nr, sound |-> TRUE]
Settings == [auth |-> TRUE, breakglass |-> "off", tenants |-> TRUE, secrets |-> TRUE, mek |-> TRUE, pepper |-> TRUE, inviteRate |-> 1]
On(calls, setup, rekeys) == [calls |-> calls, setup |-> setup, rekeys |-> rekeys]
KC == "kiotviet_client_credentials"
BSituations == {
    On(<<Request("rotate", Ops, KC, 0), Request("kiotviet", Ops, "", 0), Request("rotate", Ops, KC, 0),
         Request("revoke", Ops, KC, 1)>>, Settings, FALSE),
    On(<<Request("rotate", By("breakglass", "k1", "ops"), KC, 0), Request("secrets", By("token", "k2", "read_only"), "", 0),
         Request("rotate", By("token", "k1", "read_only"), KC, 0)>>, [Settings EXCEPT !.breakglass = "ops"], TRUE),
    On(<<Request("create", Ops, "", 0), [Request("patch", Ops, "metadata", 0) EXCEPT !.tenant = "t2"],
         Request("patch", Ops, "v2", 0), Request("get", Ops, "", 0)>>, Settings, FALSE),
    On(<<Request("patch", Ops, "disable", 0), [Request("invite", Ops, "", 0) EXCEPT !.tenant = "t2"],
         Request("ping", By("none", "k1", "other"), "", 0)>>, [Settings EXCEPT !.auth = FALSE], FALSE),
    On(<<Request("invite", Ops, "", 0), Request("invite", Ops, "", 0), Request("invites", Ops, "", 0)>>, Settings, FALSE),
    On(<<Request("permit", Ops, "all", 0), Request("unpermit", Ops, "all", 0), Request("permissions", Ops, "", 0),
         Request("ops_ping", Ops, "", 0)>>, Settings, FALSE),
    On(<<Request("permit", Ops, "none", 0), [Request("rotate", Ops, KC, 0) EXCEPT !.sound = FALSE],
         Request("rotate", Ops, KC, 0)>>, [Settings EXCEPT !.mek = FALSE], FALSE),
    On(<<Request("rotate", Ops, KC, 0), Request("invite", Ops, "", 0)>>, [Settings EXCEPT !.secrets = FALSE, !.pepper = FALSE], FALSE)}

(* Plans: one product over many levels of stock, then two under two rules. *)
Stocked(h, m, r, k, a, s) == [onHand |-> h, min |-> m, reorder |-> r, pack |-> k, supplier |-> s, avg |-> a, lead |-> 1]
Levels == {Stocked(h, m, r, k, a, "s1") : h \in {0, 3, 10}, m \in {0, 3}, r \in {0, 4}, k \in {0, 6}, a \in {0, 5, 12}}
FewLevels == {Stocked(0, 3, 4, 6, 12, "s1"), Stocked(10, 0, 4, 6, 5, "s1"), Stocked(3, 3, 0, 0, 0, "s2")}
Wish(tied, qty) == [tied |-> tied, qty |-> qty]
SomeRules == {
    [kind |-> "skip_item", products |-> {"milk"}],
    [kind |-> "max_order_qty", products |-> {"milk", "oat milk"}, max |-> 5],
    [kind |-> "max_order_qty", products |-> {"oat milk"}, max |-> 2],
    [kind |-> "preferred_supplier", products |-> {"milk", "oat milk"}, supplier |-> "s2"],
    [kind |-> "preferred_supplier", products |-> {"milk"}, supplier |-> "gone"]}
Wishes == {<<>>, <<Wish({"milk"}, 0)>>, <<Wish({"milk", "oat milk"}, 0)>>, <<Wish({"milk"}, 7), Wish({"oat milk"}, 0)>>}
Both(a, b) == [p \in {"milk", "oat milk"} |-> IF p = "milk" THEN a ELSE b]
BRequests ==
    {[stock |-> Both(a, Stocked(3, 3, 0, 0, 0, "none")), wish |-> w, rules |-> r] :
        a \in Levels, w \in {<<>>, <<Wish({"milk"}, 0)>>}, r \in {<<>>} \union {<<q>> : q \in SomeRules}}
    \union {[stock |-> Both(a, b), wish |-> w, rules |-> <<r, q>>] :
        a \in FewLevels, b \in FewLevels, w \in Wishes, r \in SomeRules, q \in SomeRules}

(* The simulator: a plan taken up with two yeses; a no; an order that      *)
(* sounds like a yes before a yes; a question that sounds like one.        *)
Said(yes, no, question, reorder, intent) ==
    [yes |-> yes, no |-> no, question |-> question, short |-> TRUE, reorder |-> reorder, intent |-> intent]
Tool(tool, supplier) == [tool |-> tool, supplier |-> supplier]
Yes == Said(TRUE, FALSE, FALSE, FALSE, <<>>)
No == Said(FALSE, TRUE, FALSE, FALSE, <<>>)
Maybe == Said(TRUE, FALSE, TRUE, FALSE, <<>>)
Milk == Said(FALSE, FALSE, FALSE, TRUE, <<Tool("create", "s1")>>)
MilkAndYes == Said(TRUE, FALSE, FALSE, TRUE, <<Tool("create", "s2")>>)
GoodMorning == Said(FALSE, FALSE, FALSE, FALSE, <<Tool("other", ""), Tool("suggest", "")>>)
Script(words, proposals) == [words |-> words, model |-> proposals # {}, proposals |-> proposals]
BScripts == {
    Script(<<GoodMorning, Yes, Yes>>, {}),
    Script(<<Milk, No>>, {}),
    Script(<<MilkAndYes, Yes>>, {<<>>, <<Tool("create", "s2"), Tool("confirm", "")>>}),
    Script(<<Milk, Maybe>>, {<<>>, <<Tool("confirm", "")>>})}
BPlanOrder == <<"s1", "s2">>

(* Chats: a poller that answers by itself, and the gateway's polling with  *)
(* the chatbot in each of its settings.                                    *)
Box(mode, updates, chatbot, catalogue) ==
    [mode |-> mode, updates |-> updates, chatbot |-> chatbot, catalogue |-> catalogue]
BInboxes == {
    Box("poller", <<"text", "sheet", "invalid">>, "off", "none"),
    Box("poller", <<"pathless", "unreadable">>, "off", "none"),
    Box("gateway", <<"text", "invalid", "text">>, "on", "matching"),
    Box("gateway", <<"other", "text">>, "on", "other"),
    Box("gateway", <<"text">>, "on", "none"),
    Box("gateway", <<"text">>, "off", "none"), Box("gateway", <<"text">>, "keyless", "none")}
=============================================================================
