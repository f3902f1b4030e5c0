---------------------------- MODULE VoiceReorder ----------------------------
(***************************************************************************)
(* The tools that write: purchase-order drafts made and confirmed in two   *)
(* calls, and the standing rules a shop asks to be remembered.             *)
(*                                                                         *)
(* A tool runs in one transaction of the shop.  now() is the start of that *)
(* transaction, so a confirmation that had to wait for a row lock judges   *)
(* the expiry by the moment it began.                                      *)
(***************************************************************************)
EXTENDS ToolCalls, Integers, FiniteSets

CONSTANTS Tenants,    \* shops
          Groups,     \* the drafts of one create_reorder_draft call
          Suppliers,  \* one draft of a group for each supplier it orders from
          Rules,      \* rules by their key (kind and subject)
          MaxRules,   \* MAX_RULES_PER_PROFILE
          MaxLapses   \* bounds rolled-back tool calls and answers that are lost

VARIABLES
    drafts,    \* group -> the rows with its confirmation token
    rules,     \* shop -> the rules it has remembered
    closed,    \* shops whose account was deleted
    told,      \* group -> how often its confirmation was announced
    lapses     \* tool calls that failed

reorderVars == <<drafts, rules, closed, told, lapses>>

NoDrafts == [state |-> "none"]

ReorderInit ==
    /\ drafts = [g \in Groups |-> NoDrafts]
    /\ rules = [t \in Tenants |-> {}]
    /\ closed = {}
    /\ told = [g \in Groups |-> 0]
    /\ lapses = 0

Made(g) == drafts[g].state = "made"
There(k) == run[k].tenant \notin closed
Finish(k) == run' = [run EXCEPT ![k] = [tool |-> @.tool, phase |-> "done", tenant |-> @.tenant]]
Go(k, phase, more) ==
    run' = [run EXCEPT ![k] = [tool |-> @.tool, phase |-> phase, tenant |-> @.tenant, what |-> more]]
At(k, tool, phase) == run[k].tool = tool /\ run[k].phase = phase

(* A reading tool leaves everything as it is.                              *)
Read(k) ==
    /\ At(k, "read", "begun")
    /\ Finish(k)
    /\ UNCHANGED reorderVars

DraftRows(tenant, from) ==
    [state |-> "made", tenant |-> tenant, expired |-> FALSE, status |-> [s \in from |-> "draft"]]

(* create_reorder_draft: one row for each supplier of the plan, with one   *)
(* token and one expiry.  Without lines, or with a name that is not clear, *)
(* nothing is made, nor in a shop that is no longer there.                 *)
CreateDraft(k, g, from) ==
    /\ At(k, "draft", "begun") /\ drafts[g] = NoDrafts
    /\ drafts' = IF from = {} \/ ~There(k) THEN drafts
                 ELSE [drafts EXCEPT ![g] = DraftRows(run[k].tenant, from)]
    /\ Finish(k)
    /\ UNCHANGED <<rules, closed, told, lapses>>

(* confirm_reorder begins; the token may be any that was ever given out.   *)
BeginConfirm(k, g) ==
    /\ At(k, "confirm", "begun")
    /\ Go(k, "asked", [group |-> g, late |-> Made(g) /\ drafts[g].expired])
    /\ UNCHANGED reorderVars

(* Mutant of DraftsFree: reads the drafts without locking them.            *)
DraftsFreeAlways(k, g) == TRUE

(* FOR UPDATE: nobody else is between reading these rows and updating them.*)
DraftsFree(k, g) == \A j \in Calls \ {k} : At(j, "confirm", "locked") => run[j].what.group # g

(* findDraftsByTokenHash and the answers that follow from it: not found in *)
(* this shop, already confirmed, expired; otherwise the rows stay locked.  *)
LockDrafts(k) ==
    LET g == run[k].what.group IN
    /\ At(k, "confirm", "asked") /\ DraftsFree(k, g)
    /\ IF /\ Made(g) /\ drafts[g].tenant = run[k].tenant
          /\ \E s \in DOMAIN drafts[g].status : drafts[g].status[s] = "draft"
          /\ ~run[k].what.late
       THEN Go(k, "locked", run[k].what) ELSE Finish(k)
    /\ UNCHANGED reorderVars

Confirmed(status) == [s \in DOMAIN status |-> "confirmed"]

(* confirmDrafts and COMMIT.  The answer announces the confirmation unless *)
(* it is lost.                                                             *)
ConfirmDrafts(k, heard) ==
    LET g == run[k].what.group IN
    /\ At(k, "confirm", "locked")
    /\ drafts' = [drafts EXCEPT ![g].status = Confirmed(@)]
    /\ IF heard THEN told' = [told EXCEPT ![g] = @ + 1] /\ UNCHANGED lapses
       ELSE lapses < MaxLapses /\ lapses' = lapses + 1 /\ UNCHANGED told
    /\ Finish(k)
    /\ UNCHANGED <<rules, closed>>

(* The five minutes of a draft pass.                                       *)
DraftExpires(g) ==
    /\ Made(g) /\ ~drafts[g].expired
    /\ drafts' = [drafts EXCEPT ![g].expired = TRUE]
    /\ UNCHANGED <<run, rules, closed, told, lapses>>

(* Mutant of TooManyRules: does not count at all.   *)
TooManyRulesNever(known, r) == FALSE

TooManyRules(known, r) == r \notin known /\ Cardinality(known) >= MaxRules

(* remember_shop_rule reads the rules, ...                                 *)
BeginRemember(k, r) ==
    /\ At(k, "remember", "begun")
    /\ IF ~There(k) \/ TooManyRules(rules[run[k].tenant], r)
       THEN Finish(k) ELSE Go(k, "counted", r)
    /\ UNCHANGED reorderVars

(* ... and inserts its own, or replaces the one with the same key.         *)
Remember(k) ==
    /\ At(k, "remember", "counted")
    /\ rules' = [rules EXCEPT ![run[k].tenant] = @ \union {run[k].what}]
    /\ Finish(k)
    /\ UNCHANGED <<drafts, closed, told, lapses>>

(* forget_shop_rule: those that were read, the last, some, or all.         *)
Forget(k, which) ==
    /\ At(k, "forget", "begun") /\ which \subseteq rules[run[k].tenant]
    /\ rules' = [rules EXCEPT ![run[k].tenant] = @ \ which]
    /\ Finish(k)
    /\ UNCHANGED <<drafts, closed, told, lapses>>

(* The transaction is rolled back, or the audit that follows it fails: the *)
(* caller is told to try again.                                            *)
ToolFails(k) ==
    /\ run[k].tool # "none" /\ run[k].phase # "done" /\ lapses < MaxLapses
    /\ lapses' = lapses + 1
    /\ Finish(k)
    /\ UNCHANGED <<drafts, rules, closed, told>>

(* Every draft of a shop is dropped when its sample data is filled afresh, *)
(* and when its account is deleted; both wait for a confirmation that      *)
(* holds the rows.                                                         *)
Without(t) == [g \in Groups |-> IF Made(g) /\ drafts[g].tenant = t THEN [state |-> "dropped"] ELSE drafts[g]]
MayDrop(t) == \A k \in Calls : At(k, "confirm", "locked") => run[k].tenant # t

Refill(t) ==
    /\ MayDrop(t)
    /\ drafts' = Without(t)
    /\ UNCHANGED <<rules, closed, told, lapses>>

CloseShop(t) ==
    /\ MayDrop(t)
    /\ drafts' = Without(t)
    /\ closed' = closed \union {t}
    /\ UNCHANGED <<rules, told, lapses>>

ReorderNext ==
    \/ \E k \in Calls :
          \/ Read(k) \/ LockDrafts(k) \/ Remember(k) \/ ToolFails(k)
          \/ \E g \in Groups, from \in SUBSET Suppliers : CreateDraft(k, g, from)
          \/ \E g \in Groups : BeginConfirm(k, g)
          \/ \E heard \in BOOLEAN : ConfirmDrafts(k, heard)
          \/ \E r \in Rules : BeginRemember(k, r)
          \/ \E which \in SUBSET Rules : Forget(k, which)
    \/ \E g \in Groups : DraftExpires(g)

(* What must hold.                                                         *)

(* The orders of one draft are confirmed together, and their confirmation  *)
(* is announced once, however many calls hold the token, wait for each     *)
(* other, fail or lose their answer.                                       *)
ConfirmedOnceTogether ==
    \A g \in Groups :
        /\ told[g] <= 1
        /\ Made(g) => \A s, t \in DOMAIN drafts[g].status : drafts[g].status[s] = drafts[g].status[t]
        /\ told[g] = 1 /\ Made(g) => \A s \in DOMAIN drafts[g].status : drafts[g].status[s] = "confirmed"

(* Counting before inserting exceeds the limit of remembered rules by at   *)
(* most the calls that count at once.                                      *)
RulesBounded == \A t \in Tenants : Cardinality(rules[t]) <= MaxRules + Cardinality(Calls) - 1
=============================================================================
