----------------------------- MODULE BackOffice -----------------------------
(***************************************************************************)
(* The services beside the invoice pipeline: the worker's notifier, its    *)
(* product sync and its XML jobs, polling and the chatbot, the admin       *)
(* service, the planning of reorders and the voice simulator.  They meet   *)
(* only in tables whose rows the modules abstract, so that each behaviour  *)
(* runs one of them.                                                       *)
(***************************************************************************)
EXTENDS Integers, Sequences, FiniteSets

CONSTANTS
    Parts,   \* the services to run, one in each behaviour
    Workers, Operators, MaxPending, MaxAttempts, Cases,
    Codes, NoCode, Lists, PageSize, SafetyLimit, MaxSyncs, MaxChanges, SyncFaults,
    Absent, Unread, Attachments, MaxItems, MaxDeliveries, XmlFaults,
    Situations, AdminFaults,
    Suppliers, Unassigned, Requests,
    Scripts, PlanOrder, MaxRounds, HistoryLimit, MaxKept, Tokens, TurnCap, Budget, SimMishaps,
    Inboxes, ChatFaults, MaxRestarts

\* How polling is set up, and what the shop's catalogue holds.
ASSUME InboxAssumption ==
    \A box \in Inboxes : /\ box.mode \in {"poller", "gateway"}
                         /\ box.updates \in Seq(STRING)
                         /\ box.catalogue \in {"matching", "other", "none"}

VARIABLES
    part,
    case, rows, job, queued, sends, lost, refused, letters, reading,
    listed, secret, token, cache, syncing, waiting, spent,
    events, enabled, parsing, invoices, completed, ledger, deliveries, xmlFaults,
    situation, call, tenants, invites, secrets, permissions, audits, bucket, keys, adminFaults,
    request, stage, lines, orders,
    script, turn, talk, kept, idle, drafts, spend, mishaps,
    inbox, arrived, unread, offset, batch, handling, stored, chatJobs, chatJob, told, chatSpent, restarts

Notif == INSTANCE Notifier
Sync == INSTANCE ProductSync WITH run <- syncing, MaxFaults <- SyncFaults
Xml == INSTANCE XmlInvoices WITH run <- parsing, faults <- xmlFaults, MaxFaults <- XmlFaults
Admin == INSTANCE AdminApi WITH faults <- adminFaults, MaxFaults <- AdminFaults
Plans == INSTANCE ReorderPlanning
Voice == INSTANCE VoiceSimulator WITH Suppliers <- PlanOrder, MaxFaults <- SimMishaps
Chat == INSTANCE TelegramChats
            WITH kept <- unread, queued <- chatJobs, job <- chatJob, spent <- chatSpent, MaxFaults <- ChatFaults

\* Who puts notifications off, up to which limit, in which scenarios.
ASSUME WorkersAssumption ==
    /\ MaxPending \in Nat /\ IsFiniteSet(Workers) /\ Workers # {}
    /\ \A c \in Cases : c \in Notif!CaseOf

\* What a shop may list: no code twice.
ASSUME ListsAssumption ==
    /\ IsFiniteSet(Codes) /\ NoCode \notin Codes /\ PageSize \in Nat /\ SafetyLimit \in Nat
    /\ \A list \in Lists : /\ list \in Seq(Codes \union {NoCode})
                          /\ \A i, j \in DOMAIN list : list[i] = list[j] /\ list[i] # NoCode => i = j

\* What suggest_reorder and create_reorder_draft start from.
ASSUME RequestsAssumption == \A r \in Requests : Plans!IsRequest(r)

notifier == <<case, rows, job, queued, sends, lost, refused, letters, reading>>
sync == <<listed, secret, token, cache, syncing, waiting, spent>>
xml == <<events, enabled, parsing, invoices, completed, ledger, deliveries, xmlFaults>>
admin == <<situation, call, tenants, invites, secrets, permissions, audits, bucket, keys, adminFaults>>
plans == <<request, stage, lines, orders>>
voice == <<script, turn, talk, kept, idle, drafts, spend, mishaps>>
chats == <<inbox, arrived, unread, offset, batch, handling, stored, chatJobs, chatJob, told, chatSpent, restarts>>

backOffice == <<part, notifier, sync, xml, admin, plans, voice, chats>>

BackOfficeInit ==
    /\ part \in Parts
    /\ IF part = "notifier" THEN Notif!NotifierInit ELSE
          case = 0 /\ rows = 0 /\ job = 0 /\ queued = 0 /\ sends = 0 /\ lost = 0 /\ refused = 0 /\ letters = 0 /\ reading = 0
    /\ IF part = "sync" THEN Sync!SyncInit ELSE
          listed = 0 /\ secret = 0 /\ token = 0 /\ cache = 0 /\ syncing = 0 /\ waiting = 0 /\ spent = 0
    /\ IF part = "xml" THEN Xml!XmlInit ELSE
          events = 0 /\ enabled = 0 /\ parsing = 0 /\ invoices = 0 /\ completed = 0 /\ ledger = 0 /\ deliveries = 0 /\ xmlFaults = 0
    /\ IF part = "admin" THEN Admin!AdminInit ELSE
          /\ situation = 0 /\ call = 0 /\ tenants = 0 /\ invites = 0 /\ secrets = 0 /\ permissions = 0
          /\ audits = 0 /\ bucket = 0 /\ keys = 0 /\ adminFaults = 0
    /\ IF part = "plans" THEN Plans!PlanningInit ELSE request = 0 /\ stage = 0 /\ lines = 0 /\ orders = 0
    /\ IF part = "voice" THEN Voice!SimInit ELSE
          script = 0 /\ turn = 0 /\ talk = 0 /\ kept = 0 /\ idle = 0 /\ drafts = 0 /\ spend = 0 /\ mishaps = 0
    /\ IF part = "chats" THEN Chat!ChatInit ELSE
          /\ inbox = 0 /\ arrived = 0 /\ unread = 0 /\ offset = 0 /\ batch = 0 /\ handling = 0 /\ stored = 0
          /\ chatJobs = 0 /\ chatJob = 0 /\ told = 0 /\ chatSpent = 0 /\ restarts = 0

Notifies == part = "notifier" /\ Notif!NotifierNext /\ UNCHANGED <<part, sync, xml, admin, plans, voice, chats>>
Syncs == part = "sync" /\ Sync!SyncNext /\ UNCHANGED <<part, notifier, xml, admin, plans, voice, chats>>
Parses == part = "xml" /\ Xml!XmlNext /\ UNCHANGED <<part, notifier, sync, admin, plans, voice, chats>>
Administers == part = "admin" /\ Admin!AdminNext /\ UNCHANGED <<part, notifier, sync, xml, plans, voice, chats>>
PlansOrders == part = "plans" /\ Plans!PlanningNext /\ UNCHANGED <<part, notifier, sync, xml, admin, voice, chats>>
Talks == part = "voice" /\ Voice!SimNext /\ UNCHANGED <<part, notifier, sync, xml, admin, plans, chats>>
Chats == part = "chats" /\ Chat!ChatNext /\ UNCHANGED <<part, notifier, sync, xml, admin, plans, voice>>

BackOfficeNext == Notifies \/ Syncs \/ Parses \/ Administers \/ PlansOrders \/ Talks \/ Chats

BackOfficeSpec == BackOfficeInit /\ [][BackOfficeNext]_backOffice

(* What is put off is kept, the newest within the limit, until it is told  *)
(* or Telegram refuses it for good.                                        *)
PendingKept == part = "notifier" => Notif!PendingKept

(* A notification is sent or put off, and once, unless an answer was lost. *)
ToldOnce == part = "notifier" => Notif!ToldOnce

(* A sync misses no product but those a removal moved across its offset.   *)
SyncCovers == part = "sync" => Sync!SyncCovers

(* An XML invoice is stored once, whole, and before its job is completed.  *)
XmlStoredWhole == part = "xml" => Xml!XmlStoredWhole

(* A shop never has two active versions of its credentials.                *)
OneActiveSecret == part = "admin" => Admin!OneActiveSecret

(* What runs out is ordered once, in the smallest packs that last.         *)
SuggestionsLast == part = "plans" => Plans!SuggestionsLast

(* The owner's rules are kept, and give way to what the owner just said.   *)
RulesKept == part = "plans" => Plans!RulesKept

(* One yes places at most one order, for a draft that was there before it. *)
OneYesOneOrder == part = "voice" => Voice!OneYesOneOrder
(* A message is answered, once, unless something fails or is restarted.    *)
AnswersCostFaults == part = "chats" => Chat!AnswersCostFaults
=============================================================================
