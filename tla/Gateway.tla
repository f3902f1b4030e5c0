------------------------------- MODULE Gateway -------------------------------
(***************************************************************************)
(* apps/gateway: Telegram updates become jobs.  An unknown user is linked  *)
(* to a shop by an invite code (consume_invite_code); a message of a known *)
(* user passes the replay cache of its process and the unique index of     *)
(* inbound_events, and is enqueued once.                                   *)
(*                                                                         *)
(* A request is split at its awaits: other requests, of this process or of *)
(* another replica, run in between.  An update is delivered again whenever *)
(* Telegram saw no 200; in polling mode the update counts as delivered     *)
(* whatever became of it, which allows fewer deliveries, never others.    *)
(* Notifications, rate limits and attempt counters are left out: they can  *)
(* refuse a code, as an unusable code does.                                *)
(***************************************************************************)
EXTENDS TelegramUpdates

CONSTANTS
  Linked,         \* the users linked at the start, each with the code it used
  Replicas,       \* gateway processes
  Lanes,          \* requests one process has open at once
  Nothing,        \* stands for no update and no tenant
  Arrivals,       \* bound: how often each update is delivered at most, by scenario
  MaxFaults       \* bound: failed calls, lost answers and processes that die

ASSUME GatewayAssumption ==
  /\ Linked \subseteq Users \X Codes
  /\ \A m, n \in Linked : m[1] = n[1] \/ m[2] = n[2] => m = n
  /\ Nothing \notin Updates \cup Tenants
  /\ Arrivals \subseteq [Updates -> Nat] /\ MaxFaults \in Nat

Requests == Replicas \X Lanes
\* UNIQUE (tenant_id, message_id) of inbound_events, and the replay key
Keys == Tenants \X MessageIds

\* "checked" and "claimed" are inside consume_invite_code, which holds the row
\* lock of the user, and of the code as well when claimed.
Phases == {"idle", "resolve", "consume", "checked", "claimed",
           "insert", "new", "repeated", "enqueue"}
Request == [phase : Phases, update : Updates \cup {Nothing}, tenant : Tenants \cup {Nothing}]
NoRequest == [phase |-> "idle", update |-> Nothing, tenant |-> Nothing]

VARIABLES
  member,     \* tenant_users: who joined by which code
  used,       \* invite_codes with status 'used'
  events,     \* keys in inbound_events
  cache,      \* the replay cache of each process
  req,        \* the request in each lane
  left,       \* deliveries of each update that may still come
  accepted,   \* keys of the linked messages answered with 200
  issued,     \* jobs enqueued for each key
  inbox,      \* the waiting jobs for files, a bag
  faults

joins == <<member, used>>
vars == <<member, used, events, cache, req, left, accepted, issued, inbox, faults>>

Init ==
  /\ member = Linked /\ used = {m[2] : m \in Linked}
  /\ events = {} /\ cache = [g \in Replicas |-> {}]
  /\ req = [r \in Requests |-> NoRequest]
  /\ left \in Arrivals
  /\ accepted = {} /\ issued = [k \in Keys |-> 0]
  /\ inbox = [j \in FileJobs |-> 0]
  /\ faults = 0

To(r, phase) == req' = [req EXCEPT ![r].phase = phase]
Respond(r) == req' = [req EXCEPT ![r] = NoRequest]
At(r, phase) == req[r].phase = phase
Sender(r) == req[r].update.user
Code(r) == req[r].update.about
Key(r) == <<req[r].tenant, req[r].update.message_id>>
Fault == faults < MaxFaults /\ faults' = faults + 1

-----------------------------------------------------------------------------
Deliver(r, u) ==
  /\ At(r, "idle")
  /\ left[u] > 0
  /\ left' = [left EXCEPT ![u] = @ - 1]
  /\ req' = [req EXCEPT ![r] = [phase |-> "resolve", update |-> u, tenant |-> Nothing]]
  /\ UNCHANGED <<joins, events, cache, accepted, issued, inbox, faults>>

\* resolve_membership_by_platform_user_id, then the invite code of an unlinked
\* user, or the replay cache, which is looked up and set without an await.
Resolve(r) ==
  LET u == req[r].update
      tenants == {Issuer[m[2]] : m \in {x \in member : x[1] = u.user}}
  IN /\ At(r, "resolve")
     /\ \/ /\ tenants = {}
           /\ IF u.kind = "code" THEN To(r, "consume") ELSE Respond(r)
           /\ UNCHANGED <<cache, accepted>>
        \/ \E t \in tenants :
             LET k == <<t, u.message_id>>
             IN IF k \in cache[r[1]]
                THEN Respond(r) /\ accepted' = accepted \cup {k} /\ UNCHANGED cache
                ELSE /\ req' = [req EXCEPT ![r].phase = "insert", ![r].tenant = t]
                     /\ cache' = [cache EXCEPT ![r[1]] = @ \cup {k}]
                     /\ UNCHANGED accepted
     /\ UNCHANGED <<joins, events, left, issued, inbox, faults>>

\* The time to live of a replay key runs out.
Forget(g) ==
  /\ \E k \in cache[g] : cache' = [cache EXCEPT ![g] = @ \ {k}]
  /\ UNCHANGED <<joins, events, req, left, accepted, issued, inbox, faults>>

-----------------------------------------------------------------------------
(* consume_invite_code *)

\* Mutant of UserFree: the upsert does not lock the row of the user.
UserAlwaysFree(r) == TRUE
UserFree(r) == \A s \in Requests \ {r} :
                 At(s, "checked") \/ At(s, "claimed") => Sender(s) # Sender(r)

CodeFree(r) == \A s \in Requests \ {r} : At(s, "claimed") => Code(s) # Code(r)

\* The upsert of the user waits for the row, then the membership is read.
CheckUser(r) ==
  /\ At(r, "consume")
  /\ UserFree(r)
  /\ IF \E m \in member : m[1] = Sender(r) THEN Respond(r) ELSE To(r, "checked")
  /\ UNCHANGED <<joins, events, cache, left, accepted, issued, inbox, faults>>

\* FOR UPDATE SKIP LOCKED of an active code
Claimable(r) == Code(r) \notin used /\ CodeFree(r)

\* A code that is not there, not active, locked by another request, expired or
\* locked out is refused.
ClaimCode(r) ==
  /\ At(r, "checked")
  /\ \/ Claimable(r) /\ To(r, "claimed")
     \/ Respond(r)
  /\ UNCHANGED <<joins, events, cache, left, accepted, issued, inbox, faults>>

\* COMMIT: the code is used and the user linked.
Join(r) ==
  /\ At(r, "claimed")
  /\ used' = used \cup {Code(r)}
  /\ member' = member \cup {<<Sender(r), Code(r)>>}
  /\ Respond(r)
  /\ UNCHANGED <<events, cache, left, accepted, issued, inbox, faults>>

-----------------------------------------------------------------------------
(* enqueueLinkedFlow *)

\* Mutant of IsNew: the conflict on (tenant_id, message_id) is not looked at.
IsNewAlways(k) == TRUE
\* The insert returned a row.
IsNew(k) == k \notin events

Insert(r) ==
  /\ At(r, "insert")
  /\ events' = events \cup {Key(r)}
  /\ To(r, IF IsNew(Key(r)) THEN "new" ELSE "repeated")
  /\ UNCHANGED <<joins, cache, left, accepted, issued, inbox, faults>>

\* recordInboundInteraction.  A message that was stored before is accepted now,
\* and nothing else; for a new text the open questions are counted.
Touch(r) ==
  /\ \/ At(r, "new") /\ To(r, "enqueue") /\ UNCHANGED accepted
     \/ At(r, "repeated") /\ Respond(r) /\ accepted' = accepted \cup {Key(r)}
  /\ UNCHANGED <<joins, events, cache, left, issued, inbox, faults>>

Issue(r) ==
  /\ issued' = [issued EXCEPT ![Key(r)] = @ + 1]
  /\ inbox' = IF req[r].update.kind \in Files
              THEN [inbox EXCEPT ![FileJob(req[r].update, req[r].tenant, 0)] = @ + 1]
             ELSE inbox

\* Mutant of Enqueue: a photo falls through the routing.
EnqueueNoPhoto(r) ==
  /\ At(r, "enqueue")
  /\ IF req[r].update.kind = "photo" THEN UNCHANGED <<issued, inbox>> ELSE Issue(r)
  /\ accepted' = accepted \cup {Key(r)}
  /\ Respond(r)
  /\ UNCHANGED <<joins, events, cache, left, faults>>

Enqueue(r) ==
  /\ At(r, "enqueue")
  /\ Issue(r)
  /\ accepted' = accepted \cup {Key(r)}
  /\ Respond(r)
  /\ UNCHANGED <<joins, events, cache, left, faults>>

-----------------------------------------------------------------------------
(* Faults *)

\* A call fails, or its answer does not come: what it asked for has happened or
\* has not.  The request ends, with 500 or with the code refused.
Fail(r) ==
  /\ Fault
  /\ ~At(r, "idle")
  /\ \/ UNCHANGED <<joins, events, issued, inbox>>
     \/ /\ At(r, "claimed")
        /\ used' = used \cup {Code(r)} /\ member' = member \cup {<<Sender(r), Code(r)>>}
        /\ UNCHANGED <<events, issued, inbox>>
     \/ /\ At(r, "insert")
        /\ events' = events \cup {Key(r)} /\ UNCHANGED <<joins, issued, inbox>>
     \/ At(r, "enqueue") /\ Issue(r) /\ UNCHANGED <<joins, events>>
  /\ Respond(r)
  /\ UNCHANGED <<cache, left, accepted>>

\* A process dies, with its cache and its open requests.
Restart(g) ==
  /\ Fault
  /\ req' = [r \in Requests |-> IF r[1] = g THEN NoRequest ELSE req[r]]
  /\ cache' = [cache EXCEPT ![g] = {}]
  /\ UNCHANGED <<joins, events, left, accepted, issued, inbox>>

Next ==
  \/ \E r \in Requests :
       \/ \E u \in Updates : Deliver(r, u)
       \/ Resolve(r) \/ CheckUser(r) \/ ClaimCode(r) \/ Join(r)
       \/ Insert(r) \/ Touch(r) \/ Enqueue(r) \/ Fail(r)
  \/ \E g \in Replicas : Forget(g) \/ Restart(g)

Spec == Init /\ [][Next]_vars

-----------------------------------------------------------------------------
(* Properties *)

\* Users, codes, keys, requests and jobs keep their types.
TypeOK ==
  /\ member \subseteq Users \X Codes /\ used \subseteq Codes
  /\ events \subseteq Keys /\ accepted \subseteq Keys
  /\ cache \in [Replicas -> SUBSET Keys]
  /\ req \in [Requests -> Request]
  /\ left \in [Updates -> Nat]
  /\ issued \in [Keys -> Nat]
  /\ inbox \in [FileJobs -> Nat]
  /\ faults \in Nat

\* "one-user-one-tenant invariant": no race of invite codes links a user twice,
\* and no race of users uses a code twice.
OneTenantOneUse ==
  \A m, n \in member : m[1] = n[1] \/ m[2] = n[2] => m = n

\* "Replay of the same message id: 200, no duplicate processing": one job for a
\* message, across redeliveries, replicas, restarts and expired replay keys.
OneJobPerMessage == \A k \in Keys : issued[k] <= 1

\* A message that was answered with 200 is enqueued, or the request that stored
\* it still runs, unless there was a fault: the replay cache and the event row
\* of one request never make another one swallow a message.
AcceptedIsIssued ==
  faults = 0 => \A k \in accepted :
    issued[k] > 0 \/ \E r \in Requests : req[r].phase \in {"insert", "new", "enqueue"} /\ Key(r) = k
=============================================================================
