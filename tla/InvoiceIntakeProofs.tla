------------------------- MODULE InvoiceIntakeProofs -------------------------
(***************************************************************************)
(* What holds of the intake for any number of users, shops, codes,         *)
(* replicas, workers and faults.                                           *)
(***************************************************************************)
EXTENDS InvoiceIntake, FiniteSetTheorems, TLAPS

\* A request that has begun knows its update, and its shop once it is resolved.
ReqOK ==
  \A r \in Requests :
    /\ req[r].phase # "idle" => req[r].update \in Updates
    /\ req[r].phase \in {"consume", "checked", "claimed"} => req[r].update.kind = "code"
    /\ req[r].phase \in {"insert", "new", "repeated", "enqueue"} => req[r].tenant \in Tenants

GatewayTypes == TypeOK /\ ReqOK

LEMMA InitTypes == Init => GatewayTypes
BY GatewayAssumption, UpdatesAssumption
   DEF Init, GatewayTypes, TypeOK, ReqOK, Request, NoRequest, Phases, Keys

\* What the parts of a request are.
LEMMA Parts ==
  ASSUME GatewayTypes, NEW r \in Requests, req[r].phase # "idle"
  PROVE  /\ req[r].update \in Updates
         /\ Sender(r) \in Users
         /\ req[r].update.kind = "code" => Code(r) \in Codes
         /\ req[r].tenant \in Tenants => Key(r) \in Keys
BY UpdatesAssumption DEF GatewayTypes, ReqOK, Sender, Code, Key, Keys, MessageIds

\* A request that goes on to another phase.
LEMMA ToTypes ==
  ASSUME GatewayTypes, NEW r \in Requests, NEW p \in Phases, req[r].phase # "idle", To(r, p),
         p \in {"consume", "checked", "claimed"} => req[r].update.kind = "code",
         p \in {"insert", "new", "repeated", "enqueue"} => req[r].tenant \in Tenants
  PROVE  req' \in [Requests -> Request] /\ ReqOK'
<1>1. req[r] \in Request /\ req[r].update \in Updates
  BY DEF GatewayTypes, TypeOK, ReqOK
<1>2. [req[r] EXCEPT !.phase = p] \in Request
  BY <1>1 DEF Request
<1>3. req' \in [Requests -> Request]
  BY <1>2 DEF To, GatewayTypes, TypeOK
<1>4. \A s \in Requests : s # r => req'[s] = req[s]
  BY DEF To, GatewayTypes, TypeOK
<1>5. req'[r].phase = p /\ req'[r].update = req[r].update /\ req'[r].tenant = req[r].tenant
  BY <1>1 DEF To, GatewayTypes, TypeOK, Request
<1>. QED  BY <1>1, <1>3, <1>4, <1>5 DEF ReqOK, GatewayTypes

\* A request that is answered.
LEMMA RespondTypes ==
  ASSUME GatewayTypes, NEW r \in Requests, Respond(r)
  PROVE  req' \in [Requests -> Request] /\ ReqOK'
BY DEF Respond, NoRequest, GatewayTypes, TypeOK, ReqOK, Request, Phases

LEMMA DeliverTypes ==
  ASSUME GatewayTypes, NEW r \in Requests, NEW u \in Updates, Deliver(r, u)
  PROVE  GatewayTypes'
BY DEF GatewayTypes, TypeOK, ReqOK, Deliver, At, Request, Phases, joins

LEMMA ResolveTypes ==
  ASSUME GatewayTypes, NEW r \in Requests, Resolve(r)
  PROVE  GatewayTypes'
<1>. DEFINE u == req[r].update
            ts == {Issuer[m[2]] : m \in {x \in member : x[1] = u.user}}
<1>1. u \in Updates /\ r[1] \in Replicas
  BY DEF GatewayTypes, ReqOK, Resolve, At, Requests
<1>2. \A t \in ts : t \in Tenants /\ <<t, u.message_id>> \in Keys
  BY <1>1, UpdatesAssumption DEF GatewayTypes, TypeOK, Keys, MessageIds
<1>3. CASE u.kind = "code" /\ To(r, "consume") /\ UNCHANGED <<cache, accepted>>
  <2>1. req' \in [Requests -> Request] /\ ReqOK'
    BY <1>3, ToTypes DEF Resolve, At, Phases
  <2>. QED  BY <1>3, <2>1 DEF Resolve, GatewayTypes, TypeOK, joins
<1>4. CASE Respond(r) /\ UNCHANGED cache /\ accepted' \subseteq Keys
  BY <1>4, RespondTypes DEF Resolve, GatewayTypes, TypeOK, joins
<1>5. ASSUME NEW t \in ts,
             req' = [req EXCEPT ![r].phase = "insert", ![r].tenant = t],
             cache' = [cache EXCEPT ![r[1]] = @ \cup {<<t, u.message_id>>}],
             UNCHANGED accepted
      PROVE  GatewayTypes'
  <2>1. req[r] \in Request /\ t \in Tenants
    BY <1>2 DEF GatewayTypes, TypeOK
  <2>2. req'[r] = [phase |-> "insert", update |-> u, tenant |-> t]
    BY <2>1, <1>5 DEF GatewayTypes, TypeOK, Request
  <2>3. req' \in [Requests -> Request]
    BY <1>1, <2>1, <2>2, <1>5 DEF GatewayTypes, TypeOK, Request, Phases
  <2>4. \A s \in Requests : s # r => req'[s] = req[s]
    BY <1>5 DEF GatewayTypes, TypeOK
  <2>5. ReqOK'
    BY <1>1, <2>1, <2>2, <2>4 DEF GatewayTypes, ReqOK
  <2>6. cache' \in [Replicas -> SUBSET Keys]
    BY <1>1, <1>2, <1>5 DEF GatewayTypes, TypeOK
  <2>. QED  BY <2>3, <2>5, <2>6, <1>5 DEF Resolve, GatewayTypes, TypeOK, joins
<1>. QED  BY <1>1, <1>2, <1>3, <1>4, <1>5 DEF Resolve, GatewayTypes, TypeOK

LEMMA JoiningTypes ==
  ASSUME GatewayTypes, NEW r \in Requests, CheckUser(r) \/ ClaimCode(r) \/ Join(r)
  PROVE  GatewayTypes'
<1>1. CASE CheckUser(r) \/ ClaimCode(r)
  <2>1. req[r].phase # "idle" /\ req[r].update.kind = "code"
    BY <1>1 DEF CheckUser, ClaimCode, At, GatewayTypes, ReqOK
  <2>2. req' \in [Requests -> Request] /\ ReqOK'
    BY <1>1, <2>1, ToTypes, RespondTypes DEF CheckUser, ClaimCode, Phases
  <2>. QED  BY <1>1, <2>2 DEF CheckUser, ClaimCode, GatewayTypes, TypeOK, joins
<1>2. CASE Join(r)
  <2>1. Sender(r) \in Users /\ Code(r) \in Codes
    BY <1>2, Parts DEF Join, At, GatewayTypes, ReqOK
  <2>. QED  BY <1>2, <2>1 DEF Join, GatewayTypes, TypeOK, ReqOK, Respond, NoRequest, Request, Phases
<1>. QED  BY <1>1, <1>2

LEMMA FlowTypes ==
  ASSUME GatewayTypes, NEW r \in Requests, Insert(r) \/ Touch(r) \/ Enqueue(r)
  PROVE  GatewayTypes'
<1>1. Key(r) \in Keys
  BY Parts DEF Insert, Touch, Enqueue, At, GatewayTypes, ReqOK
<1>2. CASE Insert(r)
  <2>1. req' \in [Requests -> Request] /\ ReqOK'
    BY <1>2, ToTypes DEF Insert, At, GatewayTypes, ReqOK, Phases
  <2>. QED  BY <1>1, <1>2, <2>1 DEF Insert, GatewayTypes, TypeOK, joins
<1>3. CASE Touch(r)
  <2>1. req' \in [Requests -> Request] /\ ReqOK'
    BY <1>3, ToTypes, RespondTypes DEF Touch, At, GatewayTypes, ReqOK, Phases
  <2>. QED  BY <1>1, <1>3, <2>1 DEF Touch, GatewayTypes, TypeOK, joins
<1>4. CASE Enqueue(r)
  <2>1. issued' \in [Keys -> Nat]
    BY <1>1, <1>4 DEF Enqueue, Issue, GatewayTypes, TypeOK
  <2>2. inbox' \in [FileJobs -> Nat]
    <3>1. inbox' = inbox \/ \E j : inbox' = [inbox EXCEPT ![j] = @ + 1]
      BY <1>4 DEF Enqueue, Issue
    <3>. QED  BY <3>1 DEF GatewayTypes, TypeOK
  <2>. QED  BY <1>1, <1>4, <2>1, <2>2, RespondTypes DEF Enqueue, GatewayTypes, TypeOK, joins
<1>. QED  BY <1>2, <1>3, <1>4

LEMMA FailTypes ==
  ASSUME GatewayTypes, NEW r \in Requests, Fail(r)
  PROVE  GatewayTypes'
<1>1. req[r].phase # "idle"
  BY DEF Fail, At
<1>2. At(r, "claimed") => Sender(r) \in Users /\ Code(r) \in Codes
  BY Parts, <1>1 DEF At, GatewayTypes, ReqOK
<1>3. At(r, "insert") \/ At(r, "enqueue") => Key(r) \in Keys
  BY Parts, <1>1 DEF At, GatewayTypes, ReqOK
<1>4. req' \in [Requests -> Request] /\ ReqOK'
  BY DEF Fail, Respond, NoRequest, GatewayTypes, TypeOK, ReqOK, Request, Phases
<1>5. member' \subseteq Users \X Codes /\ used' \subseteq Codes
  BY <1>2 DEF Fail, GatewayTypes, TypeOK, joins
<1>6. events' \subseteq Keys
  BY <1>3 DEF Fail, GatewayTypes, TypeOK
<1>7. issued' \in [Keys -> Nat] /\ inbox' \in [FileJobs -> Nat]
  BY <1>3 DEF Fail, Issue, GatewayTypes, TypeOK
<1>. QED  BY <1>4, <1>5, <1>6, <1>7 DEF Fail, Fault, GatewayTypes, TypeOK

LEMMA ProcessTypes ==
  ASSUME GatewayTypes, NEW g \in Replicas, Forget(g) \/ Restart(g)
  PROVE  GatewayTypes'
<1>1. CASE Forget(g)
  BY <1>1 DEF Forget, GatewayTypes, TypeOK, ReqOK, joins
<1>2. CASE Restart(g)
  BY <1>2 DEF Restart, Fault, NoRequest, GatewayTypes, TypeOK, ReqOK, Request, Phases, joins
<1>. QED  BY <1>1, <1>2

LEMMA NextTypes == GatewayTypes /\ Next => GatewayTypes'
BY DeliverTypes, ResolveTypes, JoiningTypes, FlowTypes, FailTypes, ProcessTypes DEF Next
-----------------------------------------------------------------------------
(* The invite codes *)

Locked(r) == req[r].phase \in {"checked", "claimed"}

\* The row locks of consume_invite_code: what a request has checked stays true
\* until it commits.
Locks ==
  /\ \A r, s \in Requests : r # s /\ Locked(r) /\ Locked(s) => Sender(r) # Sender(s)
  /\ \A r, s \in Requests :
       r # s /\ req[r].phase = "claimed" /\ req[s].phase = "claimed" => Code(r) # Code(s)
  /\ \A r \in Requests : Locked(r) => \A m \in member : m[1] # Sender(r)
  /\ \A r \in Requests : req[r].phase = "claimed" => Code(r) \notin used

JoinInv ==
  /\ OneTenantOneUse
  /\ \A m \in member : m[2] \in used
  /\ Locks

LEMMA InitJoin == Init => JoinInv
BY GatewayAssumption DEF Init, JoinInv, OneTenantOneUse, Locks, Locked, NoRequest

\* A step that links nobody and takes no lock.
LEMMA JoinFrame ==
  ASSUME JoinInv, UNCHANGED joins, 
         \A r \in Requests : Locked(r)' => /\ req'[r].phase = req[r].phase
                                           /\ req'[r].update = req[r].update
  PROVE  JoinInv'
BY DEF JoinInv, OneTenantOneUse, Locks, Locked, joins, Sender, Code

LEMMA CheckUserJoin ==
  ASSUME GatewayTypes, JoinInv, NEW r \in Requests, CheckUser(r)
  PROVE  JoinInv'
<1>1. CASE Respond(r)
  <2>1. UNCHANGED joins
    BY DEF CheckUser
  <2>. QED  BY <1>1, <2>1, JoinFrame DEF Respond, NoRequest, Locked, GatewayTypes, TypeOK
<1>2. CASE To(r, "checked") /\ \A m \in member : m[1] # Sender(r)
  <2>1. /\ \A s \in Requests : s # r => req'[s] = req[s]
        /\ req'[r].phase = "checked" /\ req'[r].update = req[r].update
    BY <1>2 DEF To, GatewayTypes, TypeOK, Request
  <2>2. \A s \in Requests : s # r /\ Locked(s) => Sender(s) # Sender(r)
    BY DEF CheckUser, UserFree, At, Locked
  <2>3. UNCHANGED <<member, used>>
    BY DEF CheckUser, joins
  <2>. QED  BY <1>2, <2>1, <2>2, <2>3 DEF JoinInv, OneTenantOneUse, Locks, Locked, Sender, Code
<1>. QED  BY <1>1, <1>2 DEF CheckUser

LEMMA ClaimCodeJoin ==
  ASSUME GatewayTypes, JoinInv, NEW r \in Requests, ClaimCode(r)
  PROVE  JoinInv'
<1>1. CASE Respond(r)
  <2>1. UNCHANGED joins
    BY DEF ClaimCode
  <2>. QED  BY <1>1, <2>1, JoinFrame DEF Respond, NoRequest, Locked, GatewayTypes, TypeOK
<1>2. CASE To(r, "claimed") /\ Claimable(r)
  <2>1. /\ \A s \in Requests : s # r => req'[s] = req[s]
        /\ req'[r].phase = "claimed" /\ req'[r].update = req[r].update
    BY <1>2 DEF To, GatewayTypes, TypeOK, Request
  <2>2. req[r].phase = "checked"
    BY DEF ClaimCode, At
  <2>3. /\ Code(r) \notin used
        /\ \A s \in Requests : s # r /\ req[s].phase = "claimed" => Code(s) # Code(r)
    BY <1>2 DEF Claimable, CodeFree, At
  <2>4. UNCHANGED <<member, used>>
    BY DEF ClaimCode, joins
  <2>. QED  BY <2>1, <2>2, <2>3, <2>4 DEF JoinInv, OneTenantOneUse, Locks, Locked, Sender, Code
<1>. QED  BY <1>1, <1>2 DEF ClaimCode

\* The commit of consume_invite_code, which Join and a lost answer share.
LEMMA JoinJoin ==
  ASSUME GatewayTypes, JoinInv, NEW r \in Requests, req[r].phase = "claimed",
         used' = used \cup {Code(r)}, member' = member \cup {<<Sender(r), Code(r)>>}, Respond(r)
  PROVE  JoinInv'
<1>1. /\ \A s \in Requests : s # r => req'[s] = req[s]
      /\ req'[r].phase = "idle"
  BY DEF Respond, NoRequest, GatewayTypes, TypeOK
<1>2. \A s \in Requests : Locked(s)' => /\ s # r /\ Locked(s)
                                        /\ Sender(s)' = Sender(s) /\ Code(s)' = Code(s)
  BY <1>1 DEF Locked, Sender, Code
<1>3. \A m \in member : m[1] # Sender(r) /\ m[2] # Code(r)
  BY DEF JoinInv, Locks, Locked
<1>4. OneTenantOneUse' /\ \A m \in member' : m[2] \in used'
  BY <1>3 DEF JoinInv, OneTenantOneUse
<1>5. \A s \in Requests : Locked(s)' => \A m \in member' : m[1] # Sender(s)'
  BY <1>2 DEF JoinInv, Locks, Locked
<1>6. \A s \in Requests : req'[s].phase = "claimed" => Code(s)' \notin used'
  BY <1>1, <1>2 DEF JoinInv, Locks, Locked
<1>7. \A s, t \in Requests : s # t /\ Locked(s)' /\ Locked(t)' => Sender(s)' # Sender(t)'
  BY <1>2 DEF JoinInv, Locks
<1>8. \A s, t \in Requests :
        s # t /\ req'[s].phase = "claimed" /\ req'[t].phase = "claimed" => Code(s)' # Code(t)'
  BY <1>1, <1>2 DEF JoinInv, Locks, Locked
<1>. QED  BY <1>4, <1>5, <1>6, <1>7, <1>8 DEF JoinInv, Locks

LEMMA NextJoin == GatewayTypes /\ JoinInv /\ Next => JoinInv'
<1>. SUFFICES ASSUME GatewayTypes, JoinInv, Next PROVE JoinInv'
  OBVIOUS
<1>1. ASSUME NEW r \in Requests, NEW u \in Updates, Deliver(r, u) PROVE JoinInv'
  <2>1. UNCHANGED joins
    BY <1>1 DEF Deliver
  <2>. QED  BY <1>1, <2>1, JoinFrame DEF Deliver, Locked, GatewayTypes, TypeOK
<1>2. ASSUME NEW r \in Requests, Resolve(r) PROVE JoinInv'
  <2>1. UNCHANGED joins
    BY <1>2 DEF Resolve
  <2>2. \/ To(r, "consume") \/ Respond(r)
        \/ \E t : req' = [req EXCEPT ![r].phase = "insert", ![r].tenant = t]
    BY <1>2 DEF Resolve
  <2>3. req[r] \in Request /\ req \in [Requests -> Request]
    BY DEF GatewayTypes, TypeOK
  <2>4. req'[r].phase \in {"consume", "insert", "idle"}
    BY <2>2, <2>3 DEF To, Respond, NoRequest, Request
  <2>5. \A s \in Requests : s # r => req'[s] = req[s]
    BY <2>2, <2>3 DEF To, Respond
  <2>. QED  BY <2>1, <2>4, <2>5, JoinFrame DEF Locked
<1>3. ASSUME NEW r \in Requests, Join(r) PROVE JoinInv'
  BY <1>3, JoinJoin DEF Join, At
<1>4. ASSUME NEW r \in Requests, Insert(r) \/ Touch(r) \/ Enqueue(r) PROVE JoinInv'
  <2>1. UNCHANGED joins /\ req'[r].phase \in {"new", "repeated", "enqueue", "idle"}
    BY <1>4 DEF Insert, Touch, Enqueue, To, Respond, NoRequest, GatewayTypes, TypeOK, Request
  <2>2. \A s \in Requests : s # r => req'[s] = req[s]
    BY <1>4 DEF Insert, Touch, Enqueue, To, Respond, GatewayTypes, TypeOK
  <2>. QED  BY <2>1, <2>2, JoinFrame DEF Locked
<1>5. ASSUME NEW r \in Requests, Fail(r) PROVE JoinInv'
  <2>1. CASE UNCHANGED joins
    BY <1>5, <2>1, JoinFrame DEF Fail, Respond, NoRequest, Locked, GatewayTypes, TypeOK
  <2>. QED  BY <1>5, <2>1, JoinJoin DEF Fail, At
<1>6. ASSUME NEW g \in Replicas, Forget(g) \/ Restart(g) PROVE JoinInv'
  <2>1. UNCHANGED joins
    <3>1. CASE Forget(g)  BY <3>1 DEF Forget, joins
    <3>2. CASE Restart(g)  BY <3>2 DEF Restart, joins
    <3>. QED  BY <1>6, <3>1, <3>2
  <2>. QED  BY <1>6, <2>1, JoinFrame DEF Forget, Restart, NoRequest, Locked
<1>. QED  BY <1>1, <1>2, <1>3, <1>4, <1>5, <1>6, CheckUserJoin, ClaimCodeJoin DEF Next
-----------------------------------------------------------------------------
(* The messages *)

\* The request that stored the message of key k and has not enqueued its job.
Holding(r) == req[r].phase \in {"new", "enqueue"}
Serving(r) == req[r].phase \in {"insert", "new", "enqueue"}

EventInv ==
  /\ OneJobPerMessage
  /\ \A k \in Keys : k \notin events => issued[k] = 0
  /\ \A r \in Requests : Holding(r) => Key(r) \in events /\ issued[Key(r)] = 0
  /\ \A r, s \in Requests : r # s /\ Holding(r) /\ Holding(s) => Key(r) # Key(s)
  /\ \A r \in Requests : req[r].phase = "repeated" => Key(r) \in events

\* While there was no fault, a stored message is enqueued or about to be, and so
\* is every message a replay cache knows or that was answered with 200.
ServedInv ==
  faults = 0 =>
    /\ \A k \in events : issued[k] > 0 \/ \E r \in Requests : Holding(r) /\ Key(r) = k
    /\ \A k \in accepted : issued[k] > 0 \/ \E r \in Requests : Serving(r) /\ Key(r) = k
    /\ \A g \in Replicas : \A k \in cache[g] :
         issued[k] > 0 \/ \E r \in Requests : Serving(r) /\ Key(r) = k

LEMMA InitEvents == Init => EventInv /\ ServedInv
BY DEF Init, EventInv, OneJobPerMessage, ServedInv, Holding, NoRequest

\* A step in which no request comes to hold a message.
LEMMA EventFrame ==
  ASSUME EventInv, UNCHANGED <<events, issued>>,
         \A r \in Requests : req'[r].phase \in {"new", "enqueue", "repeated"} =>
           /\ req[r].phase \in {"new", "enqueue", "repeated"}
           /\ Holding(r)' => Holding(r)
           /\ req[r].phase = "repeated" <=> req'[r].phase = "repeated"
           /\ req'[r].update = req[r].update /\ req'[r].tenant = req[r].tenant
  PROVE  EventInv'
BY DEF EventInv, OneJobPerMessage, Holding, Key

\* A step that lets no request go and no counter fall.
LEMMA ServedFrame ==
  ASSUME ServedInv, UNCHANGED <<events, issued, accepted, cache>>, faults' = 0 => faults = 0,
         \A r \in Requests : Serving(r) =>
           /\ Holding(r) => Holding(r)'
           /\ Serving(r)'
           /\ req'[r].update = req[r].update /\ req'[r].tenant = req[r].tenant
  PROVE  ServedInv'
BY DEF ServedInv, Holding, Serving, Key

LEMMA InsertEvents ==
  ASSUME GatewayTypes, EventInv, ServedInv, NEW r \in Requests, Insert(r)
  PROVE  EventInv' /\ ServedInv'
<1>1. /\ Key(r) \in Keys /\ req[r].phase = "insert"
      /\ req \in [Requests -> Request] /\ issued \in [Keys -> Nat] /\ events \subseteq Keys
  BY Parts DEF Insert, At, GatewayTypes, TypeOK, ReqOK
<1>2. /\ events' = events \cup {Key(r)}
      /\ UNCHANGED <<issued, accepted, cache, faults>>
  BY DEF Insert
<1>3. /\ \A s \in Requests : s # r => req'[s] = req[s] /\ Key(s)' = Key(s)
      /\ Key(r)' = Key(r)
      /\ req'[r].phase = IF Key(r) \notin events THEN "new" ELSE "repeated"
  BY <1>1 DEF Insert, IsNew, To, Request, Key
<1>4. CASE Key(r) \notin events
  <2>1. EventInv'
    BY <1>1, <1>2, <1>3, <1>4 DEF EventInv, OneJobPerMessage, Holding
  <2>2. ServedInv'
    BY <1>1, <1>2, <1>3, <1>4 DEF ServedInv, Holding, Serving
  <2>. QED  BY <2>1, <2>2
<1>5. CASE Key(r) \in events
  <2>1. EventInv'
    BY <1>1, <1>2, <1>3, <1>5 DEF EventInv, OneJobPerMessage, Holding
  <2>2. ASSUME faults = 0, NEW k,
               issued[k] > 0 \/ \E s \in Requests : Serving(s) /\ Key(s) = k
        PROVE  issued'[k] > 0 \/ \E s \in Requests : Serving(s)' /\ Key(s)' = k
    <3>1. CASE k = Key(r)
      BY <1>1, <1>2, <1>3, <1>5, <2>2, <3>1 DEF ServedInv, Holding, Serving
    <3>2. CASE k # Key(r)
      BY <1>2, <1>3, <2>2, <3>2 DEF Serving
    <3>. QED  BY <3>1, <3>2
  <2>3. ServedInv'
    BY <1>1, <1>2, <1>3, <1>5, <2>2 DEF ServedInv, Holding, Serving
  <2>. QED  BY <2>1, <2>3
<1>. QED  BY <1>4, <1>5

LEMMA TouchEvents ==
  ASSUME GatewayTypes, EventInv, ServedInv, NEW r \in Requests, Touch(r)
  PROVE  EventInv' /\ ServedInv'
<1>1. req \in [Requests -> Request] /\ UNCHANGED <<events, issued, cache, faults>>
  BY DEF Touch, GatewayTypes, TypeOK
<1>2. \A s \in Requests : s # r => req'[s] = req[s] /\ Key(s)' = Key(s)
  BY <1>1 DEF Touch, To, Respond, Key
<1>3. CASE At(r, "new") /\ To(r, "enqueue") /\ UNCHANGED accepted
  <2>1. /\ req[r].phase = "new" /\ req'[r].phase = "enqueue"
        /\ req'[r].update = req[r].update /\ req'[r].tenant = req[r].tenant
    BY <1>1, <1>3 DEF At, To, Request
  <2>2. EventInv'
    BY <1>1, <1>2, <2>1, EventFrame DEF Holding
  <2>3. ServedInv'
    BY <1>1, <1>2, <1>3, <2>1, ServedFrame DEF Holding, Serving
  <2>. QED  BY <2>2, <2>3
<1>4. CASE At(r, "repeated") /\ Respond(r) /\ accepted' = accepted \cup {Key(r)}
  <2>1. req[r].phase = "repeated" /\ req'[r].phase = "idle"
    BY <1>1, <1>4 DEF At, Respond, NoRequest
  <2>2. EventInv'
    BY <1>1, <1>2, <2>1, EventFrame DEF Holding
  <2>3. Key(r) \in events
    BY <2>1 DEF EventInv
  <2>4. ServedInv'
    BY <1>1, <1>2, <1>4, <2>1, <2>3 DEF ServedInv, Holding, Serving
  <2>. QED  BY <2>2, <2>4
<1>. QED  BY <1>3, <1>4 DEF Touch

\* The job is enqueued, whether its request gets to know it or not.
LEMMA IssueEvents ==
  ASSUME GatewayTypes, EventInv, NEW r \in Requests, req[r].phase = "enqueue",
         Issue(r), Respond(r), UNCHANGED events
  PROVE  EventInv'
<1>1. /\ Key(r) \in Keys /\ issued \in [Keys -> Nat] /\ req \in [Requests -> Request]
  BY Parts DEF GatewayTypes, TypeOK, ReqOK
<1>2. issued' = [issued EXCEPT ![Key(r)] = 1]
  <2>1. issued[Key(r)] = 0
    BY DEF EventInv, Holding
  <2>2. issued' = [issued EXCEPT ![Key(r)] = issued[Key(r)] + 1]
    BY DEF Issue
  <2>. QED  BY <2>1, <2>2
<1>3. /\ \A s \in Requests : s # r => req'[s] = req[s] /\ Key(s)' = Key(s)
      /\ req'[r].phase = "idle"
  BY <1>1 DEF Respond, NoRequest, Key
<1>4. OneJobPerMessage'
  BY <1>1, <1>2 DEF EventInv, OneJobPerMessage
<1>5. \A k \in Keys : k \notin events' => issued'[k] = 0
  BY <1>1, <1>2 DEF EventInv, Holding
<1>6. \A s \in Requests : Holding(s)' => Key(s)' \in events' /\ issued'[Key(s)'] = 0
  BY <1>1, <1>2, <1>3 DEF EventInv, Holding
<1>7. /\ \A s \in Requests : req'[s].phase = "repeated" => Key(s)' \in events'
      /\ \A s, t \in Requests : s # t /\ Holding(s)' /\ Holding(t)' => Key(s)' # Key(t)'
  BY <1>3 DEF EventInv, Holding
<1>. QED  BY <1>4, <1>5, <1>6, <1>7 DEF EventInv

LEMMA EnqueueServed ==
  ASSUME GatewayTypes, ServedInv, NEW r \in Requests, Enqueue(r)
  PROVE  ServedInv'
<1>1. /\ Key(r) \in Keys /\ issued \in [Keys -> Nat] /\ req \in [Requests -> Request]
      /\ events \subseteq Keys /\ accepted \subseteq Keys /\ cache \in [Replicas -> SUBSET Keys]
  BY Parts DEF Enqueue, At, GatewayTypes, TypeOK, ReqOK
<1>2. /\ UNCHANGED <<events, cache, faults>> /\ accepted' = accepted \cup {Key(r)}
      /\ issued' = [issued EXCEPT ![Key(r)] = @ + 1]
  BY DEF Enqueue, Issue
<1>3. \A s \in Requests : s # r => req'[s] = req[s] /\ Key(s)' = Key(s)
  BY <1>1 DEF Enqueue, Respond, Key
<1>4. issued'[Key(r)] > 0 /\ \A k \in Keys : issued[k] > 0 => issued'[k] > 0
  BY <1>1, <1>2
<1>5. ASSUME NEW k \in Keys,
             issued[k] > 0 \/ \E s \in Requests : Serving(s) /\ Key(s) = k
      PROVE  issued'[k] > 0 \/ \E s \in Requests : Serving(s)' /\ Key(s)' = k
  BY <1>3, <1>4, <1>5 DEF Serving
<1>6. ASSUME NEW k \in Keys,
             issued[k] > 0 \/ \E s \in Requests : Holding(s) /\ Key(s) = k
      PROVE  issued'[k] > 0 \/ \E s \in Requests : Holding(s)' /\ Key(s)' = k
  BY <1>3, <1>4, <1>6 DEF Holding
<1>. QED  BY <1>1, <1>2, <1>4, <1>5, <1>6 DEF ServedInv

LEMMA ResolveEvents ==
  ASSUME GatewayTypes, EventInv, ServedInv, NEW r \in Requests, Resolve(r)
  PROVE  EventInv' /\ ServedInv'
<1>. DEFINE u == req[r].update
            ts == {Issuer[m[2]] : m \in {x \in member : x[1] = u.user}}
            K(t) == <<t, u.message_id>>
<1>1. /\ req[r] \in Request /\ req \in [Requests -> Request] /\ req[r].phase = "resolve"
      /\ r[1] \in Replicas /\ cache \in [Replicas -> SUBSET Keys]
      /\ UNCHANGED <<events, issued, faults>>
  BY DEF Resolve, At, GatewayTypes, TypeOK, Requests
<1>2. CASE (To(r, "consume") \/ Respond(r)) /\ UNCHANGED <<cache, accepted>>
  <2>1. /\ \A s \in Requests : s # r => req'[s] = req[s]
        /\ req'[r].phase \in {"consume", "idle"}
    BY <1>1, <1>2 DEF To, Respond, NoRequest, Request
  <2>2. EventInv'
    BY <1>1, <2>1, EventFrame DEF Holding
  <2>3. ServedInv'
    BY <1>1, <1>2, <2>1, ServedFrame DEF Holding, Serving
  <2>. QED  BY <2>2, <2>3
<1>3. ASSUME NEW t \in ts, K(t) \in cache[r[1]], Respond(r),
             accepted' = accepted \cup {K(t)}, UNCHANGED cache
      PROVE  EventInv' /\ ServedInv'
  <2>1. /\ \A s \in Requests : s # r => req'[s] = req[s] /\ Key(s)' = Key(s)
        /\ req'[r].phase = "idle"
    BY <1>1, <1>3 DEF Respond, NoRequest, Key
  <2>2. EventInv'
    BY <1>1, <2>1, EventFrame DEF Holding
  <2>3. ServedInv'
    BY <1>1, <1>3, <2>1 DEF ServedInv, Holding, Serving
  <2>. QED  BY <2>2, <2>3
<1>4. ASSUME NEW t \in ts,
             req' = [req EXCEPT ![r].phase = "insert", ![r].tenant = t],
             cache' = [cache EXCEPT ![r[1]] = @ \cup {K(t)}], UNCHANGED accepted
      PROVE  EventInv' /\ ServedInv'
  <2>1. /\ \A s \in Requests : s # r => req'[s] = req[s] /\ Key(s)' = Key(s)
        /\ req'[r] = [phase |-> "insert", update |-> u, tenant |-> t]
    BY <1>1, <1>4 DEF Key, Request
  <2>2. Serving(r)' /\ Key(r)' = K(t)
    BY <2>1 DEF Serving, Key
  <2>3. EventInv'
    BY <1>1, <2>1, EventFrame DEF Holding
  <2>4. ASSUME NEW k, issued[k] > 0 \/ \E s \in Requests : Serving(s) /\ Key(s) = k
        PROVE  issued'[k] > 0 \/ \E s \in Requests : Serving(s)' /\ Key(s)' = k
    BY <1>1, <2>1, <2>4 DEF Serving
  <2>5. ASSUME NEW k, issued[k] > 0 \/ \E s \in Requests : Holding(s) /\ Key(s) = k
        PROVE  issued'[k] > 0 \/ \E s \in Requests : Holding(s)' /\ Key(s)' = k
    BY <1>1, <2>1, <2>5 DEF Holding
  <2>6. \A g \in Replicas : \A k \in cache'[g] : k \in cache[g] \/ k = K(t)
    BY <1>1, <1>4
  <2>7. ServedInv'
    BY <1>1, <1>4, <2>2, <2>4, <2>5, <2>6 DEF ServedInv
  <2>. QED  BY <2>3, <2>7
<1>. QED  BY <1>2, <1>3, <1>4 DEF Resolve

LEMMA FailEvents ==
  ASSUME GatewayTypes, EventInv, NEW r \in Requests, Fail(r)
  PROVE  EventInv' /\ ServedInv'
<1>1. ServedInv'
  BY DEF Fail, Fault, ServedInv, GatewayTypes, TypeOK
<1>2. /\ req \in [Requests -> Request] /\ events \subseteq Keys /\ Respond(r)
      /\ \A s \in Requests : s # r => req'[s] = req[s] /\ Key(s)' = Key(s)
      /\ req'[r].phase = "idle"
  BY DEF Fail, Respond, NoRequest, GatewayTypes, TypeOK, Key
<1>3. CASE UNCHANGED <<events, issued>>
  BY <1>1, <1>2, <1>3, EventFrame DEF Holding
<1>4. CASE At(r, "insert") /\ events' = events \cup {Key(r)} /\ UNCHANGED issued
  BY <1>1, <1>2, <1>4 DEF EventInv, OneJobPerMessage, Holding
<1>5. CASE At(r, "enqueue") /\ Issue(r) /\ UNCHANGED events
  BY <1>1, <1>2, <1>5, IssueEvents DEF At
<1>. QED  BY <1>3, <1>4, <1>5 DEF Fail

LEMMA NextEvents == GatewayTypes /\ EventInv /\ ServedInv /\ Next => EventInv' /\ ServedInv'
<1>. SUFFICES ASSUME GatewayTypes, EventInv, ServedInv, Next PROVE EventInv' /\ ServedInv'
  OBVIOUS
<1>1. ASSUME NEW r \in Requests, NEW u \in Updates, Deliver(r, u)
      PROVE  EventInv' /\ ServedInv'
  <2>1. /\ UNCHANGED <<events, issued, accepted, cache, faults>> /\ req[r].phase = "idle"
        /\ \A s \in Requests : s # r => req'[s] = req[s]
        /\ req'[r].phase = "resolve"
    BY <1>1 DEF Deliver, At, GatewayTypes, TypeOK
  <2>. QED  BY <2>1, EventFrame, ServedFrame DEF Holding, Serving
<1>2. ASSUME NEW r \in Requests, CheckUser(r) \/ ClaimCode(r) \/ Join(r)
      PROVE  EventInv' /\ ServedInv'
  <2>1. /\ UNCHANGED <<events, issued, accepted, cache, faults>>
        /\ req[r].phase \in {"consume", "checked", "claimed"}
    BY <1>2 DEF CheckUser, ClaimCode, Join, At
  <2>2. req[r] \in Request /\ req \in [Requests -> Request]
    BY DEF GatewayTypes, TypeOK
  <2>3. To(r, "checked") \/ To(r, "claimed") \/ Respond(r)
    BY <1>2 DEF CheckUser, ClaimCode, Join
  <2>4. /\ \A s \in Requests : s # r => req'[s] = req[s]
        /\ req'[r].phase \in {"checked", "claimed", "idle"}
    BY <2>2, <2>3 DEF To, Respond, NoRequest, Request
  <2>. QED  BY <2>1, <2>4, EventFrame, ServedFrame DEF Holding, Serving
<1>3. ASSUME NEW r \in Requests, Enqueue(r) PROVE EventInv' /\ ServedInv'
  BY <1>3, IssueEvents, EnqueueServed DEF Enqueue, At
<1>4. ASSUME NEW g \in Replicas, Forget(g) PROVE EventInv' /\ ServedInv'
  <2>1. /\ UNCHANGED <<events, req, accepted, issued, faults>>
        /\ \A h \in Replicas : cache'[h] \subseteq cache[h]
    BY <1>4 DEF Forget, GatewayTypes, TypeOK
  <2>. QED  BY <2>1, EventFrame DEF ServedInv, Holding, Serving, Key
<1>5. ASSUME NEW g \in Replicas, Restart(g) PROVE EventInv' /\ ServedInv'
  <2>1. ServedInv'
    BY <1>5 DEF Restart, Fault, ServedInv, GatewayTypes, TypeOK
  <2>2. UNCHANGED <<events, issued>>
    BY <1>5 DEF Restart
  <2>3. \A s \in Requests : req'[s] = req[s] \/ req'[s].phase = "idle"
    BY <1>5 DEF Restart, NoRequest
  <2>. QED  BY <2>1, <2>2, <2>3, EventFrame DEF Holding
<1>. QED  BY <1>1, <1>2, <1>3, <1>4, <1>5, ResolveEvents, InsertEvents, TouchEvents, FailEvents DEF Next

-----------------------------------------------------------------------------
(* The parsing workers *)

HandOK ==
  \A w \in Workers : hand[w].phase # "idle" =>
    /\ hand[w].job \in Parsing!FileJobs
    /\ hand[w].fp \in Parsing!Fingerprints
    /\ hand[w].fp.kind = hand[w].job.update.kind
    /\ hand[w].fp.kind \in Files
    /\ hand[w].phase = "look" => hand[w].fp.kind = "excel"

ParsingTypes == Parsing!TypeOK /\ HandOK

\* A worker that stored a photographed invoice has yet to enqueue its mapping.
Owes(w) == hand[w].phase \in {"tell", "map"} /\ hand[w].fp.kind = "photo"

MapInv ==
  /\ PhotoMappedOnce
  /\ MappedIsStored
  /\ \A w \in Workers : hand[w].phase = "map" => invoices[hand[w].fp] # {}
  /\ \A w \in Workers : Owes(w) => invoices[hand[w].fp] # {} /\ mapped[hand[w].fp] = 0
  /\ \A v, w \in Workers : v # w /\ Owes(v) /\ Owes(w) => hand[v].fp # hand[w].fp

LEMMA SameJobs == Parsing!FileJobs = FileJobs
BY DEF Parsing!FileJobs, FileJobs, Parsing!Files, Files, Parsing!FileJob, FileJob

LEMMA JobFacts ==
  ASSUME NEW j \in Parsing!FileJobs
  PROVE  j.update \in Updates /\ j.update.kind \in Files /\ j.tenant \in Tenants
BY DEF Parsing!FileJobs, Parsing!Files, Files, Parsing!FileJob

LEMMA PrintFacts ==
  ASSUME NEW j \in Parsing!FileJobs, NEW x \in Readings
  PROVE  /\ Parsing!Fingerprint(j, x) \in Parsing!Fingerprints
         /\ Parsing!Fingerprint(j, x).kind = j.update.kind
BY DEF Parsing!Fingerprints, Parsing!Fingerprint

LEMMA InitParsing == Parsing!Init => ParsingTypes /\ MapInv
BY DEF Parsing!Init, ParsingTypes, Parsing!TypeOK, HandOK, MapInv, PhotoMappedOnce,
       MappedIsStored, Parsing!PhotoMappedOnce, Parsing!MappedIsStored, Parsing!Stored, Owes,
       Parsing!Free, Parsing!Hand, Parsing!Phases, Parsing!NoPrint

\* A step in which no worker comes to owe a mapping, or to hold a stored invoice.
LEMMA MapFrame ==
  ASSUME MapInv, UNCHANGED <<invoices, mapped>>,
         \A w \in Workers : hand'[w].phase \in {"tell", "map"} =>
           /\ hand'[w].fp = hand[w].fp
           /\ Owes(w)' => Owes(w)
           /\ hand'[w].phase = "map" => invoices[hand[w].fp] # {}
  PROVE  MapInv'
BY DEF MapInv, PhotoMappedOnce, MappedIsStored, Parsing!PhotoMappedOnce, Parsing!MappedIsStored,
       Parsing!Stored, Owes

LEMMA TakeParsing ==
  ASSUME ParsingTypes, MapInv, NEW w \in Workers, Parsing!Take(w)
  PROVE  ParsingTypes' /\ MapInv'
<1>1. PICK j \in Parsing!FileJobs, x \in Readings :
        hand' = [hand EXCEPT ![w] = [phase |-> IF j.update.kind = "excel" THEN "look" ELSE "store",
                                     job |-> j, fp |-> Parsing!Fingerprint(j, x)]]
  BY DEF Parsing!Take
<1>2. /\ hand \in [Workers -> Parsing!Hand] /\ UNCHANGED <<invoices, mapped>>
  BY DEF ParsingTypes, Parsing!TypeOK, Parsing!Take
<1>3. /\ \A v \in Workers : v # w => hand'[v] = hand[v]
      /\ hand'[w] = [phase |-> IF j.update.kind = "excel" THEN "look" ELSE "store",
                     job |-> j, fp |-> Parsing!Fingerprint(j, x)]
  BY <1>1, <1>2
<1>4. /\ hand'[w].phase \in {"look", "store"} /\ hand'[w].job = j
      /\ hand'[w].fp = Parsing!Fingerprint(j, x)
      /\ hand'[w].phase = "look" => j.update.kind = "excel"
  BY <1>3
<1>5. hand' \in [Workers -> Parsing!Hand]
  BY <1>1, <1>2, PrintFacts DEF Parsing!Hand, Parsing!Phases
<1>6. ParsingTypes'
  BY <1>2, <1>3, <1>4, <1>5, PrintFacts, JobFacts DEF ParsingTypes, Parsing!TypeOK, HandOK
<1>7. MapInv'
  BY <1>2, <1>3, <1>4, MapFrame DEF Owes, MapInv
<1>. QED  BY <1>6, <1>7

\* A worker that goes on to another phase with its job, or is done with it.
LEMMA Goes ==
  ASSUME ParsingTypes, NEW w \in Workers,
         \/ \E p \in Parsing!Phases \ {"look"} : hand[w].phase # "idle" /\ Parsing!To(w, p)
         \/ Parsing!Done(w)
  PROVE  /\ hand' \in [Workers -> Parsing!Hand] /\ HandOK'
         /\ \A v \in Workers : v # w => hand'[v] = hand[v]
         /\ \A p : Parsing!To(w, p) => /\ hand'[w].phase = p
                                       /\ hand'[w].job = hand[w].job /\ hand'[w].fp = hand[w].fp
         /\ Parsing!Done(w) => hand'[w].phase = "idle"
<1>1. hand \in [Workers -> Parsing!Hand] /\ hand[w] \in Parsing!Hand
  BY DEF ParsingTypes, Parsing!TypeOK
<1>2. ASSUME NEW p, Parsing!To(w, p)
      PROVE  /\ \A v \in Workers : v # w => hand'[v] = hand[v]
             /\ hand'[w].phase = p /\ hand'[w].job = hand[w].job /\ hand'[w].fp = hand[w].fp
  BY <1>1, <1>2 DEF Parsing!To, Parsing!Hand
<1>3. ASSUME NEW p \in Parsing!Phases \ {"look"}, Parsing!To(w, p), hand[w].phase # "idle"
      PROVE  hand' \in [Workers -> Parsing!Hand] /\ HandOK'
  <2>1. hand' \in [Workers -> Parsing!Hand]
    BY <1>1, <1>3 DEF Parsing!To, Parsing!Hand
  <2>. QED  BY <1>2, <1>3, <2>1 DEF HandOK, ParsingTypes
<1>4. CASE Parsing!Done(w)
  <2>1. /\ \A v \in Workers : v # w => hand'[v] = hand[v]
        /\ hand'[w].phase = "idle"
    BY <1>1, <1>4 DEF Parsing!Done, Parsing!Free
  <2>2. hand' \in [Workers -> Parsing!Hand]
    BY <1>1, <1>4 DEF Parsing!Done, Parsing!Free, Parsing!Hand, Parsing!Phases, Parsing!NoPrint
  <2>. QED  BY <1>2, <2>1, <2>2 DEF HandOK, ParsingTypes
<1>. QED  BY <1>2, <1>3, <1>4

LEMMA LookUpParsing ==
  ASSUME ParsingTypes, MapInv, NEW w \in Workers, Parsing!LookUp(w)
  PROVE  ParsingTypes' /\ MapInv'
<1>1. /\ hand[w].phase = "look" /\ UNCHANGED <<invoices, mapped>>
      /\ hand[w].fp.kind = "excel"
  BY DEF Parsing!LookUp, Parsing!At, ParsingTypes, HandOK
<1>2. PICK p \in {"map", "store"} :
        Parsing!To(w, p) /\ (p = "map" => invoices[hand[w].fp] # {})
  BY DEF Parsing!LookUp, Parsing!Stored
<1>3. p \in Parsing!Phases \ {"look"}
  BY DEF Parsing!Phases
<1>4. /\ hand' \in [Workers -> Parsing!Hand] /\ HandOK'
      /\ \A v \in Workers : v # w => hand'[v] = hand[v]
      /\ hand'[w].phase = p /\ hand'[w].fp = hand[w].fp
  BY <1>1, <1>2, <1>3, Goes
<1>5. ParsingTypes'
  BY <1>1, <1>4 DEF ParsingTypes, Parsing!TypeOK
<1>6. MapInv'
  BY <1>1, <1>2, <1>4, MapFrame DEF Owes, MapInv
<1>. QED  BY <1>5, <1>6

LEMMA TellParsing ==
  ASSUME ParsingTypes, MapInv, NEW w \in Workers, Parsing!Tell(w)
  PROVE  ParsingTypes' /\ MapInv'
<1>1. /\ hand[w].phase \in {"tell", "repeated"} /\ UNCHANGED <<invoices, mapped>>
      /\ hand[w].fp.kind = hand[w].job.update.kind
  BY DEF Parsing!Tell, Parsing!At, ParsingTypes, HandOK
<1>2. CASE hand[w].phase = "tell" /\ hand[w].fp.kind = "photo" /\ Parsing!To(w, "map")
  <2>1. /\ hand' \in [Workers -> Parsing!Hand] /\ HandOK'
        /\ \A v \in Workers : v # w => hand'[v] = hand[v]
        /\ hand'[w].phase = "map" /\ hand'[w].fp = hand[w].fp
    BY <1>2, Goes DEF Parsing!Phases
  <2>2. MapInv'
    BY <1>1, <1>2, <2>1, MapFrame DEF Owes, MapInv
  <2>. QED  BY <1>1, <2>1, <2>2 DEF ParsingTypes, Parsing!TypeOK
<1>3. CASE Parsing!Done(w)
  <2>1. /\ hand' \in [Workers -> Parsing!Hand] /\ HandOK'
        /\ \A v \in Workers : v # w => hand'[v] = hand[v]
        /\ hand'[w].phase = "idle"
    BY <1>3, Goes
  <2>2. MapInv'
    BY <1>1, <2>1, MapFrame DEF Owes, MapInv
  <2>. QED  BY <1>1, <2>1, <2>2 DEF ParsingTypes, Parsing!TypeOK
<1>. QED  BY <1>1, <1>2, <1>3 DEF Parsing!Tell, Parsing!At, Parsing!Kind

LEMMA Writes ==
  ASSUME ParsingTypes, NEW w \in Workers, hand[w].phase # "idle", Parsing!Write(w)
  PROVE  /\ invoices' \in [Parsing!Fingerprints -> SUBSET Updates]
         /\ \A f \in Parsing!Fingerprints : invoices[f] # {} => invoices'[f] # {}
         /\ invoices'[hand[w].fp] # {}
<1>1. hand[w].fp \in Parsing!Fingerprints /\ hand[w].job.update \in Updates
  BY JobFacts DEF ParsingTypes, HandOK
<1>. QED  BY <1>1 DEF Parsing!Write, ParsingTypes, Parsing!TypeOK

LEMMA StoreParsing ==
  ASSUME ParsingTypes, MapInv, NEW w \in Workers, Parsing!Store(w)
  PROVE  ParsingTypes' /\ MapInv'
<1>. DEFINE fp == hand[w].fp
<1>1. /\ hand[w].phase = "store" /\ UNCHANGED mapped
      /\ fp \in Parsing!Fingerprints
      /\ fp.kind = hand[w].job.update.kind /\ fp.kind \in {"photo", "excel"}
  BY DEF Parsing!Store, Parsing!At, ParsingTypes, HandOK, Files
<1>2. /\ invoices' \in [Parsing!Fingerprints -> SUBSET Updates]
      /\ \A f \in Parsing!Fingerprints : invoices[f] # {} => invoices'[f] # {}
      /\ invoices'[fp] # {}
  BY <1>1, Writes DEF Parsing!Store
<1>3. PICK p \in {"repeated", "tell", "map"} :
        /\ Parsing!To(w, p)
        /\ p \in {"tell", "map"} /\ fp.kind = "photo" => p = "tell" /\ invoices[fp] = {}
  BY <1>1 DEF Parsing!Store, Parsing!AfterWrite, Parsing!Kind, Parsing!Stored
<1>4. p \in Parsing!Phases \ {"look"}
  BY DEF Parsing!Phases
<1>5. /\ hand' \in [Workers -> Parsing!Hand] /\ HandOK'
      /\ \A v \in Workers : v # w => hand'[v] = hand[v]
      /\ hand'[w].phase = p /\ hand'[w].fp = fp
  BY <1>1, <1>3, <1>4, Goes
<1>6. ParsingTypes'
  BY <1>1, <1>2, <1>5 DEF ParsingTypes, Parsing!TypeOK
<1>7. PhotoMappedOnce' /\ MappedIsStored'
  BY <1>1, <1>2 DEF MapInv, PhotoMappedOnce, MappedIsStored, Parsing!PhotoMappedOnce,
                    Parsing!MappedIsStored, Parsing!Stored
<1>8. \A v \in Workers : hand'[v].phase # "idle" => hand'[v].fp \in Parsing!Fingerprints
  BY <1>6 DEF ParsingTypes, HandOK
<1>9. \A v \in Workers : hand'[v].phase = "map" => invoices'[hand'[v].fp] # {}
  BY <1>2, <1>5, <1>8 DEF MapInv
<1>10. Owes(w)' => invoices[fp] = {} /\ mapped[fp] = 0
  <2>1. Owes(w)' => invoices[fp] = {}
    BY <1>3, <1>5 DEF Owes
  <2>2. mapped[fp] \in Nat
    BY <1>1 DEF ParsingTypes, Parsing!TypeOK
  <2>. QED  BY <1>1, <2>1, <2>2 DEF MapInv, MappedIsStored, Parsing!MappedIsStored, Parsing!Stored
<1>11. \A v \in Workers : Owes(v)' => invoices'[hand'[v].fp] # {} /\ mapped'[hand'[v].fp] = 0
  BY <1>1, <1>2, <1>5, <1>8, <1>10 DEF MapInv, Owes
<1>12. \A u, v \in Workers : u # v /\ Owes(u)' /\ Owes(v)' => hand'[u].fp # hand'[v].fp
  BY <1>5, <1>10 DEF MapInv, Owes
<1>. QED  BY <1>6, <1>7, <1>9, <1>11, <1>12 DEF MapInv

\* MAP_RESOLVE is enqueued; the worker goes on, or throws without knowing.
LEMMA MapMaps ==
  ASSUME ParsingTypes, MapInv, NEW w \in Workers, hand[w].phase = "map",
         Parsing!EnqueueMap(w), UNCHANGED invoices,
         \A v \in Workers : v # w => hand'[v] = hand[v],
         hand'[w].phase \in {"idle", "tell"},
         hand'[w].phase = "tell" => hand'[w].fp = hand[w].fp /\ hand[w].fp.kind # "photo"
  PROVE  MapInv' /\ mapped' \in [Parsing!Fingerprints -> Nat]
<1>. DEFINE fp == hand[w].fp
<1>1. /\ fp \in Parsing!Fingerprints /\ mapped \in [Parsing!Fingerprints -> Nat]
  BY DEF ParsingTypes, HandOK, Parsing!TypeOK
<1>2. mapped' = [mapped EXCEPT ![fp] = mapped[fp] + 1]
  BY DEF Parsing!EnqueueMap
<1>3. mapped' \in [Parsing!Fingerprints -> Nat] /\ mapped'[fp] = mapped[fp] + 1
  BY <1>1, <1>2
<1>4. \A f \in Parsing!Fingerprints : f # fp => mapped'[f] = mapped[f]
  BY <1>1, <1>2
<1>5. invoices[fp] # {} /\ (fp.kind = "photo" => mapped[fp] = 0)
  BY DEF MapInv, Owes
<1>6. PhotoMappedOnce' /\ MappedIsStored'
  BY <1>3, <1>4, <1>5 DEF MapInv, PhotoMappedOnce, MappedIsStored, Parsing!PhotoMappedOnce,
                          Parsing!MappedIsStored, Parsing!Stored
<1>7. \A v \in Workers : hand'[v].phase = "map" => invoices'[hand'[v].fp] # {}
  BY DEF MapInv
<1>8. \A v \in Workers : Owes(v)' => v # w /\ Owes(v) /\ hand'[v].fp = hand[v].fp
  BY DEF Owes
<1>9. \A v \in Workers : Owes(v) => hand[v].fp \in Parsing!Fingerprints
  BY DEF Owes, ParsingTypes, HandOK
<1>10. \A v \in Workers : Owes(v)' => hand[v].fp # fp
  BY <1>8, <1>5 DEF MapInv, Owes
<1>11. \A v \in Workers : Owes(v)' => invoices'[hand'[v].fp] # {} /\ mapped'[hand'[v].fp] = 0
  BY <1>4, <1>8, <1>9, <1>10 DEF MapInv
<1>12. \A u, v \in Workers : u # v /\ Owes(u)' /\ Owes(v)' => hand'[u].fp # hand'[v].fp
  BY <1>8 DEF MapInv
<1>. QED  BY <1>3, <1>6, <1>7, <1>11, <1>12 DEF MapInv

LEMMA MapParsing ==
  ASSUME ParsingTypes, MapInv, NEW w \in Workers, Parsing!Map(w)
  PROVE  ParsingTypes' /\ MapInv'
<1>1. /\ hand[w].phase = "map" /\ Parsing!EnqueueMap(w) /\ UNCHANGED invoices
      /\ hand[w].fp.kind = hand[w].job.update.kind
  BY DEF Parsing!Map, Parsing!At, ParsingTypes, HandOK
<1>2. Parsing!Done(w) \/ (Parsing!To(w, "tell") /\ hand[w].fp.kind # "photo")
  BY <1>1 DEF Parsing!Map, Parsing!Kind
<1>3. "tell" \in Parsing!Phases \ {"look"}
  BY DEF Parsing!Phases
<1>4. /\ hand' \in [Workers -> Parsing!Hand] /\ HandOK'
      /\ \A v \in Workers : v # w => hand'[v] = hand[v]
      /\ hand'[w].phase \in {"idle", "tell"}
      /\ hand'[w].phase = "tell" => hand'[w].fp = hand[w].fp /\ hand[w].fp.kind # "photo"
  BY <1>1, <1>2, <1>3, Goes
<1>5. MapInv' /\ mapped' \in [Parsing!Fingerprints -> Nat]
  BY <1>1, <1>4, MapMaps
<1>. QED  BY <1>1, <1>4, <1>5 DEF ParsingTypes, Parsing!TypeOK

LEMMA FaultParsing ==
  ASSUME ParsingTypes, MapInv, NEW w \in Workers, Parsing!Throw(w) \/ Parsing!Crash(w)
  PROVE  ParsingTypes' /\ MapInv'
<1>1. hand[w].phase # "idle" /\ Parsing!Done(w)
  BY DEF Parsing!Throw, Parsing!Crash, Parsing!At
<1>2. /\ hand' \in [Workers -> Parsing!Hand] /\ HandOK'
      /\ \A v \in Workers : v # w => hand'[v] = hand[v]
      /\ hand'[w].phase = "idle"
  BY <1>1, Goes
<1>3. CASE UNCHANGED <<invoices, mapped>>
  BY <1>2, <1>3, MapFrame DEF Owes, MapInv, ParsingTypes, Parsing!TypeOK
<1>4. CASE hand[w].phase = "store" /\ Parsing!Write(w) /\ UNCHANGED mapped
  <2>1. /\ invoices' \in [Parsing!Fingerprints -> SUBSET Updates]
        /\ \A f \in Parsing!Fingerprints : invoices[f] # {} => invoices'[f] # {}
    BY <1>4, Writes
  <2>2. \A v \in Workers : hand[v].phase # "idle" => hand[v].fp \in Parsing!Fingerprints
    BY DEF ParsingTypes, HandOK
  <2>3. PhotoMappedOnce' /\ MappedIsStored'
    BY <1>4, <2>1 DEF MapInv, PhotoMappedOnce, MappedIsStored, Parsing!PhotoMappedOnce,
                      Parsing!MappedIsStored, Parsing!Stored
  <2>4. MapInv'
    BY <1>2, <1>4, <2>1, <2>2, <2>3 DEF MapInv, Owes
  <2>. QED  BY <1>2, <1>4, <2>1, <2>4 DEF ParsingTypes, Parsing!TypeOK
<1>5. CASE hand[w].phase = "map" /\ Parsing!EnqueueMap(w) /\ UNCHANGED invoices
  <2>1. MapInv' /\ mapped' \in [Parsing!Fingerprints -> Nat]
    BY <1>2, <1>5, MapMaps
  <2>. QED  BY <1>2, <1>5, <2>1 DEF ParsingTypes, Parsing!TypeOK
<1>. QED  BY <1>3, <1>4, <1>5 DEF Parsing!Throw, Parsing!Crash, Parsing!At

LEMMA NextParsing == ParsingTypes /\ MapInv /\ Parsing!Next => ParsingTypes' /\ MapInv'
BY TakeParsing, LookUpParsing, StoreParsing, TellParsing, MapParsing, FaultParsing DEF Parsing!Next

-----------------------------------------------------------------------------
(* The composition *)

\* What the workers do to the state of the gateway: jobs and faults only.
LEMMA WorkersAndGateway ==
  ASSUME GatewayTypes, JoinInv, EventInv, ServedInv, ParsingTypes, Parsing!Next,
         UNCHANGED <<member, used, events, cache, req, left, accepted, issued>>
  PROVE  GatewayTypes' /\ JoinInv' /\ EventInv' /\ ServedInv'
<1>1. inbox' \in [FileJobs -> Nat]
  <2>1. ASSUME NEW w \in Workers, Parsing!Take(w) PROVE inbox' \in [FileJobs -> Nat]
    <3>1. PICK j \in Parsing!FileJobs : inbox[j] > 0 /\ inbox' = [inbox EXCEPT ![j] = @ - 1]
      BY <2>1 DEF Parsing!Take, Parsing!Popped
    <3>. QED  BY <3>1, SameJobs DEF GatewayTypes, TypeOK
  <2>2. ASSUME NEW w \in Workers, Parsing!Throw(w) PROVE inbox' \in [FileJobs -> Nat]
    <3>1. inbox' = inbox \/ \E j : inbox' = [inbox EXCEPT ![j] = @ + 1]
      BY <2>2 DEF Parsing!Throw, Parsing!Retry
    <3>. QED  BY <3>1 DEF GatewayTypes, TypeOK
  <2>3. ASSUME NEW w \in Workers,
               \/ Parsing!LookUp(w) \/ Parsing!Store(w) \/ Parsing!Tell(w)
               \/ Parsing!Map(w) \/ Parsing!Crash(w)
        PROVE  inbox' \in [FileJobs -> Nat]
    BY <2>3 DEF Parsing!LookUp, Parsing!Store, Parsing!Tell, Parsing!Map, Parsing!Crash,
                GatewayTypes, TypeOK
  <2>. QED  BY <2>1, <2>2, <2>3 DEF Parsing!Next
<1>2. faults' = faults \/ faults' = faults + 1
  BY DEF Parsing!Next, Parsing!Take, Parsing!LookUp, Parsing!Store, Parsing!Tell, Parsing!Map,
         Parsing!Throw, Parsing!Crash
<1>3. faults' \in Nat /\ (faults' = 0 => faults = 0)
  BY <1>2 DEF GatewayTypes, TypeOK
<1>4. GatewayTypes'
  BY <1>1, <1>3 DEF GatewayTypes, TypeOK, ReqOK
<1>5. JoinInv'
  BY JoinFrame DEF joins
<1>6. EventInv'
  BY EventFrame DEF Holding
<1>7. ServedInv'
  BY <1>3, ServedFrame DEF Holding, Serving
<1>. QED  BY <1>4, <1>5, <1>6, <1>7

IntakeInv == GatewayTypes /\ JoinInv /\ EventInv /\ ServedInv /\ ParsingTypes /\ MapInv

\* The invariant everything else is read off.
THEOREM IntakeInvariant == IntakeSpec => []IntakeInv
<1>1. IntakeInit => IntakeInv
  BY InitTypes, InitJoin, InitEvents, InitParsing DEF IntakeInit, IntakeInv
<1>2. IntakeInv /\ [IntakeNext]_<<vars, parsing>> => IntakeInv'
  <2>. SUFFICES ASSUME IntakeInv, [IntakeNext]_<<vars, parsing>> PROVE IntakeInv'
    OBVIOUS
  <2>1. CASE Next /\ UNCHANGED parsing
    <3>1. ParsingTypes' /\ MapInv'
      BY <2>1, MapFrame DEF IntakeInv, parsing, ParsingTypes, Parsing!TypeOK, HandOK, MapInv, Owes
    <3>. QED  BY <2>1, <3>1, NextTypes, NextJoin, NextEvents DEF IntakeInv
  <2>2. CASE Parsing!Next
             /\ UNCHANGED <<member, used, events, cache, req, left, accepted, issued>>
    BY <2>2, NextParsing, WorkersAndGateway DEF IntakeInv
  <2>3. CASE UNCHANGED <<vars, parsing>>
    <3>1. GatewayTypes' /\ JoinInv'
      BY <2>3, JoinFrame DEF IntakeInv, vars, joins, GatewayTypes, TypeOK, ReqOK
    <3>2. EventInv' /\ ServedInv'
      BY <2>3, EventFrame, ServedFrame DEF IntakeInv, vars, Holding, Serving
    <3>3. ParsingTypes' /\ MapInv'
      BY <2>3, MapFrame DEF IntakeInv, parsing, ParsingTypes, Parsing!TypeOK, HandOK, MapInv, Owes
    <3>. QED  BY <3>1, <3>2, <3>3 DEF IntakeInv
  <2>. QED  BY <2>1, <2>2, <2>3 DEF IntakeNext
<1>. QED  BY <1>1, <1>2, PTL DEF IntakeSpec

\* Every table, request and job keeps its type in every instance.
THEOREM TypeCorrect == IntakeSpec => []IntakeTypeOK
<1>1. IntakeInv => IntakeTypeOK
  BY DEF IntakeInv, IntakeTypeOK, GatewayTypes, ParsingTypes
<1>. QED  BY <1>1, IntakeInvariant, PTL

\* No race of requests links a user twice or uses a code twice
\* (consume_invite_code).
THEOREM LinkedOnce == IntakeSpec => []OneTenantOneUse
<1>1. IntakeInv => OneTenantOneUse
  BY DEF IntakeInv, JoinInv
<1>. QED  BY <1>1, IntakeInvariant, PTL

\* A message is enqueued once, whatever is redelivered, restarted or forgotten.
THEOREM EnqueuedOnce == IntakeSpec => []OneJobPerMessage
<1>1. IntakeInv => OneJobPerMessage
  BY DEF IntakeInv, EventInv
<1>. QED  BY <1>1, IntakeInvariant, PTL

\* Without a fault no deduplication swallows a message.
THEOREM NothingSwallowed == IntakeSpec => []AcceptedIsIssued
<1>1. IntakeInv => AcceptedIsIssued
  BY DEF IntakeInv, ServedInv, AcceptedIsIssued, Serving
<1>. QED  BY <1>1, IntakeInvariant, PTL

\* A photographed invoice is mapped once, by whichever worker stored it.
THEOREM MappedOnce == IntakeSpec => []PhotoMappedOnce
<1>1. IntakeInv => PhotoMappedOnce
  BY DEF IntakeInv, MapInv
<1>. QED  BY <1>1, IntakeInvariant, PTL

\* The mapping never runs ahead of the commit of its invoice.
THEOREM MappedAfterCommit == IntakeSpec => []MappedIsStored
<1>1. IntakeInv => MappedIsStored
  BY DEF IntakeInv, MapInv
<1>. QED  BY <1>1, IntakeInvariant, PTL

-----------------------------------------------------------------------------
(* What becomes of a file *)

\* The shop t is the one update u is sent to, and its message has been enqueued.
Home(u, t) == \E m \in member : m[1] = u.user /\ Issuer[m[2]] = t
Known(u, t) == Home(u, t) /\ issued[<<t, u.message_id>>] > 0

Busy(w) == hand[w].phase # "idle"
Reading(w) == hand[w].phase \in {"look", "store"}

\* Whatever a request, a job, a worker or an invoice has of an update is for the
\* shop of its sender.
FileHome ==
  /\ \A r \in Requests : req[r].phase \in {"insert", "new", "repeated", "enqueue"} =>
       Home(req[r].update, req[r].tenant)
  /\ \A j \in FileJobs : inbox[j] > 0 => Known(j.update, j.tenant)
  /\ \A w \in Workers : Busy(w) => /\ Known(hand[w].job.update, hand[w].job.tenant)
                                   /\ hand[w].fp.tenant = hand[w].job.tenant
                                   /\ hand[w].fp.paper = hand[w].job.update.about
  /\ \A f \in Parsing!Fingerprints : \A u \in invoices[f] :
       Known(u, f.tenant) /\ f.kind = u.kind /\ f.paper = u.about

\* There is one live job for an update at a time, waiting or in a worker's hand.
OneLive ==
  /\ \A j, k \in FileJobs : inbox[j] > 0 /\ inbox[k] > 0 /\ j.update = k.update =>
       j = k /\ inbox[j] = 1
  /\ \A j \in FileJobs, w \in Workers : inbox[j] > 0 /\ Busy(w) => hand[w].job.update # j.update
  /\ \A v, w \in Workers : Busy(v) /\ Busy(w) /\ v # w => hand[w].job.update # hand[v].job.update

\* An update that may still become an invoice without another retry
Pending(u) == \/ \E j \in FileJobs : inbox[j] > 0 /\ j.update = u
              \/ \E w \in Workers : Reading(w) /\ hand[w].job.update = u

\* A fault pays for every invoice beyond the first, of those stored and the one
\* that may still come.
PaidFor ==
  \A u \in Updates :
    /\ IsFiniteSet(StoredFor(u))
    /\ Cardinality(StoredFor(u)) + (IF Pending(u) THEN 1 ELSE 0) <= 1 + faults

\* A worker is about to enqueue the mapping of f.
Owed(f) == \E w \in Workers :
             /\ hand[w].fp = f
             /\ hand[w].phase = "map" \/ (hand[w].phase = "tell" /\ f.kind = "photo")

\* The invoices nobody is or will be asked to map
Forgotten == {f \in Parsing!Fingerprints : invoices[f] # {} /\ mapped[f] = 0 /\ ~Owed(f)}
FewForgotten == IsFiniteSet(Forgotten) /\ Cardinality(Forgotten) <= faults

Bearers(k) == {u \in Updates : u.message_id = k[2]}

\* The file of update u, enqueued for shop t, has come to one of three places.
UnderWay(u, t) ==
  \/ \E j \in FileJobs : inbox[j] > 0 /\ j.update = u /\ j.tenant = t
  \/ \E w \in Workers : Reading(w) /\ hand[w].job.update = u /\ hand[w].job.tenant = t
  \/ \E f \in Parsing!Fingerprints :
       f.tenant = t /\ f.kind = u.kind /\ f.paper = u.about /\ invoices[f] # {}

NoneDropped ==
  faults = 0 => \A k \in Keys :
    issued[k] > 0 /\ (\A u \in Bearers(k) : u.kind \in Files) =>
      \E u \in Bearers(k) : UnderWay(u, k[1])

FileInv == FileHome /\ OneLive /\ PaidFor /\ FewForgotten /\ NoneDropped

\* A user works for one shop.
LEMMA OneHome ==
  ASSUME IntakeInv, NEW u, NEW s, NEW t, Home(u, s), Home(u, t)
  PROVE  s = t
BY DEF IntakeInv, JoinInv, OneTenantOneUse, Home

LEMMA JobParts ==
  ASSUME NEW j \in FileJobs
  PROVE  /\ j.update \in Updates /\ j.update.kind \in Files /\ j.tenant \in Tenants
         /\ <<j.tenant, j.update.message_id>> \in Keys
         /\ j.made \in 0 .. Attempts - 1
         /\ \A m \in 0 .. Attempts - 1 : FileJob(j.update, j.tenant, m) \in FileJobs
<1>1. PICK u \in Updates, t \in Tenants, m \in 0 .. Attempts - 1 :
        u.kind \in Files /\ j = FileJob(u, t, m)
  BY DEF FileJobs
<1>2. j.update = u /\ j.tenant = t /\ j.made = m
  BY <1>1 DEF FileJob
<1>. QED  BY <1>1, <1>2 DEF FileJobs, Keys, MessageIds

LEMMA PrintParts ==
  ASSUME NEW f \in Parsing!Fingerprints
  PROVE  f.tenant \in Tenants
<1>1. PICK j \in Parsing!FileJobs, x \in Readings : f = Parsing!Fingerprint(j, x)
  BY DEF Parsing!Fingerprints
<1>. QED  BY <1>1, JobFacts DEF Parsing!Fingerprint

\* What is known of an update stays known.
LEMMA KnownStays ==
  ASSUME NEW u \in Updates, NEW t \in Tenants, Known(u, t), member \subseteq member',
         \A k \in Keys : issued[k] > 0 => issued'[k] > 0
  PROVE  Known(u, t)'
BY DEF Known, Home, Keys, MessageIds

\* What the gateway does to the part of the workers: it links users and enqueues.
LEMMA GatewayMoves ==
  ASSUME GatewayTypes, Next
  PROVE  /\ member \subseteq member'
         /\ faults' = faults \/ faults' = faults + 1
         /\ \/ UNCHANGED <<issued, inbox>>
            \/ \E r \in Requests : req[r].phase = "enqueue" /\ Issue(r)
<1>1. ASSUME NEW r \in Requests,
             \/ \E u \in Updates : Deliver(r, u)
             \/ Resolve(r) \/ CheckUser(r) \/ ClaimCode(r) \/ Join(r) \/ Insert(r) \/ Touch(r)
      PROVE  member \subseteq member' /\ UNCHANGED <<faults, issued, inbox>>
  BY <1>1 DEF Deliver, Resolve, CheckUser, ClaimCode, Join, Insert, Touch, joins
<1>2. ASSUME NEW r \in Requests, Enqueue(r)
      PROVE  UNCHANGED <<member, faults>> /\ req[r].phase = "enqueue" /\ Issue(r)
  BY <1>2 DEF Enqueue, At, joins
<1>3. ASSUME NEW r \in Requests, Fail(r)
      PROVE  /\ member \subseteq member' /\ faults' = faults + 1
             /\ UNCHANGED <<issued, inbox>> \/ (req[r].phase = "enqueue" /\ Issue(r))
  BY <1>3 DEF Fail, Fault, At, joins
<1>4. ASSUME NEW g \in Replicas, Forget(g) \/ Restart(g)
      PROVE  /\ UNCHANGED <<member, issued, inbox>>
             /\ faults' = faults \/ faults' = faults + 1
  <2>1. CASE Forget(g)  BY <2>1 DEF Forget, joins
  <2>2. CASE Restart(g)  BY <2>2 DEF Restart, Fault, joins
  <2>. QED  BY <1>4, <2>1, <2>2
<1>. QED  BY <1>1, <1>2, <1>3, <1>4 DEF Next

\* The shop of a request is the one its sender is found to work for.
LEMMA RequestsHome ==
  ASSUME GatewayTypes, FileHome, Next, NEW r \in Requests,
         req'[r].phase \in {"insert", "new", "repeated", "enqueue"}
  PROVE  Home(req[r].update, req[r].tenant)' 
<1>0. member \subseteq member' /\ req \in [Requests -> Request]
  BY GatewayMoves DEF GatewayTypes, TypeOK
<1>1. ASSUME req'[r].update = req[r].update, req'[r].tenant = req[r].tenant,
             req[r].phase \in {"insert", "new", "repeated", "enqueue"}
      PROVE  Home(req[r].update, req[r].tenant)'
  BY <1>0, <1>1 DEF FileHome, Home
<1>2. ASSUME req'[r] = req[r] PROVE Home(req[r].update, req[r].tenant)'
  BY <1>1, <1>2
<1>3. ASSUME NEW s \in Requests, Respond(s) PROVE Home(req[r].update, req[r].tenant)'
  <2>1. s # r
    BY <1>0, <1>3 DEF Respond, NoRequest
  <2>. QED  BY <1>0, <1>2, <1>3, <2>1 DEF Respond
<1>4. ASSUME NEW s \in Requests, NEW p \in Phases, To(s, p),
             p \in {"consume", "checked", "claimed"}
             \/ req[s].phase \in {"insert", "new", "repeated", "enqueue"}
      PROVE  Home(req[r].update, req[r].tenant)'
  <2>1. CASE s # r
    BY <1>0, <1>2, <1>4, <2>1 DEF To
  <2>2. CASE s = r
    <3>1. /\ req'[r].phase = p /\ req'[r].update = req[r].update
          /\ req'[r].tenant = req[r].tenant
      BY <1>0, <1>4, <2>2 DEF To, Request
    <3>. QED  BY <1>1, <1>4, <2>2, <3>1
  <2>. QED  BY <2>1, <2>2
<1>5. ASSUME NEW s \in Requests, NEW u \in Updates, Deliver(s, u)
      PROVE  Home(req[r].update, req[r].tenant)'
  <2>1. s # r
    BY <1>0, <1>5 DEF Deliver
  <2>. QED  BY <1>0, <1>2, <1>5, <2>1 DEF Deliver
<1>6. ASSUME NEW s \in Requests, Resolve(s) PROVE Home(req[r].update, req[r].tenant)'
  <2>1. CASE To(s, "consume") \/ Respond(s)
    BY <1>3, <1>4, <2>1 DEF Phases
  <2>2. ASSUME NEW t \in {Issuer[m[2]] : m \in {x \in member : x[1] = req[s].update.user}},
               req' = [req EXCEPT ![s].phase = "insert", ![s].tenant = t]
        PROVE  Home(req[r].update, req[r].tenant)'
    <3>1. CASE s # r
      BY <1>0, <1>2, <2>2, <3>1
    <3>2. CASE s = r
      <4>1. req'[r].update = req[r].update /\ req'[r].tenant = t
        BY <1>0, <2>2, <3>2 DEF Request
      <4>. QED  BY <1>0, <2>2, <3>2, <4>1 DEF Home
    <3>. QED  BY <3>1, <3>2
  <2>. QED  BY <1>6, <2>1, <2>2 DEF Resolve
<1>7. ASSUME NEW s \in Requests, CheckUser(s) \/ ClaimCode(s) \/ Join(s) \/ Enqueue(s) \/ Fail(s)
      PROVE  Home(req[r].update, req[r].tenant)'
  BY <1>3, <1>4, <1>7 DEF CheckUser, ClaimCode, Join, Enqueue, Fail, Phases
<1>8. ASSUME NEW s \in Requests, Insert(s) \/ Touch(s)
      PROVE  Home(req[r].update, req[r].tenant)'
  BY <1>3, <1>4, <1>8 DEF Insert, Touch, At, Phases
<1>9. ASSUME NEW g \in Replicas, Forget(g) \/ Restart(g)
      PROVE  Home(req[r].update, req[r].tenant)'
  <2>1. CASE Forget(g)  BY <1>2, <2>1 DEF Forget
  <2>2. CASE Restart(g)
    <3>1. req'[r] = NoRequest \/ req'[r] = req[r]
      BY <2>2 DEF Restart
    <3>. QED  BY <1>2, <3>1 DEF NoRequest
  <2>. QED  BY <1>9, <2>1, <2>2
<1>. QED  BY <1>5, <1>6, <1>7, <1>8, <1>9 DEF Next

\* Files, hands and invoices that were there before, or are known by now.
LEMMA HomeFrame ==
  ASSUME IntakeInv, IntakeInv', FileHome, member \subseteq member',
         \A k \in Keys : issued[k] > 0 => issued'[k] > 0,
         \A r \in Requests : req'[r].phase \in {"insert", "new", "repeated", "enqueue"} =>
           Home(req[r].update, req[r].tenant)',
         \A j \in FileJobs : inbox'[j] > 0 => inbox[j] > 0 \/ Known(j.update, j.tenant)',
         \A w \in Workers : Busy(w)' =>
           \/ Busy(w) /\ hand'[w].job = hand[w].job /\ hand'[w].fp = hand[w].fp
           \/ /\ Known(hand[w].job.update, hand[w].job.tenant)'
              /\ hand'[w].fp.tenant = hand'[w].job.tenant
              /\ hand'[w].fp.paper = hand'[w].job.update.about,
         \A f \in Parsing!Fingerprints : \A u \in invoices'[f] :
           \/ u \in invoices[f]
           \/ Known(u, f.tenant)' /\ f.kind = u.kind /\ f.paper = u.about
  PROVE  FileHome'
<1>1. \A u \in Updates, t \in Tenants : Known(u, t) => Known(u, t)'
  BY KnownStays
<1>2. \A j \in FileJobs : inbox'[j] > 0 => Known(j.update, j.tenant)'
  BY <1>1, JobParts DEF FileHome
<1>3. ASSUME NEW w \in Workers, Busy(w)'
      PROVE  /\ Known(hand[w].job.update, hand[w].job.tenant)'
             /\ hand'[w].fp.tenant = hand'[w].job.tenant
             /\ hand'[w].fp.paper = hand'[w].job.update.about
  <2>1. CASE Busy(w) /\ hand'[w].job = hand[w].job /\ hand'[w].fp = hand[w].fp
    <3> DEFINE j == hand[w].job
    <3>1. j \in FileJobs
      BY <2>1, SameJobs DEF Busy, IntakeInv, ParsingTypes, HandOK
    <3>2. Known(j.update, j.tenant)
      BY <2>1 DEF FileHome
    <3>3. j.update \in Updates /\ j.tenant \in Tenants
      BY <3>1, JobParts
    <3> HIDE DEF j
    <3>4. PICK u \in Updates, t \in Tenants : u = j.update /\ t = j.tenant
      BY <3>3
    <3>5. Known(u, t)'
      BY <1>1, <3>2, <3>4
    <3>6. Known(hand[w].job.update, hand[w].job.tenant)'
      BY <2>1, <3>4, <3>5 DEF j, Known, Home
    <3>. QED  BY <2>1, <3>6 DEF FileHome
  <2>. QED  BY <1>3, <2>1
<1>4. ASSUME NEW f \in Parsing!Fingerprints, NEW u \in invoices'[f]
      PROVE  Known(u, f.tenant)' /\ f.kind = u.kind /\ f.paper = u.about
  <2>1. CASE u \in invoices[f]
    <3>1. u \in Updates /\ f.tenant \in Tenants
      BY <2>1, PrintParts DEF IntakeInv, ParsingTypes, Parsing!TypeOK
    <3>2. Known(u, f.tenant) /\ f.kind = u.kind /\ f.paper = u.about
      BY <2>1 DEF FileHome
    <3>. QED  BY <1>1, <3>1, <3>2
  <2>. QED  BY <2>1
<1>. QED  BY <1>2, <1>3, <1>4 DEF FileHome

\* No job comes to life.
LEMMA LiveFrame ==
  ASSUME OneLive, \A j \in FileJobs : inbox'[j] = inbox[j],
         \A w \in Workers : Busy(w)' => Busy(w) /\ hand'[w].job = hand[w].job
  PROVE  OneLive'
BY DEF OneLive

\* No invoice is stored, and what newly may come is paid for.
LEMMA PaidFrame ==
  ASSUME IntakeInv, PaidFor, UNCHANGED invoices,
         faults' = faults \/ faults' = faults + 1,
         \A u \in Updates : Pending(u)' => Pending(u) \/ faults' = faults + 1
  PROVE  PaidFor'
<1> SUFFICES ASSUME NEW u \in Updates
             PROVE  /\ IsFiniteSet(StoredFor(u)')
                    /\ Cardinality(StoredFor(u)') + (IF Pending(u)' THEN 1 ELSE 0) <= 1 + faults'
  BY DEF PaidFor
<1>1. StoredFor(u)' = StoredFor(u)
  BY DEF StoredFor
<1>2. IsFiniteSet(StoredFor(u)) /\ faults \in Nat
  BY DEF PaidFor, IntakeInv, GatewayTypes, TypeOK
<1>3. Cardinality(StoredFor(u)) \in Nat
  BY <1>2, FS_CardinalityType
<1>4. Cardinality(StoredFor(u)) + (IF Pending(u) THEN 1 ELSE 0) <= 1 + faults
  BY DEF PaidFor
<1>. QED  BY <1>1, <1>2, <1>3, <1>4

\* No invoice is forgotten.
LEMMA ForgottenFrame ==
  ASSUME IntakeInv, FewForgotten, faults' = faults \/ faults' = faults + 1,
         Forgotten' \subseteq Forgotten
  PROVE  FewForgotten'
<1>1. IsFiniteSet(Forgotten) /\ faults \in Nat /\ Cardinality(Forgotten) <= faults
  BY DEF FewForgotten, IntakeInv, GatewayTypes, TypeOK
<1>2. IsFiniteSet(Forgotten') /\ Cardinality(Forgotten') <= Cardinality(Forgotten)
  BY <1>1, FS_Subset
<1>3. Cardinality(Forgotten) \in Nat /\ Cardinality(Forgotten') \in Nat
  BY <1>1, <1>2, FS_CardinalityType
<1>. QED  BY <1>1, <1>2, <1>3 DEF FewForgotten

\* A fault may make one invoice forgotten.
LEMMA ForgottenFault ==
  ASSUME IntakeInv, FewForgotten, faults' = faults + 1, NEW f,
         Forgotten' \subseteq Forgotten \cup {f}
  PROVE  FewForgotten'
<1>1. IsFiniteSet(Forgotten) /\ faults \in Nat /\ Cardinality(Forgotten) <= faults
  BY DEF FewForgotten, IntakeInv, GatewayTypes, TypeOK
<1>2. /\ IsFiniteSet(Forgotten \cup {f})
      /\ Cardinality(Forgotten \cup {f}) = Cardinality(Forgotten)
         \/ Cardinality(Forgotten \cup {f}) = Cardinality(Forgotten) + 1
  BY <1>1, FS_AddElement
<1>3. IsFiniteSet(Forgotten') /\ Cardinality(Forgotten') <= Cardinality(Forgotten \cup {f})
  BY <1>2, FS_Subset
<1>4. /\ Cardinality(Forgotten) \in Nat /\ Cardinality(Forgotten') \in Nat
      /\ Cardinality(Forgotten \cup {f}) \in Nat
  BY <1>1, <1>2, <1>3, FS_CardinalityType
<1>. QED  BY <1>1, <1>2, <1>3, <1>4 DEF FewForgotten

\* What is under way stays so, and nothing new is enqueued.
LEMMA DroppedFrame ==
  ASSUME NoneDropped, UNCHANGED issued, faults' = 0 => faults = 0,
         faults' = 0 => \A u \in Updates, t \in Tenants : UnderWay(u, t) => UnderWay(u, t)'
  PROVE  NoneDropped'
<1> SUFFICES ASSUME faults' = 0, NEW k \in Keys, issued[k] > 0,
                    \A u \in Bearers(k) : u.kind \in Files
             PROVE  \E u \in Bearers(k) : UnderWay(u, k[1])'
  BY DEF NoneDropped, Bearers
<1>1. PICK u \in Bearers(k) : UnderWay(u, k[1])
  BY DEF NoneDropped
<1>2. u \in Updates /\ k[1] \in Tenants
  BY DEF Bearers, Keys
<1>3. PICK t \in Tenants : t = k[1]
  BY <1>2
<1>4. UnderWay(u, t)'
  BY <1>1, <1>2, <1>3
<1>. QED  BY <1>3, <1>4

\* The state of the workers and their jobs is left alone.
LEMMA FileStill ==
  ASSUME IntakeInv, IntakeInv', FileInv, member \subseteq member',
         UNCHANGED <<issued, inbox, parsing>>,
         faults' = faults \/ faults' = faults + 1,
         \A r \in Requests : req'[r].phase \in {"insert", "new", "repeated", "enqueue"} =>
           Home(req[r].update, req[r].tenant)'
  PROVE  FileInv'
<1>1. faults \in Nat
  BY DEF IntakeInv, GatewayTypes, TypeOK
<1>2. FileHome'
  BY HomeFrame DEF FileInv, parsing, Busy
<1>3. OneLive' /\ PaidFor'
  BY LiveFrame, PaidFrame DEF FileInv, parsing, Busy, Pending, Reading
<1>4. Forgotten' = Forgotten
  BY DEF Forgotten, Owed, parsing
<1>5. FewForgotten'
  BY <1>4, ForgottenFrame DEF FileInv
<1>6. NoneDropped'
  BY <1>1, DroppedFrame DEF FileInv, UnderWay, Reading, parsing
<1>. QED  BY <1>2, <1>3, <1>5, <1>6 DEF FileInv

\* A message that has not been enqueued has no job, no worker and no invoice.
LEMMA Unheard ==
  ASSUME IntakeInv, FileInv, NEW u, NEW t, Home(u, t), ~(issued[<<t, u.message_id>>] > 0)
  PROVE  /\ \A j \in FileJobs : inbox[j] > 0 => j.update # u
         /\ \A w \in Workers : Busy(w) => hand[w].job.update # u
         /\ StoredFor(u) = {} /\ ~Pending(u)
<1>1. \A s : ~Known(u, s)
  BY OneHome DEF Known
<1>2. \A j \in FileJobs : inbox[j] > 0 => j.update # u
  BY <1>1 DEF FileInv, FileHome
<1>3. \A w \in Workers : Busy(w) => hand[w].job.update # u
  BY <1>1 DEF FileInv, FileHome
<1>4. StoredFor(u) = {}
  BY <1>1 DEF FileInv, FileHome, StoredFor
<1>5. ~Pending(u)
  BY <1>2, <1>3 DEF Pending, Reading, Busy
<1>. QED  BY <1>2, <1>3, <1>4, <1>5

\* A message is enqueued: its file, if it has one, is live now, for the first time.
LEMMA IssueFiles ==
  ASSUME IntakeInv, IntakeInv', FileInv, Next, UNCHANGED parsing,
         NEW r \in Requests, req[r].phase = "enqueue", Issue(r)
  PROVE  FileInv'
<1>0. PICK u \in Updates, t \in Tenants : u = req[r].update /\ t = req[r].tenant
  BY Parts DEF IntakeInv, GatewayTypes, ReqOK
<1>. DEFINE k == <<t, u.message_id>>
            j0 == FileJob(u, t, 0)
<1>1. /\ k \in Keys /\ Key(r) = k
      /\ issued \in [Keys -> Nat] /\ inbox \in [FileJobs -> Nat] /\ faults \in Nat
  BY <1>0, Parts DEF IntakeInv, GatewayTypes, TypeOK, ReqOK, Key
<1>2. issued[k] = 0 /\ Home(u, t)
  BY <1>0, <1>1 DEF IntakeInv, EventInv, Holding, FileInv, FileHome
<1>3. /\ member \subseteq member'
      /\ faults' = faults \/ faults' = faults + 1
      /\ UNCHANGED <<invoices, mapped, hand>>
  BY GatewayMoves DEF IntakeInv, parsing
<1>4. issued' = [issued EXCEPT ![k] = 1]
  <2>1. issued' = [issued EXCEPT ![k] = issued[k] + 1]
    BY <1>1 DEF Issue
  <2>. QED  BY <1>2, <2>1
<1>5. /\ u.kind \in Files => /\ j0 \in FileJobs /\ j0.update = u /\ j0.tenant = t
                            /\ inbox' = [inbox EXCEPT ![j0] = @ + 1]
      /\ u.kind \notin Files => inbox' = inbox
  <2>1. 0 \in 0 .. Attempts - 1
    BY UpdatesAssumption
  <2>2. u.kind \in Files => j0 \in FileJobs
    BY <2>1 DEF FileJobs
  <2>3. j0.update = u /\ j0.tenant = t
    BY DEF FileJob
  <2>4. inbox' = IF u.kind \in Files THEN [inbox EXCEPT ![j0] = @ + 1] ELSE inbox
    BY <1>0 DEF Issue
  <2>. QED  BY <2>2, <2>3, <2>4
<1>6. /\ \A j \in FileJobs : inbox[j] > 0 => j.update # u
      /\ \A w \in Workers : Busy(w) => hand[w].job.update # u
      /\ StoredFor(u) = {} /\ ~Pending(u)
  BY <1>1, <1>2, Unheard
<1>7. Known(u, t)'
  <2>1. Home(u, t)'
    BY <1>2, <1>3 DEF Home
  <2>2. issued'[<<t, u.message_id>>] = 1
    BY <1>1, <1>4
  <2>. QED  BY <2>1, <2>2 DEF Known
<1>. HIDE DEF k, j0
<1>8. \A j \in FileJobs : inbox'[j] > 0 =>
        \/ inbox'[j] = inbox[j] /\ inbox[j] > 0 /\ j.update # u
        \/ j = j0 /\ j.update = u /\ j.tenant = t /\ inbox'[j] = 1
  <2> SUFFICES ASSUME NEW j \in FileJobs, inbox'[j] > 0
               PROVE  \/ inbox'[j] = inbox[j] /\ inbox[j] > 0 /\ j.update # u
                      \/ j = j0 /\ j.update = u /\ j.tenant = t /\ inbox'[j] = 1
    OBVIOUS
  <2>1. CASE j = j0 /\ u.kind \in Files
    <3>1. ~(inbox[j0] > 0)
      BY <1>5, <1>6, <2>1
    <3>2. inbox[j0] = 0
      BY <1>1, <1>5, <2>1, <3>1
    <3>. QED  BY <1>1, <1>5, <2>1, <3>2
  <2>2. CASE ~(j = j0 /\ u.kind \in Files)
    <3>1. inbox'[j] = inbox[j]
      BY <1>1, <1>5, <2>2
    <3>. QED  BY <1>6, <3>1
  <2>. QED  BY <2>1, <2>2
<1>9. FileHome'
  <2>1. \A s \in Requests : req'[s].phase \in {"insert", "new", "repeated", "enqueue"} =>
           Home(req[s].update, req[s].tenant)'
    BY RequestsHome DEF IntakeInv, FileInv
  <2>2. \A j \in FileJobs : inbox'[j] > 0 => inbox[j] > 0 \/ Known(j.update, j.tenant)'
    BY <1>7, <1>8
  <2>3. \A q \in Keys : issued[q] > 0 => issued'[q] > 0
    BY <1>1, <1>4
  <2>4. \A w \in Workers : Busy(w)' =>
          Busy(w) /\ hand'[w].job = hand[w].job /\ hand'[w].fp = hand[w].fp
    BY <1>3 DEF Busy
  <2>5. \A f \in Parsing!Fingerprints : \A x \in invoices'[f] : x \in invoices[f]
    BY <1>3
  <2>6. FileHome /\ member \subseteq member'
    BY <1>3 DEF FileInv
  <2>. QED  BY <2>1, <2>2, <2>3, <2>4, <2>5, <2>6, HomeFrame
<1>10. OneLive'
  BY <1>3, <1>6, <1>8 DEF FileInv, OneLive, Busy
<1>11. PaidFor'
  <2> SUFFICES ASSUME NEW x \in Updates
               PROVE  /\ IsFiniteSet(StoredFor(x)')
                      /\ Cardinality(StoredFor(x)') + (IF Pending(x)' THEN 1 ELSE 0) <= 1 + faults'
    BY DEF PaidFor
  <2>1. StoredFor(x)' = StoredFor(x)
    BY <1>3 DEF StoredFor
  <2>2. CASE x = u
    <3>1. IsFiniteSet({}) /\ Cardinality({}) = 0
      BY FS_EmptySet
    <3>2. StoredFor(x)' = {}
      BY <1>6, <2>1, <2>2
    <3>. QED  BY <1>1, <1>3, <3>1, <3>2
  <2>3. CASE x # u
    <3>1. Pending(x)' => Pending(x)
      BY <1>3, <1>8, <2>3 DEF Pending, Reading
    <3>2. /\ IsFiniteSet(StoredFor(x))
          /\ Cardinality(StoredFor(x)) + (IF Pending(x) THEN 1 ELSE 0) <= 1 + faults
      BY DEF FileInv, PaidFor
    <3>3. Cardinality(StoredFor(x)) \in Nat
      BY <3>2, FS_CardinalityType
    <3>. QED  BY <1>1, <1>3, <2>1, <3>1, <3>2, <3>3
  <2>. QED  BY <2>2, <2>3
<1>12. FewForgotten'
  <2>1. Forgotten' = Forgotten
    BY <1>3 DEF Forgotten, Owed
  <2>. QED  BY <1>3, <2>1, ForgottenFrame DEF FileInv
<1>13. NoneDropped'
  <2> SUFFICES ASSUME faults' = 0, NEW q \in Keys, issued'[q] > 0,
                      \A x \in Bearers(q) : x.kind \in Files
               PROVE  \E x \in Bearers(q) : UnderWay(x, q[1])'
    BY DEF NoneDropped, Bearers
  <2>1. CASE q = k
    <3>1. u \in Bearers(q) /\ q[1] = t
      BY <2>1 DEF Bearers, k
    <3>2. inbox'[j0] > 0 /\ j0 \in FileJobs /\ j0.update = u /\ j0.tenant = t
      BY <1>1, <1>5, <3>1
    <3>3. UnderWay(u, t)'
      BY <3>2 DEF UnderWay
    <3>. QED  BY <3>1, <3>3
  <2>2. CASE q # k
    <3>1. issued[q] > 0 /\ faults = 0
      BY <1>1, <1>3, <1>4, <2>2
    <3>2. PICK x \in Bearers(q) : UnderWay(x, q[1])
      BY <3>1 DEF FileInv, NoneDropped
    <3>3. \A j \in FileJobs : inbox[j] > 0 => inbox'[j] > 0
      BY <1>1, <1>5
    <3>4. UnderWay(x, q[1])'
      BY <1>3, <3>2, <3>3 DEF UnderWay, Reading
    <3>. QED  BY <3>4
  <2>. QED  BY <2>1, <2>2
<1>. QED  BY <1>9, <1>10, <1>11, <1>12, <1>13 DEF FileInv

\* The worker w is about to enqueue the mapping of its invoice.
Owing(w) == hand[w].phase = "map" \/ (hand[w].phase = "tell" /\ hand[w].fp.kind = "photo")

LEMMA OwedOwing == \A f : Owed(f) <=> \E w \in Workers : hand[w].fp = f /\ Owing(w)
BY DEF Owed, Owing

\* The requests do not move.
LEMMA RequestsStill ==
  ASSUME FileHome, UNCHANGED <<member, req>>
  PROVE  \A r \in Requests : req'[r].phase \in {"insert", "new", "repeated", "enqueue"} =>
           Home(req[r].update, req[r].tenant)'
BY DEF FileHome, Home

\* The invoice of a worker, once stored, stands for its update.
LEMMA ReadInto ==
  ASSUME IntakeInv, FileHome, NEW w \in Workers, Busy(w)
  PROVE  /\ hand[w].fp \in Parsing!Fingerprints
         /\ hand[w].fp.tenant = hand[w].job.tenant
         /\ hand[w].fp.kind = hand[w].job.update.kind
         /\ hand[w].fp.paper = hand[w].job.update.about
         /\ hand[w].job \in FileJobs /\ hand[w].job.update \in Updates
BY SameJobs, JobParts DEF IntakeInv, ParsingTypes, HandOK, FileHome, Busy

\* A worker goes on with its job, without storing anything.
LEMMA GoesOn ==
  ASSUME IntakeInv, IntakeInv', FileInv, NEW w \in Workers, Busy(w),
         UNCHANGED <<member, req, issued, inbox, invoices, faults>>,
         \A v \in Workers : v # w => hand'[v] = hand[v],
         Busy(w)' => hand'[w].job = hand[w].job /\ hand'[w].fp = hand[w].fp,
         Reading(w)' => Reading(w),
         Reading(w) /\ ~Reading(w)' => invoices[hand[w].fp] # {},
         \A f \in Parsing!Fingerprints : mapped'[f] = 0 => mapped[f] = 0,
         Owing(w) => mapped'[hand[w].fp] # 0 \/ (Owing(w)' /\ hand'[w].fp = hand[w].fp)
  PROVE  FileInv'
<1>0. faults \in Nat
  BY DEF IntakeInv, GatewayTypes, TypeOK
<1>1. FileHome'
  <2>1. \A v \in Workers : Busy(v)' =>
          Busy(v) /\ hand'[v].job = hand[v].job /\ hand'[v].fp = hand[v].fp
    BY DEF Busy
  <2>. QED  BY <2>1, RequestsStill, HomeFrame DEF FileInv
<1>2. OneLive'
  BY LiveFrame DEF FileInv, Busy
<1>3. Reading(w)' => Reading(w) /\ hand'[w].job = hand[w].job
  BY DEF Reading, Busy
<1>4. PaidFor'
  <2>1. \A u \in Updates : Pending(u)' => Pending(u)
    BY <1>3 DEF Pending, Reading
  <2>. QED  BY <2>1, PaidFrame DEF FileInv
<1>5. FewForgotten'
  <2>1. \A f \in Parsing!Fingerprints : mapped'[f] = 0 /\ Owed(f) => Owed(f)'
    BY OwedOwing DEF Owing, Owed
  <2>2. Forgotten' \subseteq Forgotten
    BY <2>1 DEF Forgotten
  <2>. QED  BY <2>2, ForgottenFrame DEF FileInv
<1>6. NoneDropped'
  <2>1. ASSUME NEW u \in Updates, NEW t \in Tenants, UnderWay(u, t) PROVE UnderWay(u, t)'
    <3>1. CASE \E j \in FileJobs : inbox[j] > 0 /\ j.update = u /\ j.tenant = t
      BY <3>1 DEF UnderWay
    <3>2. CASE \E f \in Parsing!Fingerprints :
                 f.tenant = t /\ f.kind = u.kind /\ f.paper = u.about /\ invoices[f] # {}
      BY <3>2 DEF UnderWay
    <3>3. ASSUME NEW v \in Workers, Reading(v), hand[v].job.update = u, hand[v].job.tenant = t
          PROVE  UnderWay(u, t)'
      <4>1. CASE v # w \/ Reading(w)'
        <5>1. Reading(v)' /\ hand'[v].job = hand[v].job
          BY <1>3, <3>3, <4>1 DEF Reading
        <5>. QED  BY <3>3, <5>1 DEF UnderWay
      <4>2. CASE v = w /\ ~Reading(w)'
        BY <3>3, <4>2, ReadInto DEF UnderWay, FileInv
      <4>. QED  BY <4>1, <4>2
    <3>. QED  BY <2>1, <3>1, <3>2, <3>3 DEF UnderWay
  <2>. QED  BY <1>0, <2>1, DroppedFrame DEF FileInv
<1>. QED  BY <1>1, <1>2, <1>4, <1>5, <1>6 DEF FileInv

LEMMA LookUpFiles ==
  ASSUME IntakeInv, IntakeInv', FileInv, NEW w \in Workers,
         Parsing!LookUp(w), UNCHANGED <<member, req, issued>>
  PROVE  FileInv'
<1>1. hand[w].phase = "look" /\ UNCHANGED <<inbox, invoices, mapped, faults>>
  BY DEF Parsing!LookUp, Parsing!At
<1>2. PICK p \in {"map", "store"} :
        Parsing!To(w, p) /\ (p = "map" => invoices[hand[w].fp] # {})
  BY DEF Parsing!LookUp, Parsing!Stored
<1>3. p \in Parsing!Phases \ {"look"}
  BY DEF Parsing!Phases
<1>4. /\ \A v \in Workers : v # w => hand'[v] = hand[v]
      /\ hand'[w].phase = p /\ hand'[w].job = hand[w].job /\ hand'[w].fp = hand[w].fp
  BY <1>1, <1>2, <1>3, Goes DEF IntakeInv
<1>. QED  BY <1>1, <1>2, <1>4, GoesOn DEF Busy, Reading, Owing

LEMMA TellFiles ==
  ASSUME IntakeInv, IntakeInv', FileInv, NEW w \in Workers,
         Parsing!Tell(w), UNCHANGED <<member, req, issued>>
  PROVE  FileInv'
<1>1. /\ hand[w].phase \in {"tell", "repeated"} /\ UNCHANGED <<inbox, invoices, mapped, faults>>
      /\ hand[w].fp.kind = hand[w].job.update.kind
  BY DEF Parsing!Tell, Parsing!At, IntakeInv, ParsingTypes, HandOK
<1>2. \/ hand[w].phase = "tell" /\ hand[w].fp.kind = "photo" /\ Parsing!To(w, "map")
      \/ ~(hand[w].phase = "tell" /\ hand[w].fp.kind = "photo") /\ Parsing!Done(w)
  BY <1>1 DEF Parsing!Tell, Parsing!At, Parsing!Kind
<1>3. "map" \in Parsing!Phases \ {"look"}
  BY DEF Parsing!Phases
<1>4. /\ \A v \in Workers : v # w => hand'[v] = hand[v]
      /\ Parsing!To(w, "map") =>
           hand'[w].phase = "map" /\ hand'[w].job = hand[w].job /\ hand'[w].fp = hand[w].fp
      /\ Parsing!Done(w) => hand'[w].phase = "idle"
  BY <1>1, <1>2, <1>3, Goes DEF IntakeInv
<1>. QED  BY <1>1, <1>2, <1>4, GoesOn DEF Busy, Reading, Owing

LEMMA MapFiles ==
  ASSUME IntakeInv, IntakeInv', FileInv, NEW w \in Workers,
         Parsing!Map(w), UNCHANGED <<member, req, issued>>
  PROVE  FileInv'
<1>1. /\ hand[w].phase = "map" /\ UNCHANGED <<inbox, invoices, faults>>
      /\ hand[w].fp \in Parsing!Fingerprints /\ mapped \in [Parsing!Fingerprints -> Nat]
      /\ mapped' = [mapped EXCEPT ![hand[w].fp] = @ + 1]
  BY DEF Parsing!Map, Parsing!EnqueueMap, Parsing!At, IntakeInv, ParsingTypes, HandOK, Parsing!TypeOK
<1>2. Parsing!Done(w) \/ Parsing!To(w, "tell")
  BY DEF Parsing!Map
<1>3. "tell" \in Parsing!Phases \ {"look"}
  BY DEF Parsing!Phases
<1>4. /\ \A v \in Workers : v # w => hand'[v] = hand[v]
      /\ Parsing!To(w, "tell") =>
           hand'[w].phase = "tell" /\ hand'[w].job = hand[w].job /\ hand'[w].fp = hand[w].fp
      /\ Parsing!Done(w) => hand'[w].phase = "idle"
  BY <1>1, <1>2, <1>3, Goes DEF IntakeInv
<1>5. /\ mapped'[hand[w].fp] # 0
      /\ \A f \in Parsing!Fingerprints : mapped'[f] = 0 => mapped[f] = 0
  BY <1>1
<1>. QED  BY <1>1, <1>2, <1>4, <1>5, GoesOn DEF Busy, Reading

\* A worker takes a job.
LEMMA TakeFiles ==
  ASSUME IntakeInv, IntakeInv', FileInv, NEW w \in Workers,
         Parsing!Take(w), UNCHANGED <<member, req, issued>>
  PROVE  FileInv'
<1>1. PICK j \in FileJobs, x \in Readings :
        /\ inbox[j] > 0 /\ inbox' = [inbox EXCEPT ![j] = @ - 1]
        /\ hand' = [hand EXCEPT ![w] = [phase |-> IF j.update.kind = "excel" THEN "look" ELSE "store",
                                        job |-> j, fp |-> Parsing!Fingerprint(j, x)]]
  BY SameJobs DEF Parsing!Take, Parsing!Popped
<1>2. /\ hand \in [Workers -> Parsing!Hand] /\ UNCHANGED <<invoices, mapped, faults>>
      /\ inbox \in [FileJobs -> Nat] /\ ~Busy(w) /\ faults \in Nat
  BY DEF IntakeInv, ParsingTypes, Parsing!TypeOK, Parsing!Take, Parsing!At, Busy, GatewayTypes, TypeOK
<1>3. /\ \A v \in Workers : v # w => hand'[v] = hand[v]
      /\ Busy(w)' /\ Reading(w)' /\ hand'[w].job = j
      /\ hand'[w].fp = Parsing!Fingerprint(j, x)
  BY <1>1, <1>2 DEF Busy, Reading
<1>4. inbox[j] = 1 /\ inbox'[j] = 0 /\ \A k \in FileJobs : k # j => inbox'[k] = inbox[k]
  BY <1>1, <1>2 DEF FileInv, OneLive
<1>5. FileHome'
  <2>1. Known(j.update, j.tenant)
    BY <1>1 DEF FileInv, FileHome
  <2>2. Known(hand[w].job.update, hand[w].job.tenant)'
    BY <1>3, <2>1 DEF Known, Home
  <2>3. hand'[w].fp.tenant = j.tenant /\ hand'[w].fp.paper = j.update.about
    BY <1>3 DEF Parsing!Fingerprint
  <2>4. \A k \in FileJobs : inbox'[k] > 0 => inbox[k] > 0
    BY <1>4
  <2>5. \A v \in Workers : Busy(v)' =>
           \/ Busy(v) /\ hand'[v].job = hand[v].job /\ hand'[v].fp = hand[v].fp
           \/ /\ Known(hand[v].job.update, hand[v].job.tenant)'
              /\ hand'[v].fp.tenant = hand'[v].job.tenant
              /\ hand'[v].fp.paper = hand'[v].job.update.about
    BY <1>3, <2>2, <2>3 DEF Busy
  <2>6. FileHome /\ \A f \in Parsing!Fingerprints : \A u \in invoices'[f] : u \in invoices[f]
    BY <1>2 DEF FileInv
  <2>. QED  BY <2>4, <2>5, <2>6, RequestsStill, HomeFrame
<1>6. OneLive'
  <2>1. \A k \in FileJobs : inbox'[k] > 0 => inbox[k] > 0 /\ inbox'[k] = inbox[k] /\ k # j
    BY <1>4
  <2>2. \A k \in FileJobs : inbox'[k] > 0 => k.update # j.update
    BY <1>1, <2>1 DEF FileInv, OneLive
  <2>3. \A v \in Workers : v # w /\ Busy(v)' => Busy(v) /\ hand'[v].job = hand[v].job
                                                  /\ hand[v].job.update # j.update
    BY <1>1, <1>3 DEF FileInv, OneLive, Busy
  <2>4. \A k, m \in FileJobs : inbox'[k] > 0 /\ inbox'[m] > 0 /\ k.update = m.update =>
           k = m /\ inbox'[k] = 1
    BY <2>1 DEF FileInv, OneLive
  <2>5. \A k \in FileJobs, v \in Workers : inbox'[k] > 0 /\ Busy(v)' => hand'[v].job.update # k.update
    BY <1>3, <2>1, <2>2, <2>3 DEF FileInv, OneLive
  <2>6. \A v, y \in Workers : Busy(v)' /\ Busy(y)' /\ v # y => hand'[y].job.update # hand'[v].job.update
    BY <1>3, <2>3 DEF FileInv, OneLive
  <2>. QED  BY <2>4, <2>5, <2>6 DEF OneLive
<1>7. PaidFor'
  <2>1. \A u \in Updates : Pending(u)' => Pending(u)
    BY <1>1, <1>3, <1>4 DEF Pending, Reading
  <2>. QED  BY <1>2, <2>1, PaidFrame DEF FileInv
<1>8. FewForgotten'
  <2>1. \A f : Owed(f) => Owed(f)'
    BY <1>2, <1>3 DEF Owed, Busy
  <2>2. Forgotten' \subseteq Forgotten
    BY <1>2, <2>1 DEF Forgotten
  <2>. QED  BY <1>2, <2>2, ForgottenFrame DEF FileInv
<1>9. NoneDropped'
  <2>1. ASSUME NEW u \in Updates, NEW t \in Tenants, UnderWay(u, t) PROVE UnderWay(u, t)'
    BY <1>2, <1>3, <1>4, <2>1 DEF UnderWay, Reading, Busy
  <2>. QED  BY <1>2, <2>1, DroppedFrame DEF FileInv
<1>. QED  BY <1>5, <1>6, <1>7, <1>8, <1>9 DEF FileInv

\* What storing does: the update of the job, under the fingerprint, if it is new.
LEMMA WriteFiles ==
  ASSUME IntakeInv, FileInv, NEW w \in Workers, Busy(w), Parsing!Write(w)
  PROVE  /\ \A f \in Parsing!Fingerprints :
              /\ \A u \in invoices'[f] :
                   u \in invoices[f] \/ (f = hand[w].fp /\ u = hand[w].job.update)
              /\ invoices[f] # {} => invoices'[f] = invoices[f]
              /\ f # hand[w].fp => invoices'[f] = invoices[f]
         /\ invoices'[hand[w].fp] # {}
         /\ \A u \in Updates :
              /\ u # hand[w].job.update => StoredFor(u)' = StoredFor(u)
              /\ IsFiniteSet(StoredFor(u)')
              /\ Cardinality(StoredFor(u)') \in Nat
              /\ Cardinality(StoredFor(u)') <= Cardinality(StoredFor(u)) + 1
<1>. DEFINE fp == hand[w].fp
            u0 == hand[w].job.update
<1>1. fp \in Parsing!Fingerprints /\ u0 \in Updates
  BY ReadInto DEF FileInv
<1>2. /\ invoices \in [Parsing!Fingerprints -> SUBSET Updates]
      /\ invoices' = [invoices EXCEPT ![fp] = IF @ = {} THEN {u0} ELSE @]
  BY DEF IntakeInv, ParsingTypes, Parsing!TypeOK, Parsing!Write
<1>. HIDE DEF fp, u0
<1>3. \A f \in Parsing!Fingerprints :
        /\ \A u \in invoices'[f] : u \in invoices[f] \/ (f = fp /\ u = u0)
        /\ invoices[f] # {} => invoices'[f] = invoices[f]
        /\ f # fp => invoices'[f] = invoices[f]
  BY <1>1, <1>2
<1>4. invoices'[fp] # {}
  BY <1>1, <1>2
<1>5. ASSUME NEW u \in Updates
      PROVE  /\ u # u0 => StoredFor(u)' = StoredFor(u)
             /\ IsFiniteSet(StoredFor(u)')
             /\ Cardinality(StoredFor(u)') \in Nat
             /\ Cardinality(StoredFor(u)') <= Cardinality(StoredFor(u)) + 1
  <2>1. u # u0 => StoredFor(u)' = StoredFor(u)
    BY <1>1, <1>2 DEF StoredFor
  <2>2. StoredFor(u)' \subseteq StoredFor(u) \cup {fp}
    BY <1>1, <1>2 DEF StoredFor
  <2>3. IsFiniteSet(StoredFor(u))
    BY DEF FileInv, PaidFor
  <2>4. /\ IsFiniteSet(StoredFor(u) \cup {fp})
        /\ Cardinality(StoredFor(u) \cup {fp}) = Cardinality(StoredFor(u))
           \/ Cardinality(StoredFor(u) \cup {fp}) = Cardinality(StoredFor(u)) + 1
    BY <2>3, FS_AddElement
  <2>5. /\ IsFiniteSet(StoredFor(u)')
        /\ Cardinality(StoredFor(u)') <= Cardinality(StoredFor(u) \cup {fp})
    BY <2>2, <2>4, FS_Subset
  <2>6. /\ Cardinality(StoredFor(u)) \in Nat /\ Cardinality(StoredFor(u)') \in Nat
        /\ Cardinality(StoredFor(u) \cup {fp}) \in Nat
    BY <2>3, <2>4, <2>5, FS_CardinalityType
  <2>. QED  BY <2>1, <2>4, <2>5, <2>6
<1>. QED  BY <1>3, <1>4, <1>5 DEF fp, u0

LEMMA StoreFiles ==
  ASSUME IntakeInv, IntakeInv', FileInv, NEW w \in Workers,
         Parsing!Store(w), UNCHANGED <<member, req, issued>>
  PROVE  FileInv'
<1>. DEFINE fp == hand[w].fp
            u0 == hand[w].job.update
<1>1. /\ hand[w].phase = "store" /\ UNCHANGED <<inbox, mapped, faults>> /\ Parsing!Write(w)
      /\ Busy(w) /\ faults \in Nat
  BY DEF Parsing!Store, Parsing!At, Busy, IntakeInv, GatewayTypes, TypeOK
<1>2. /\ fp \in Parsing!Fingerprints /\ fp.kind = u0.kind /\ fp.kind \in {"photo", "excel"}
      /\ fp.tenant = hand[w].job.tenant /\ fp.paper = u0.about /\ u0 \in Updates
      /\ hand[w].job \in FileJobs
  BY <1>1, ReadInto, JobParts DEF FileInv, Files
<1>3. PICK p \in {"repeated", "tell", "map"} :
        /\ Parsing!To(w, p)
        /\ invoices[fp] = {} => p = "map" \/ (p = "tell" /\ fp.kind = "photo")
  BY <1>2 DEF Parsing!Store, Parsing!AfterWrite, Parsing!Kind, Parsing!Stored
<1>4. p \in Parsing!Phases \ {"look"}
  BY DEF Parsing!Phases
<1>5. /\ \A v \in Workers : v # w => hand'[v] = hand[v]
      /\ hand'[w].phase = p /\ hand'[w].job = hand[w].job /\ hand'[w].fp = fp
  BY <1>1, <1>3, <1>4, Goes DEF IntakeInv
<1>6. /\ \A f \in Parsing!Fingerprints :
           /\ \A u \in invoices'[f] : u \in invoices[f] \/ (f = fp /\ u = u0)
           /\ invoices[f] # {} => invoices'[f] = invoices[f]
           /\ f # fp => invoices'[f] = invoices[f]
      /\ invoices'[fp] # {}
  BY <1>1, WriteFiles
<1>7. \A u \in Updates :
        /\ u # u0 => StoredFor(u)' = StoredFor(u)
        /\ IsFiniteSet(StoredFor(u)')
        /\ Cardinality(StoredFor(u)') \in Nat
        /\ Cardinality(StoredFor(u)') <= Cardinality(StoredFor(u)) + 1
  BY <1>1, WriteFiles
<1>8. FileHome'
  <2>1. \A v \in Workers : Busy(v)' =>
          Busy(v) /\ hand'[v].job = hand[v].job /\ hand'[v].fp = hand[v].fp
    BY <1>1, <1>5 DEF Busy
  <2>2. PICK u \in Updates, t \in Tenants : u = u0 /\ t = fp.tenant
    BY <1>2, PrintParts
  <2>3. Known(u, t)'
    BY <1>1, <1>2, <2>2, KnownStays DEF FileInv, FileHome
  <2>4. \A f \in Parsing!Fingerprints : \A x \in invoices'[f] :
          \/ x \in invoices[f]
          \/ Known(x, f.tenant)' /\ f.kind = x.kind /\ f.paper = x.about
    BY <1>2, <1>6, <2>2, <2>3
  <2>5. FileHome
    BY DEF FileInv
  <2>. QED  BY <1>1, <2>1, <2>4, <2>5, RequestsStill, HomeFrame
<1>9. OneLive'
  BY <1>1, <1>5, LiveFrame DEF FileInv, Busy
<1>10. PaidFor'
  <2> SUFFICES ASSUME NEW u \in Updates
               PROVE  /\ IsFiniteSet(StoredFor(u)')
                      /\ Cardinality(StoredFor(u)') + (IF Pending(u)' THEN 1 ELSE 0) <= 1 + faults'
    BY DEF PaidFor
  <2>1. /\ IsFiniteSet(StoredFor(u))
        /\ Cardinality(StoredFor(u)) + (IF Pending(u) THEN 1 ELSE 0) <= 1 + faults
    BY DEF FileInv, PaidFor
  <2>2. Cardinality(StoredFor(u)) \in Nat
    BY <2>1, FS_CardinalityType
  <2>3. CASE u = u0
    <3>1. Pending(u)
      BY <1>1, <2>3 DEF Pending, Reading
    <3>2. ~Pending(u)'
      BY <1>1, <1>5, <2>3 DEF Pending, Reading, FileInv, OneLive, Busy
    <3>. QED  BY <1>1, <1>7, <2>1, <2>2, <3>1, <3>2
  <2>4. CASE u # u0
    <3>1. Pending(u)' => Pending(u)
      BY <1>1, <1>5 DEF Pending, Reading
    <3>. QED  BY <1>1, <1>7, <2>1, <2>2, <2>4, <3>1
  <2>. QED  BY <2>3, <2>4
<1>11. FewForgotten'
  <2>1. \A f : Owed(f) => Owed(f)'
    BY <1>1, <1>5 DEF Owed
  <2>2. invoices[fp] = {} => Owed(fp)'
    BY <1>3, <1>5 DEF Owed
  <2>3. ASSUME NEW f \in Parsing!Fingerprints, f \in Forgotten' PROVE f \in Forgotten
    <3>1. invoices'[f] # {} /\ mapped[f] = 0 /\ ~Owed(f)' /\ ~Owed(f)
      BY <1>1, <2>1, <2>3 DEF Forgotten
    <3>2. ~(f = fp /\ invoices[fp] = {})
      BY <1>3, <1>5, <3>1 DEF Owed
    <3>. QED  BY <1>6, <3>1, <3>2 DEF Forgotten
  <2>4. Forgotten' \subseteq Forgotten
    BY <2>3 DEF Forgotten
  <2>. QED  BY <1>1, <2>4, ForgottenFrame DEF FileInv
<1>12. NoneDropped'
  <2>1. ASSUME NEW u \in Updates, NEW t \in Tenants, UnderWay(u, t) PROVE UnderWay(u, t)'
    <3>1. CASE \E j \in FileJobs : inbox[j] > 0 /\ j.update = u /\ j.tenant = t
      BY <1>1, <3>1 DEF UnderWay
    <3>2. CASE \E f \in Parsing!Fingerprints :
                 f.tenant = t /\ f.kind = u.kind /\ f.paper = u.about /\ invoices[f] # {}
      BY <1>6, <3>2 DEF UnderWay
    <3>3. ASSUME NEW v \in Workers, Reading(v), hand[v].job.update = u, hand[v].job.tenant = t
          PROVE  UnderWay(u, t)'
      <4>1. CASE v # w
        BY <1>5, <3>3, <4>1 DEF UnderWay, Reading
      <4>2. CASE v = w
        BY <1>2, <1>6, <3>3, <4>2 DEF UnderWay
      <4>. QED  BY <4>1, <4>2
    <3>. QED  BY <2>1, <3>1, <3>2, <3>3 DEF UnderWay
  <2>. QED  BY <1>1, <2>1, DroppedFrame DEF FileInv
<1>. QED  BY <1>8, <1>9, <1>10, <1>11, <1>12 DEF FileInv

\* A worker fails or dies; its job may be put back, and what it was doing may have
\* been done.
LEMMA FaultFiles ==
  ASSUME IntakeInv, IntakeInv', FileInv, NEW w \in Workers,
         Parsing!Throw(w) \/ Parsing!Crash(w), UNCHANGED <<member, req, issued>>
  PROVE  FileInv'
<1>1. /\ Busy(w) /\ faults' = faults + 1 /\ faults \in Nat /\ Parsing!Done(w)
      /\ inbox \in [FileJobs -> Nat]
  BY DEF Parsing!Throw, Parsing!Crash, Parsing!At, Busy, IntakeInv, GatewayTypes, TypeOK
<1>2. PICK j \in FileJobs : j = hand[w].job
  BY <1>1, ReadInto DEF FileInv
<1>3. PICK fp \in Parsing!Fingerprints : fp = hand[w].fp
  BY <1>1, ReadInto DEF FileInv
<1>4. /\ j.update \in Updates /\ j.tenant \in Tenants
      /\ fp.kind = j.update.kind /\ fp.tenant = j.tenant /\ fp.paper = j.update.about
  BY <1>1, <1>2, <1>3, ReadInto, JobParts DEF FileInv
<1>5. /\ \A v \in Workers : v # w => hand'[v] = hand[v]
      /\ hand'[w].phase = "idle"
  BY <1>1, Goes DEF IntakeInv
<1>6. \/ UNCHANGED inbox
      \/ \E k \in FileJobs : k.update = j.update /\ k.tenant = j.tenant
                             /\ inbox' = [inbox EXCEPT ![k] = @ + 1]
  <2>1. CASE Parsing!Crash(w)
    BY <2>1 DEF Parsing!Crash
  <2>2. CASE Parsing!Throw(w) /\ j.made + 1 < Attempts
    <3>0. j.made \in 0 .. Attempts - 1
      BY JobParts
    <3>1. j.made + 1 \in 0 .. Attempts - 1
      BY <2>2, <3>0, UpdatesAssumption
    <3>2. FileJob(j.update, j.tenant, j.made + 1) \in FileJobs
      BY <3>1, JobParts
    <3>3. inbox' = [inbox EXCEPT ![FileJob(j.update, j.tenant, j.made + 1)] = @ + 1]
      BY <1>2, <2>2 DEF Parsing!Throw, Parsing!Retry, Parsing!FileJob, FileJob
    <3>. QED  BY <3>2, <3>3 DEF FileJob
  <2>3. CASE Parsing!Throw(w) /\ ~(j.made + 1 < Attempts)
    BY <1>2, <2>3 DEF Parsing!Throw, Parsing!Retry
  <2>. QED  BY <2>1, <2>2, <2>3
<1>7. /\ \A k \in FileJobs : inbox[k] > 0 => k.update # j.update
      /\ \A v \in Workers : v # w /\ Busy(v) => hand[v].job.update # j.update
  BY <1>1, <1>2 DEF FileInv, OneLive
<1>8. \A k \in FileJobs : inbox'[k] > 0 =>
        \/ inbox'[k] = inbox[k]
        \/ /\ k.update = j.update /\ k.tenant = j.tenant /\ inbox'[k] = 1
           /\ \A m \in FileJobs : m # k => inbox'[m] = inbox[m]
  <2>1. \A k \in FileJobs : k.update = j.update => inbox[k] = 0
    BY <1>1, <1>7
  <2>. QED  BY <1>1, <1>6, <2>1
<1>9. \/ UNCHANGED invoices
      \/ Reading(w) /\ Parsing!Write(w)
  BY DEF Parsing!Throw, Parsing!Crash, Parsing!At, Reading
<1>10. /\ \A f \in Parsing!Fingerprints :
            /\ \A u \in invoices'[f] : u \in invoices[f] \/ (f = fp /\ u = j.update)
            /\ f # fp => invoices'[f] = invoices[f]
  BY <1>1, <1>2, <1>3, <1>9, WriteFiles
<1>11. \A f \in Parsing!Fingerprints : f # fp => mapped'[f] = mapped[f]
  BY <1>3 DEF Parsing!Throw, Parsing!Crash, Parsing!EnqueueMap, IntakeInv, ParsingTypes,
              Parsing!TypeOK
<1>12. FileHome'
  <2>1. Known(j.update, j.tenant)'
    BY <1>1, <1>2, <1>4, KnownStays DEF FileInv, FileHome
  <2>2. \A k \in FileJobs : inbox'[k] > 0 => inbox[k] > 0 \/ Known(k.update, k.tenant)'
    BY <1>8, <2>1
  <2>3. \A v \in Workers : Busy(v)' =>
          Busy(v) /\ hand'[v].job = hand[v].job /\ hand'[v].fp = hand[v].fp
    BY <1>5 DEF Busy
  <2>4. \A f \in Parsing!Fingerprints : \A u \in invoices'[f] :
          \/ u \in invoices[f]
          \/ Known(u, f.tenant)' /\ f.kind = u.kind /\ f.paper = u.about
    BY <1>4, <1>10, <2>1
  <2>5. FileHome
    BY DEF FileInv
  <2>. QED  BY <2>2, <2>3, <2>4, <2>5, RequestsStill, HomeFrame
<1>13. OneLive'
  <2>1. ASSUME NEW k \in FileJobs, NEW m \in FileJobs, inbox'[k] > 0, inbox'[m] > 0,
               k.update = m.update
        PROVE  k = m /\ inbox'[k] = 1
    BY <1>7, <1>8, <2>1 DEF FileInv, OneLive
  <2>2. ASSUME NEW k \in FileJobs, NEW v \in Workers, inbox'[k] > 0, Busy(v)'
        PROVE  hand'[v].job.update # k.update
    <3>1. v # w /\ Busy(v) /\ hand'[v] = hand[v]
      BY <1>5, <2>2 DEF Busy
    <3>. QED  BY <1>7, <1>8, <2>2, <3>1 DEF FileInv, OneLive
  <2>3. ASSUME NEW v \in Workers, NEW y \in Workers, Busy(v)', Busy(y)', v # y
        PROVE  hand'[y].job.update # hand'[v].job.update
    BY <1>5, <2>3 DEF FileInv, OneLive, Busy
  <2>. QED  BY <2>1, <2>2, <2>3 DEF OneLive
<1>14. PaidFor'
  <2> SUFFICES ASSUME NEW u \in Updates
               PROVE  /\ IsFiniteSet(StoredFor(u)')
                      /\ Cardinality(StoredFor(u)') + (IF Pending(u)' THEN 1 ELSE 0) <= 1 + faults'
    BY DEF PaidFor
  <2>1. /\ IsFiniteSet(StoredFor(u))
        /\ Cardinality(StoredFor(u)) + (IF Pending(u) THEN 1 ELSE 0) <= 1 + faults
    BY DEF FileInv, PaidFor
  <2>2. Cardinality(StoredFor(u)) \in Nat
    BY <2>1, FS_CardinalityType
  <2>3. CASE UNCHANGED invoices
    <3>1. StoredFor(u)' = StoredFor(u)
      BY <2>3 DEF StoredFor
    <3>. QED  BY <1>1, <2>1, <2>2, <3>1
  <2>4. CASE Reading(w) /\ Parsing!Write(w)
    <3>1. /\ u # j.update => StoredFor(u)' = StoredFor(u)
          /\ IsFiniteSet(StoredFor(u)') /\ Cardinality(StoredFor(u)') \in Nat
          /\ Cardinality(StoredFor(u)') <= Cardinality(StoredFor(u)) + 1
      BY <1>1, <1>2, <2>4, WriteFiles
    <3>2. CASE u = j.update
      <4>1. Pending(u)
        BY <1>2, <2>4, <3>2 DEF Pending
      <4>. QED  BY <1>1, <2>1, <2>2, <3>1, <4>1
    <3>3. CASE u # j.update
      BY <1>1, <2>1, <2>2, <3>1, <3>3
    <3>. QED  BY <3>2, <3>3
  <2>. QED  BY <1>9, <2>3, <2>4
<1>15. FewForgotten'
  <2>1. \A f : f # fp /\ Owed(f) => Owed(f)'
    BY <1>3, <1>5 DEF Owed
  <2>2. Forgotten' \subseteq Forgotten \cup {fp}
    BY <1>10, <1>11, <2>1 DEF Forgotten
  <2>. QED  BY <1>1, <2>2, ForgottenFault DEF FileInv
<1>16. NoneDropped'
  BY <1>1 DEF NoneDropped
<1>. QED  BY <1>12, <1>13, <1>14, <1>15, <1>16 DEF FileInv

LEMMA WorkerFiles ==
  ASSUME IntakeInv, IntakeInv', FileInv, Parsing!Next, UNCHANGED <<member, req, issued>>
  PROVE  FileInv'
BY TakeFiles, LookUpFiles, StoreFiles, TellFiles, MapFiles, FaultFiles DEF Parsing!Next

LEMMA InitFiles == IntakeInit => FileInv
<1> SUFFICES ASSUME IntakeInit PROVE FileInv
  OBVIOUS
<1>1. /\ \A j \in FileJobs : inbox[j] = 0
      /\ \A w \in Workers : ~Busy(w) /\ ~Reading(w)
      /\ \A r \in Requests : req[r].phase = "idle"
      /\ \A k \in Keys : issued[k] = 0
      /\ \A f \in Parsing!Fingerprints : invoices[f] = {}
      /\ faults = 0
  BY DEF IntakeInit, Init, Parsing!Init, Parsing!Free, NoRequest, Busy, Reading
<1>2. IsFiniteSet({}) /\ Cardinality({}) = 0
  BY FS_EmptySet
<1>3. FileHome /\ OneLive
  BY <1>1 DEF FileHome, OneLive
<1>4. PaidFor
  <2>1. \A u \in Updates : StoredFor(u) = {} /\ ~Pending(u)
    BY <1>1 DEF StoredFor, Pending
  <2>. QED  BY <1>1, <1>2, <2>1 DEF PaidFor
<1>5. FewForgotten
  <2>1. Forgotten = {}
    BY <1>1 DEF Forgotten
  <2>. QED  BY <1>1, <1>2, <2>1 DEF FewForgotten
<1>6. NoneDropped
  BY <1>1 DEF NoneDropped
<1>. QED  BY <1>3, <1>4, <1>5, <1>6 DEF FileInv

\* Where the files are, in every reachable state.
LEMMA FileInvariant == IntakeSpec => [](IntakeInv /\ FileInv)
<1>1. IntakeInv /\ IntakeInv' /\ FileInv /\ [IntakeNext]_<<vars, parsing>> => FileInv'
  <2> SUFFICES ASSUME IntakeInv, IntakeInv', FileInv, [IntakeNext]_<<vars, parsing>>
               PROVE  FileInv'
    OBVIOUS
  <2>1. CASE Next /\ UNCHANGED parsing
    <3>1. /\ member \subseteq member'
          /\ faults' = faults \/ faults' = faults + 1
          /\ \/ UNCHANGED <<issued, inbox>>
             \/ \E r \in Requests : req[r].phase = "enqueue" /\ Issue(r)
      BY <2>1, GatewayMoves DEF IntakeInv
    <3>2. CASE UNCHANGED <<issued, inbox>>
      BY <2>1, <3>1, <3>2, RequestsHome, FileStill DEF IntakeInv, FileInv
    <3>. QED  BY <2>1, <3>1, <3>2, IssueFiles
  <2>2. CASE Parsing!Next
             /\ UNCHANGED <<member, used, events, cache, req, left, accepted, issued>>
    BY <2>2, WorkerFiles
  <2>3. CASE UNCHANGED <<vars, parsing>>
    BY <2>3, RequestsStill, FileStill DEF vars, joins, parsing, FileInv
  <2>. QED  BY <2>1, <2>2, <2>3 DEF IntakeNext
<1>. QED  BY <1>1, InitFiles, IntakeInvariant, PTL DEF IntakeSpec

\* A message costs at most one invoice, and one more for each fault: redeliveries,
\* replicas and parallel workers store no file twice, only a retry that reads it
\* differently does (process-image-invoice.ts:365, process-excel-invoice.ts:192).
THEOREM StoredOnce == IntakeSpec => []InvoicesCostFaults
<1>1. IntakeInv /\ FileInv => InvoicesCostFaults
  <2> SUFFICES ASSUME IntakeInv, FileInv, NEW u \in Updates
               PROVE  Cardinality(StoredFor(u)) <= 1 + faults
    BY DEF InvoicesCostFaults
  <2>1. /\ IsFiniteSet(StoredFor(u)) /\ faults \in Nat
        /\ Cardinality(StoredFor(u)) + (IF Pending(u) THEN 1 ELSE 0) <= 1 + faults
    BY DEF FileInv, PaidFor, IntakeInv, GatewayTypes, TypeOK
  <2>2. Cardinality(StoredFor(u)) \in Nat
    BY <2>1, FS_CardinalityType
  <2>. QED  BY <2>1, <2>2
<1>. QED  BY <1>1, FileInvariant, PTL

\* When the work is done, each invoice that was never given to the mapping was left
\* behind by a fault of its own.
THEOREM UnmappedPaidFor == IntakeSpec => []UnmappedCostFaults
<1>1. IntakeInv /\ FileInv => UnmappedCostFaults
  <2> SUFFICES ASSUME IntakeInv, FileInv, Quiet
               PROVE  Cardinality({f \in Parsing!Fingerprints : Parsing!Stored(f) /\ mapped[f] = 0})
                        <= faults
    BY DEF UnmappedCostFaults
  <2>1. \A f : ~Owed(f)
    BY DEF Quiet, Owed
  <2>2. {f \in Parsing!Fingerprints : Parsing!Stored(f) /\ mapped[f] = 0} = Forgotten
    BY <2>1 DEF Forgotten, Parsing!Stored
  <2>. QED  BY <2>2 DEF FileInv, FewForgotten
<1>. QED  BY <1>1, FileInvariant, PTL

\* Without a fault, a photo or sheet answered with 200 ends up stored for the
\* sender's shop and given to the mapping: nothing on the way from the replay cache
\* to the MAP_RESOLVE job drops it (server.ts:325, process-image-invoice.ts:365).
THEOREM AcceptedArrives == IntakeSpec => []AcceptedBecomesInvoice
<1>1. IntakeInv /\ FileInv => AcceptedBecomesInvoice
  <2> SUFFICES ASSUME IntakeInv, FileInv, Quiet, faults = 0, NEW k \in accepted,
                      \A u \in Bearers(k) : u.kind \in Files
               PROVE  \E u \in Bearers(k), f \in Parsing!Fingerprints :
                        /\ f.tenant = k[1] /\ f.kind = u.kind /\ f.paper = u.about
                        /\ Parsing!Stored(f) /\ mapped[f] > 0
    BY DEF AcceptedBecomesInvoice, Bearers
  <2>1. k \in Keys
    BY DEF IntakeInv, GatewayTypes, TypeOK
  <2>2. \A r \in Requests : req[r].phase = "idle"
    BY DEF Quiet, At
  <2>3. issued[k] > 0
    BY <2>2 DEF IntakeInv, ServedInv, Serving
  <2>4. PICK u \in Bearers(k) : UnderWay(u, k[1])
    BY <2>1, <2>3 DEF FileInv, NoneDropped
  <2>5. \A j \in FileJobs : ~(inbox[j] > 0)
    BY DEF Quiet
  <2>6. \A w \in Workers : ~Reading(w)
    BY DEF Quiet, Reading
  <2>7. PICK f \in Parsing!Fingerprints :
          f.tenant = k[1] /\ f.kind = u.kind /\ f.paper = u.about /\ invoices[f] # {}
    BY <2>4, <2>5, <2>6 DEF UnderWay
  <2>8. mapped[f] > 0
    <3>1. ~Owed(f)
      BY DEF Quiet, Owed
    <3>2. IsFiniteSet(Forgotten) /\ Cardinality(Forgotten) <= 0
      BY DEF FileInv, FewForgotten
    <3>3. Cardinality(Forgotten) = 0
      BY <3>2, FS_CardinalityType
    <3>4. Forgotten = {}
      BY <3>2, <3>3, FS_EmptySet
    <3>5. mapped[f] # 0
      BY <2>7, <3>1, <3>4 DEF Forgotten
    <3>. QED  BY <3>5 DEF IntakeInv, ParsingTypes, Parsing!TypeOK
  <2>. QED  BY <2>7, <2>8 DEF Parsing!Stored
<1>. QED  BY <1>1, FileInvariant, PTL
=============================================================================
