------------------------------ MODULE AdminApi ------------------------------
(***************************************************************************)
(* The admin service: operators create tenants, hand out invite codes, set *)
(* the credentials of a shop and the permissions of its employees.  Every  *)
(* statement of a handler is a transaction of its own, so that handlers    *)
(* interleave between any two of them.                                     *)
(*                                                                         *)
(* Payloads are abstracted: a secret to its version, an invite code to its *)
(* number, a signature to the name of the key that made it.                *)
(***************************************************************************)
EXTENDS Integers, Sequences, FiniteSets, FiniteSetsExt

CONSTANTS
    Situations,  \* the calls made and how the service is set up, see SituationOf
    MaxFaults    \* bound: statements and fetches that fail

Roles == {"read_only", "ops", "admin"}
Reads == {"get", "invites", "secrets", "permissions", "ping"}
Writes == {"create", "patch", "invite", "rotate", "kiotviet", "revoke", "permit", "unpermit", "ops_ping"}

(* Who calls: with the break-glass key, or with a token.  A token has the  *)
(* key that signed it, and the role it claims; valid says that its issuer, *)
(* audience and times are as they should be.                               *)
CallerOf == [how : {"none", "breakglass", "token"}, key : {"k1", "k2"}, role : Roles \union {"other"}, valid : BOOLEAN]

(* A call: its arguments are a tenant, a secret's type or a permission,    *)
(* the version of a secret, and whether its body is well formed.           *)
CallOf == [kind : Reads \union Writes, by : CallerOf, tenant : STRING, arg : STRING, nr : Nat, sound : BOOLEAN]
SetupOf == [auth : BOOLEAN, breakglass : Roles \union {"off"}, tenants : BOOLEAN, secrets : BOOLEAN, mek : BOOLEAN, pepper : BOOLEAN, inviteRate : Nat]
SituationOf == [calls : Seq(CallOf), setup : SetupOf, rekeys : BOOLEAN]

VARIABLES
    situation,
    call,        \* call -> where its handler is
    tenants,     \* id -> its row
    invites,     \* invite_codes
    secrets,     \* secret_versions
    permissions, \* employee_permissions
    audits,      \* admin_audit_logs
    bucket,      \* tenant -> invites it may still be given
    keys,        \* keys the identity provider publishes, those cached, cache age
    faults

adminVars == <<situation, call, tenants, invites, secrets, permissions, audits, bucket, keys, faults>>

Calls == DOMAIN situation.calls
Of(c) == situation.calls[c]
Setup == situation.setup

(* Stands for no version read, no rows and no status yet.                  *)
Fresh == [stage |-> "new", role |-> "none", version |-> 0, status |-> 0, items |-> {}]

AdminInit ==
    /\ situation \in Situations
    /\ call = [c \in Calls |-> Fresh]
    /\ tenants = [t \in {"t1"} |-> [mode |-> "legacy", status |-> "active", retailer |-> 0, config |-> 0]]
    /\ invites = {} /\ secrets = {} /\ permissions = {} /\ audits = {}
    /\ bucket = [t \in {"t1", "t2"} |-> situation.setup.inviteRate]
    /\ keys = [published |-> {"k1"}, cached |-> {}, fresh |-> FALSE]
    /\ faults = 0

At(c, stage) == call[c].stage = stage
Go(c, stage) == call' = [call EXCEPT ![c].stage = stage]
Answer(c, status) == call' = [call EXCEPT ![c].stage = "answered", ![c].status = status]
Listing(c, items) == call' = [call EXCEPT ![c].stage = "answered", ![c].status = 200, ![c].items = items]

-----------------------------------------------------------------------------
(* rbac.ts and the roles of the routes.                                    *)
RequiredRole(kind) == IF kind \in Reads THEN "read_only" ELSE "ops"
IsGet(kind) == kind \in Reads \union {"ops_ping"}
Rank(role) == CASE role = "read_only" -> 1 [] role = "ops" -> 2 [] role = "admin" -> 3 [] OTHER -> 0
IsAllowedByRole(kind, role) ==
    /\ role = "read_only" => IsGet(kind)
    /\ Rank(role) >= Rank(RequiredRole(kind))

(* authenticateRequest with the keys it has: a role, or none.              *)
VerifiedRole(by, known) == IF by.key \in known /\ by.valid /\ by.role \in Roles THEN by.role ELSE "none"

BreakGlass(by) == ~Setup.auth \/ (by.how = "breakglass" /\ Setup.breakglass # "off")

PrincipalRole(by, known) ==
    IF ~Setup.auth THEN "admin"
    ELSE IF by.how = "breakglass" /\ Setup.breakglass # "off" THEN Setup.breakglass
    ELSE IF by.how = "token" THEN VerifiedRole(by, known) ELSE "none"

Switched(kind) ==
    \/ kind \in {"ping", "ops_ping"}
    \/ Setup.tenants /\ (kind \in {"rotate", "revoke", "secrets"} => Setup.secrets)

Receive(c) ==
    /\ At(c, "new")
    /\ IF Switched(Of(c).kind) THEN Go(c, "authenticating") ELSE Answer(c, 404)
    /\ UNCHANGED <<situation, tenants, invites, secrets, permissions, audits, bucket, keys, faults>>

(* fetchJwks: the keys are fetched when they are more than five minutes    *)
(* old; a key missing from them is not looked for again before that.       *)
Authorize(c) ==
    /\ At(c, "authenticating")
    /\ LET fetches == Setup.auth /\ Of(c).by.how = "token" /\ ~keys.fresh
           known == IF fetches THEN keys.published ELSE keys.cached
           role == PrincipalRole(Of(c).by, known)
       IN /\ keys' = [keys EXCEPT !.cached = known, !.fresh = @ \/ fetches]
          /\ call' = [call EXCEPT ![c] = [call[c] EXCEPT
                        !.role = role,
                        !.stage = IF IsAllowedByRole(Of(c).kind, role) THEN "allowed" ELSE "answered",
                        !.status = IF role = "none" THEN 401 ELSE IF IsAllowedByRole(Of(c).kind, role) THEN @ ELSE 403]]
          /\ audits' = IF IsAllowedByRole(Of(c).kind, role) /\ BreakGlass(Of(c).by)
                       THEN audits \union {<<c, "break_glass_access">>} ELSE audits
    /\ UNCHANGED <<situation, tenants, invites, secrets, permissions, bucket, faults>>

Allowed(c, kind) == At(c, "allowed") /\ Of(c).kind = kind
Tenant(c) == Of(c).tenant
Exists(t) == t \in DOMAIN tenants

Ping(c) ==
    /\ Allowed(c, "ping") \/ Allowed(c, "ops_ping")
    /\ Answer(c, 200)
    /\ UNCHANGED <<situation, tenants, invites, secrets, permissions, audits, bucket, keys, faults>>

(* A body that is no JSON, or lacks what it must have.  Credentials are    *)
(* looked at only where they could be encrypted.                           *)
BadRequest(c) ==
    /\ At(c, "allowed") /\ ~Of(c).sound
    /\ Of(c).kind \in {"rotate", "kiotviet"} => Setup.mek
    /\ Answer(c, 400)
    /\ UNCHANGED <<situation, tenants, invites, secrets, permissions, audits, bucket, keys, faults>>

-----------------------------------------------------------------------------
CreateTenant(c) ==
    /\ Allowed(c, "create") /\ Of(c).sound
    /\ tenants' = [t \in DOMAIN tenants \union {"t2"} |->
                     IF t \in DOMAIN tenants THEN tenants[t] ELSE [mode |-> "legacy", status |-> "active", retailer |-> c, config |-> c]]
    /\ Go(c, "auditing")
    /\ UNCHANGED <<situation, invites, secrets, permissions, audits, bucket, keys, faults>>

GetTenant(c) ==
    /\ Allowed(c, "get")
    /\ IF Exists(Tenant(c)) THEN Listing(c, {tenants[Tenant(c)]}) ELSE Answer(c, 404)
    /\ UNCHANGED <<situation, tenants, invites, secrets, permissions, audits, bucket, keys, faults>>

(* One UPDATE: what the body leaves out is kept, config is replaced.       *)
PatchTenant(c) ==
    /\ Allowed(c, "patch") /\ Of(c).sound
    /\ IF ~Exists(Tenant(c)) THEN Answer(c, 404) /\ UNCHANGED tenants
       ELSE /\ tenants' = [tenants EXCEPT
                 ![Tenant(c)].mode = IF Of(c).arg \in {"legacy", "v2"} THEN Of(c).arg ELSE @,
                 ![Tenant(c)].status = IF Of(c).arg = "enable" THEN "active" ELSE IF Of(c).arg = "disable" THEN "suspended" ELSE @,
                 ![Tenant(c)].config = IF Of(c).arg = "metadata" THEN c ELSE @]
            /\ Go(c, "auditing")
    /\ UNCHANGED <<situation, invites, secrets, permissions, audits, bucket, keys, faults>>

CreateInvite(c) ==
    /\ Allowed(c, "invite")
    /\ IF ~Setup.pepper THEN Answer(c, 503) /\ UNCHANGED <<invites, bucket>>
       ELSE IF bucket[Tenant(c)] = 0 THEN Answer(c, 429) /\ UNCHANGED <<invites, bucket>>
       ELSE /\ bucket' = [bucket EXCEPT ![Tenant(c)] = @ - 1]
            /\ IF Exists(Tenant(c))
               THEN invites' = invites \union {[nr |-> c, tenant |-> Tenant(c), status |-> "active"]} /\ Go(c, "auditing")
               ELSE UNCHANGED invites /\ Answer(c, 500)
    /\ UNCHANGED <<situation, tenants, secrets, permissions, audits, keys, faults>>

ListInvites(c) ==
    /\ Allowed(c, "invites")
    /\ Listing(c, {i \in invites : i.tenant = Tenant(c)})
    /\ UNCHANGED <<situation, tenants, invites, secrets, permissions, audits, bucket, keys, faults>>

-----------------------------------------------------------------------------
(* POST /secrets and POST /kiotviet set a shop's credentials the same way, *)
(* in three statements.                                                    *)
SecretType(c) == IF Of(c).kind = "kiotviet" THEN "kiotviet_client_credentials" ELSE Of(c).arg
Versions(t, type) == {s \in secrets : s.tenant = t /\ s.type = type}
Newest(t, type) == Max({0} \union {s.version : s \in Versions(t, type)})
Setting(c) == Of(c).kind \in {"rotate", "kiotviet"}

(* Mutant of Statements: what is active is replaced before versions are    *)
(* counted.                                                                *)
StatementsRotateFirst == <<"rotate", "version", "insert">>

Statements == <<"version", "rotate", "insert">>
After(statement) == Statements[(CHOOSE i \in DOMAIN Statements : Statements[i] = statement) + 1]

BeginSetting(c) ==
    /\ At(c, "allowed") /\ Setting(c)
    /\ Setup.mek => Of(c).sound
    /\ IF Setup.mek THEN Go(c, Statements[1]) ELSE Answer(c, 503)
    /\ UNCHANGED <<situation, tenants, invites, secrets, permissions, audits, bucket, keys, faults>>

ReadVersion(c) ==
    /\ At(c, "version")
    /\ call' = [call EXCEPT ![c].version = Newest(Tenant(c), SecretType(c)) + 1, ![c].stage = After("version")]
    /\ UNCHANGED <<situation, tenants, invites, secrets, permissions, audits, bucket, keys, faults>>

RotateActive(c) ==
    /\ At(c, "rotate")
    /\ LET old == {s \in Versions(Tenant(c), SecretType(c)) : s.status = "active"} IN
       secrets' = (secrets \ old) \union {[s EXCEPT !.status = "rotated"] : s \in old}
    /\ Go(c, After("rotate"))
    /\ UNCHANGED <<situation, tenants, invites, permissions, audits, bucket, keys, faults>>

(* UNIQUE (tenant_id, secret_type, version) refuses one of two handlers    *)
(* that counted the same versions.                                         *)
Refused(c) == ~Exists(Tenant(c)) \/ \E s \in Versions(Tenant(c), SecretType(c)) : s.version = call[c].version

InsertSecret(c) ==
    /\ At(c, "insert")
    /\ IF Refused(c) THEN Answer(c, 500) /\ UNCHANGED secrets
       ELSE /\ secrets' = secrets \union {[tenant |-> Tenant(c), type |-> SecretType(c), version |-> call[c].version, status |-> "active"]}
            /\ Go(c, IF Of(c).kind = "kiotviet" THEN "tenant" ELSE "auditing")
    /\ UNCHANGED <<situation, tenants, invites, permissions, audits, bucket, keys, faults>>

(* /kiotviet also notes the retailer; the job reads it from the secret.    *)
SetRetailer(c) ==
    /\ At(c, "tenant")
    /\ tenants' = [tenants EXCEPT ![Tenant(c)].retailer = c]
    /\ Go(c, "auditing")
    /\ UNCHANGED <<situation, invites, secrets, permissions, audits, bucket, keys, faults>>

(* One that is rotated can be revoked, one that is revoked is not found.   *)
RevokeSecret(c) ==
    /\ Allowed(c, "revoke")
    /\ LET found == {s \in Versions(Tenant(c), Of(c).arg) : s.version = Of(c).nr /\ s.status # "revoked"} IN
       IF found = {} THEN Answer(c, 404) /\ UNCHANGED secrets
       ELSE /\ secrets' = (secrets \ found) \union {[s EXCEPT !.status = "revoked"] : s \in found}
            /\ Go(c, "auditing")
    /\ UNCHANGED <<situation, tenants, invites, permissions, audits, bucket, keys, faults>>

ListSecrets(c) ==
    /\ Allowed(c, "secrets")
    /\ Listing(c, {s \in secrets : s.tenant = Tenant(c)})
    /\ UNCHANGED <<situation, tenants, invites, secrets, permissions, audits, bucket, keys, faults>>

-----------------------------------------------------------------------------
PermissionTypes == {"product_code", "category", "all"}

(* INSERT ... ON CONFLICT DO NOTHING, audited also when it was there.      *)
Permit(c) ==
    /\ Allowed(c, "permit") /\ Of(c).sound
    /\ IF Of(c).arg \notin PermissionTypes THEN Answer(c, 400) /\ UNCHANGED permissions
       ELSE IF ~Exists(Tenant(c)) THEN Answer(c, 500) /\ UNCHANGED permissions
       ELSE permissions' = permissions \union {[tenant |-> Tenant(c), type |-> Of(c).arg]} /\ Go(c, "auditing")
    /\ UNCHANGED <<situation, tenants, invites, secrets, audits, bucket, keys, faults>>

Unpermit(c) ==
    /\ Allowed(c, "unpermit")
    /\ permissions' = permissions \ {[tenant |-> Tenant(c), type |-> Of(c).arg]}
    /\ Go(c, "auditing")
    /\ UNCHANGED <<situation, tenants, invites, secrets, audits, bucket, keys, faults>>

ListPermissions(c) ==
    /\ Allowed(c, "permissions")
    /\ Listing(c, {p \in permissions : p.tenant = Tenant(c)})
    /\ UNCHANGED <<situation, tenants, invites, secrets, permissions, audits, bucket, keys, faults>>

(* writeAdminAudit: a failure is logged, and the answer is the same.       *)
Audit(c) ==
    /\ At(c, "auditing")
    /\ \/ audits' = audits \union {<<c, Of(c).kind>>} /\ UNCHANGED faults
       \/ faults < MaxFaults /\ faults' = faults + 1 /\ UNCHANGED audits
    /\ Answer(c, 200)
    /\ UNCHANGED <<situation, tenants, invites, secrets, permissions, bucket, keys>>

(* A statement fails, or the keys cannot be fetched.                       *)
Fail(c) ==
    /\ call[c].stage \notin {"new", "auditing", "answered"} /\ faults < MaxFaults
    /\ faults' = faults + 1
    /\ Answer(c, IF At(c, "authenticating") THEN 401 ELSE 500)
    /\ UNCHANGED <<situation, tenants, invites, secrets, permissions, audits, bucket, keys>>

(* The identity provider changes its key; cached ones grow old.            *)
Rekey ==
    /\ situation.rekeys /\ keys.published = {"k1"}
    /\ keys' = [keys EXCEPT !.published = {"k2"}]
    /\ UNCHANGED <<situation, call, tenants, invites, secrets, permissions, audits, bucket, faults>>

KeysAge ==
    /\ situation.rekeys /\ keys.fresh
    /\ keys' = [keys EXCEPT !.fresh = FALSE]
    /\ UNCHANGED <<situation, call, tenants, invites, secrets, permissions, audits, bucket, faults>>

Handle(c) ==
    \/ Receive(c) \/ Authorize(c) \/ Ping(c) \/ BadRequest(c)
    \/ CreateTenant(c) \/ GetTenant(c) \/ PatchTenant(c) \/ CreateInvite(c) \/ ListInvites(c)
    \/ BeginSetting(c) \/ ReadVersion(c) \/ RotateActive(c) \/ InsertSecret(c) \/ SetRetailer(c)
    \/ RevokeSecret(c) \/ ListSecrets(c) \/ Permit(c) \/ Unpermit(c) \/ ListPermissions(c)
    \/ Audit(c) \/ Fail(c)

AdminNext == Rekey \/ KeysAge \/ \E c \in Calls : Handle(c)

-----------------------------------------------------------------------------
(* However handlers that set the same credentials interleave, fail between *)
(* two statements or meet a revocation, a shop never has two active        *)
(* versions of a secret, and the one it has is the newest: the jobs of the *)
(* shop do not go back to credentials that were replaced.                  *)
OneActiveSecret == \A s \in secrets : s.status = "active" =>
    \A o \in Versions(s.tenant, s.type) : o = s \/ (o.version < s.version /\ o.status # "active")
=============================================================================
