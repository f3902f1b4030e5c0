----------------------------- MODULE ProductSync -----------------------------
(***************************************************************************)
(* The KIOTVIET_PRODUCT_SYNC job: it reads the shop's product list page by *)
(* page, at a growing offset, while the shop goes on changing the list,    *)
(* and writes every product into product_cache, in one transaction.        *)
(*                                                                         *)
(* What a product's row holds (name, barcode, unit, price, active) is      *)
(* abstracted to a version.  KiotViet lists the newest product first.      *)
(***************************************************************************)
EXTENDS Integers, Sequences, FiniteSets, FiniteSetsExt

CONSTANTS
    Workers,       \* worker processes
    Codes,         \* product codes
    NoCode,        \* the code of a product without one
    Lists,         \* lists of codes a shop may begin with
    PageSize,      \* products asked for at a time
    SafetyLimit,   \* offset beyond which a sync gives up
    MaxSyncs,      \* bound: syncs asked for
    MaxChanges,    \* bound: changes of the list and of the credentials
    MaxFaults      \* bound: attempts that fail

VARIABLES
    listed,   \* KiotViet's list of [code, version], newest first
    secret,   \* the shop's active credentials, by version; 0 for none
    token,    \* kiotviet_token_cache: for which credentials, 0 for none
    cache,    \* product_cache: code -> version, 0 for no row
    run,      \* worker -> the sync it runs
    waiting,  \* jobs in the queue
    spent     \* syncs asked for, changes and faults so far

syncVars == <<listed, secret, token, cache, run, waiting, spent>>

NoRun == [stage |-> "none"]

(* A sync's transaction: the offset and the page it is at, what it wrote   *)
(* and nobody else sees, whether it wrote the token.  History: the list at *)
(* its start, and how many products the shop took out since.               *)
NewRun == [stage |-> "starting", token |-> 0, exchanged |-> FALSE, offset |-> 0, page |-> <<>>, total |-> 0,
           wrote |-> [c \in Codes |-> 0], base |-> listed, removed |-> 0]

Running(w) == run[w].stage # "none"
At(w, stage) == run[w].stage = stage
Go(w, stage) == run' = [run EXCEPT ![w].stage = stage]

SyncInit ==
    /\ \E list \in Lists : listed = [i \in DOMAIN list |-> [code |-> list[i], version |-> 1]]
    /\ secret = 0
    /\ token = 0
    /\ cache = [c \in Codes |-> 0]
    /\ run = [w \in Workers |-> NoRun]
    /\ waiting = 0
    /\ spent = [syncs |-> 0, changes |-> 0, faults |-> 0]

(* GET /ops/sync-products.                                                 *)
AskSync ==
    /\ spent.syncs < MaxSyncs
    /\ spent' = [spent EXCEPT !.syncs = @ + 1]
    /\ waiting' = waiting + 1
    /\ UNCHANGED <<listed, secret, token, cache, run>>

(* A worker takes the job.                                                 *)
Start(w) ==
    /\ ~Running(w) /\ waiting > 0
    /\ waiting' = waiting - 1
    /\ run' = [run EXCEPT ![w] = NewRun]
    /\ UNCHANGED <<listed, secret, token, cache, spent>>

(* resolveOAuthToken: a cached token is used whichever credentials it came *)
(* from; otherwise the active ones are exchanged, and the row of the token *)
(* stays locked until the end of the transaction.                          *)
Cached == token

ResolveToken(w) ==
    /\ At(w, "starting") /\ secret # 0
    /\ Cached = 0 => \A v \in Workers \ {w} : ~(Running(v) /\ run[v].exchanged)
    /\ run' = [run EXCEPT ![w].stage = "reading", ![w].exchanged = Cached = 0,
                          ![w].token = IF Cached # 0 THEN Cached ELSE secret]
    /\ UNCHANGED <<listed, secret, token, cache, waiting, spent>>

(* adapter.listProducts: from 1 to pageSize products at the offset, and    *)
(* the length of the list at that moment.                                  *)
ReadPage(w) ==
    /\ At(w, "reading")
    /\ run[w].token = secret
    /\ LET offset == run[w].offset rest == Len(listed) - offset IN
       \E n \in 0..PageSize :
        /\ n <= rest \/ n = 0
        /\ n = 0 => rest <= 0
        /\ run' = [run EXCEPT ![w].stage = IF n = 0 THEN "read" ELSE "writing",
                              ![w].page = SubSeq(listed, offset + 1, offset + n), ![w].total = Len(listed)]
    /\ UNCHANGED <<listed, secret, token, cache, waiting, spent>>

InPage(w) == {run[w].page[i] : i \in DOMAIN run[w].page}
Coded(w) == {row \in InPage(w) : row.code # NoCode}

(* Another sync that wrote a row holds its lock until its transaction ends.*)
RowFree(w, code) == \A v \in Workers \ {w} : Running(v) => run[v].wrote[code] = 0

(* Mutant of NextOffset: counts on pages being full.                       *)
NextOffsetByPage(w) == run[w].offset + PageSize

NextOffset(w) == run[w].offset + Len(run[w].page)

(* The upserts of a page, and the two tests that end the loop.             *)
WritePage(w) ==
    /\ At(w, "writing")
    /\ \A row \in Coded(w) : RowFree(w, row.code)
    /\ LET next == NextOffset(w) IN
       run' = [run EXCEPT
                 ![w].wrote = [c \in Codes |-> IF \E row \in Coded(w) : row.code = c
                                               THEN (CHOOSE row \in Coded(w) : row.code = c).version ELSE @[c]],
                 ![w].offset = next, ![w].page = <<>>,
                 ![w].stage = IF next >= run[w].total \/ next > SafetyLimit THEN "read" ELSE "reading"]
    /\ UNCHANGED <<listed, secret, token, cache, waiting, spent>>

Visible(w) == [c \in Codes |-> IF run[w].wrote[c] # 0 THEN run[w].wrote[c] ELSE cache[c]]

(* The audit row and the COMMIT.                                           *)
Finish(w) ==
    /\ At(w, "read")
    /\ cache' = Visible(w)
    /\ token' = IF run[w].exchanged THEN run[w].token ELSE token
    /\ run' = [run EXCEPT ![w] = NoRun]
    /\ UNCHANGED <<listed, secret, waiting, spent>>

(* A timeout, 429, 5xx or refusal of KiotViet, no credentials, a statement *)
(* that fails, a deadlock, a crash: everything is rolled back, and the     *)
(* queue tries the job again or gives it up.                               *)
Fail(w) ==
    /\ Running(w) /\ spent.faults < MaxFaults
    /\ spent' = [spent EXCEPT !.faults = @ + 1]
    /\ run' = [run EXCEPT ![w] = NoRun]
    /\ waiting' \in {waiting, waiting + 1}
    /\ UNCHANGED <<listed, secret, token, cache>>

(* What the shop does meanwhile.                                           *)
Change == spent.changes < MaxChanges /\ spent' = [spent EXCEPT !.changes = @ + 1]

Listed == {listed[i].code : i \in DOMAIN listed}

AddProduct ==
    /\ Change
    /\ \E c \in (Codes \union {NoCode}) \ Listed : listed' = <<[code |-> c, version |-> 1]>> \o listed
    /\ UNCHANGED <<secret, token, cache, run, waiting>>

Reprice ==
    /\ Change
    /\ \E i \in DOMAIN listed : listed' = [listed EXCEPT ![i].version = @ + 1]
    /\ UNCHANGED <<secret, token, cache, run, waiting>>

RemoveProduct ==
    /\ Change
    /\ \E i \in DOMAIN listed : listed' = SubSeq(listed, 1, i - 1) \o SubSeq(listed, i + 1, Len(listed))
    /\ run' = [w \in Workers |-> IF Running(w) THEN [run[w] EXCEPT !.removed = @ + 1] ELSE run[w]]
    /\ UNCHANGED <<secret, token, cache, waiting>>

(* The owner enters credentials, the first ones or those of another shop.  *)
NewSecret ==
    /\ IF secret = 0 THEN UNCHANGED spent ELSE Change
    /\ secret' = secret + 1
    /\ UNCHANGED <<listed, token, cache, run, waiting>>

TokenExpires == token # 0 /\ token' = 0 /\ UNCHANGED <<listed, secret, cache, run, waiting, spent>>

SyncStep(w) == Start(w) \/ ResolveToken(w) \/ ReadPage(w) \/ WritePage(w) \/ Finish(w) \/ Fail(w)

SyncNext ==
    \/ AskSync \/ AddProduct \/ Reprice \/ RemoveProduct \/ NewSecret \/ TokenExpires
    \/ \E w \in Workers : SyncStep(w)

-----------------------------------------------------------------------------
VersionIn(list, code) == Max({0} \union {list[i].version : i \in {j \in DOMAIN list : list[j].code = code}})

(* Products the list had when the sync began and still has, and that it is *)
(* about to leave without a row, or with one older than what it saw begin. *)
Missed(w) == {c \in Codes :
    /\ VersionIn(run[w].base, c) # 0 /\ VersionIn(listed, c) >= VersionIn(run[w].base, c)
    /\ Visible(w)[c] < VersionIn(run[w].base, c)}

(* A sync that comes to the end of the list may have missed no more        *)
(* products than were taken out of the list while it read: each removal    *)
(* moves one product across the offset.  Pages that come short, products   *)
(* added in front, prices changed, other syncs at work and failed attempts *)
(* before it lose none.                                                    *)
SyncCovers == \A w \in Workers : At(w, "read") /\ run[w].offset <= SafetyLimit => Cardinality(Missed(w)) <= run[w].removed
=============================================================================
