--------------------------- MODULE InvoicePipeline ---------------------------
(***************************************************************************)
(* One supplier invoice on its way into KiotViet: MAP_RESOLVE matches its  *)
(* lines to products, the owner answers the open questions by chat         *)
(* (CONFIRM_MAPPING) or in the mini app, and KIOTVIET_SYNC turns the       *)
(* resolved lines into a purchase order.                                   *)
(*                                                                         *)
(* Every database transaction is split where another process can get in    *)
(* between: what it read, what it has written but not committed, and its   *)
(* commit.  Jobs are put on the Redis queue while the transaction is still *)
(* open, so the model lets another worker take them before the commit.     *)
(* The owner is one Telegram chat; every job carries telegram_chat_id.     *)
(***************************************************************************)
EXTENDS Integers, Sequences

CONSTANTS
  Items,        \* the lines of the invoice
  WithSku,      \* lines whose own SKU is active in product_cache
  Workers,      \* worker processes (apps/worker), one job at a time each
  Webs,         \* concurrent requests the mini app server can have open
  NoItem,       \* stands for "no line"
  Attempts,     \* queue attempts of a job
  MaxRetries,   \* KIOTVIET_SYNC_MAX_RETRIES
  MaxRuns,      \* bound: MAP_RESOLVE runs started
  MaxReplies,   \* bound: answers given in the chat
  MaxTaps,      \* bound: mini app requests
  MaxCopies,    \* bound: retried jobs the queue delivers twice
  MaxFaults,    \* bound: failed transactions, lost answers, failed calls to KiotViet
  MaxCrashes,   \* bound: processes that die with a transaction open
  MaxLate       \* bound: questions whose 24 hours run out

Actors == Workers \cup Webs
Runs == 1 .. MaxRuns
Verdicts == {"confirm", "reject", "skip", "sku"}
ItemStatus == {"absent", "resolved", "pending", "unresolved", "skipped"}
RowStatus == {"none", "pending", "confirmed", "rejected", "skipped", "expired"}
Phases == {"idle", "map", "mapped", "decide", "decided", "respond", "post", "record", "giveup"}
Outcomes == {"known", "ai", "ask", "open"}

ASSUME ConstantsAssumption ==
  /\ NoItem \notin Items
  /\ WithSku \subseteq Items
  /\ Workers \cap Webs = {}
  /\ Attempts \in Nat \ {0} /\ MaxRetries \in Nat \ {0}
  /\ {MaxRuns, MaxReplies, MaxTaps, MaxCopies, MaxFaults, MaxCrashes, MaxLate} \subseteq Nat

(***************************************************************************)
(* A question about line i asked by the g-th MAP_RESOLVE run is <<i, g>>:  *)
(* one row of pending_confirmations.  In a job or a context run 0 means    *)
(* "no such row".                                                          *)
(***************************************************************************)
Questions == Items \X Runs

Job == [type     : {"MAP_RESOLVE", "CONFIRM_MAPPING", "KIOTVIET_SYNC"},
        verdict  : Verdicts \cup {"none"},
        item     : Items \cup {NoItem},
        run      : 0 .. MaxRuns,
        complete : BOOLEAN,          \* passes validateWorkerJobEnvelope
        made     : 0 .. Attempts]    \* attemptsMade

BlankJob == [type |-> "MAP_RESOLVE", verdict |-> "none", item |-> NoItem, run |-> 0,
             complete |-> TRUE, made |-> 0]
MapJob == BlankJob
SyncJob == [BlankJob EXCEPT !.type = "KIOTVIET_SYNC"]
BareSyncJob == [SyncJob EXCEPT !.complete = FALSE]
ConfirmJob(v, i, g) ==
  [BlankJob EXCEPT !.type = "CONFIRM_MAPPING", !.verdict = v, !.item = i, !.run = g]

\* The jobs as they are first enqueued, and with the attempts made since.
NewJobs == {MapJob, SyncJob, BareSyncJob}
           \cup {ConfirmJob(v, NoItem, 0) : v \in Verdicts}
           \cup {ConfirmJob(v, q[1], q[2]) : v \in Verdicts, q \in Questions}
Jobs == {[j EXCEPT !.made = m] : j \in NewJobs, m \in 0 .. Attempts - 1}

(***************************************************************************)
(* What an actor holds in memory between two steps.                        *)
(***************************************************************************)
Context == [phase   : Phases,
            job     : Jobs,
            item    : Items \cup {NoItem},                  \* line being decided
            run     : 0 .. MaxRuns,                         \* its row, or the MAP run
            verdict : Verdicts \cup {"none"},
            plan    : [Items -> Outcomes \cup {"none"}],    \* tier of each line
            lines   : SUBSET Items,                         \* lines read for the job
            sync    : BOOLEAN,                              \* sync_triggered
            tries   : 0 .. MaxRetries]

Idle == [phase |-> "idle", job |-> BlankJob, item |-> NoItem, run |-> 0, verdict |-> "none",
         plan |-> [i \in Items |-> "none"], lines |-> {}, sync |-> FALSE, tries |-> 0]

VARIABLES
  dict,     \* mapping_dictionary: who taught the alias of a line, if anyone
  item,     \* resolved_invoice_items.status
  row,      \* pending_confirmations.status, by line and run
  hinted,   \* the rows with a suggested_sku
  late,     \* the rows past expires_at
  key,      \* idempotency_keys has kiotviet:<invoice>
  results,  \* statuses in sync_results
  orders,   \* purchase orders KiotViet created, each a set of lines
  queue,    \* the Redis list, a bag of jobs
  ctx,      \* the context of each actor
  spent     \* how much of each bound is used

db == <<dict, item, row, hinted, late, key, results>>
vars == <<dict, item, row, hinted, late, key, results, orders, queue, ctx, spent>>

-----------------------------------------------------------------------------
Put(j) == queue' = [queue EXCEPT ![j] = @ + 1]
Goto(a, c) == ctx' = [ctx EXCEPT ![a] = c]
Spend(what) == spent' = [spent EXCEPT ![what] = @ + 1]

\* A processor that threw: its job goes back on the queue while it has attempts left.
Retry(a) == IF ctx[a].job.made + 1 < Attempts
            THEN Put([ctx[a].job EXCEPT !.made = @ + 1])
            ELSE UNCHANGED queue

\* The end of a transaction whose COMMIT took effect.  When the answer to it does
\* not come within query_timeout, the worker takes the transaction for failed.
Close(a, c) == /\ Goto(a, c)
               /\ \/ UNCHANGED <<queue, spent>>
                  \/ /\ a \in Workers
                     /\ spent.faults < MaxFaults /\ Spend("faults")
                     /\ Retry(a)

WithStatus(s) == {i \in Items : item[i] = s}

\* status = 'pending' AND expires_at > now()
Answerable == {q \in Questions : row[q[1]][q[2]] = "pending" /\ q \notin late}
\* the one answerable question, when there is exactly one
Lone == {q \in Answerable : Answerable = {q}}

\* Row locks: actor b has written line i and not committed.
Holds(b, i) == \/ ctx[b].phase = "decided" /\ ctx[b].item = i
               \/ ctx[b].phase = "mapped"
Free(a, i) == \A b \in Actors \ {a} : ~Holds(b, i)

\* The parsing job has stored the invoice and enqueued its MAP_RESOLVE.
Init ==
  /\ dict = [i \in Items |-> "none"]
  /\ item = [i \in Items |-> "absent"]
  /\ row = [i \in Items |-> [g \in Runs |-> "none"]]
  /\ hinted = {} /\ late = {}
  /\ key = FALSE /\ results = {} /\ orders = <<>>
  /\ queue = [j \in Jobs |-> IF j = MapJob THEN 1 ELSE 0]
  /\ ctx = [a \in Actors |-> Idle]
  /\ spent = [runs |-> 0, replies |-> 0, taps |-> 0, copies |-> 0, faults |-> 0,
              crashes |-> 0, late |-> 0]

-----------------------------------------------------------------------------
(* The owner's chat. *)

\* An answer in the chat, as a reply to a question or on its own.  The gateway
\* makes it a CONFIRM_MAPPING job while the user has something pending; free
\* text (a SKU) goes this way only as a reply.
Reply ==
  /\ spent.replies < MaxReplies
  /\ Answerable # {}
  /\ \E v \in Verdicts :
       \/ v # "sku" /\ Put(ConfirmJob(v, NoItem, 0))
       \/ \E q \in Questions : row[q[1]][q[2]] # "none" /\ Put(ConfirmJob(v, q[1], q[2]))
  /\ Spend("replies")
  /\ UNCHANGED <<db, orders, ctx>>

\* 24 hours pass on a question.
DeadlinePasses ==
  /\ spent.late < MaxLate
  /\ \E q \in Questions \ late : row[q[1]][q[2]] = "pending" /\ late' = late \cup {q}
  /\ Spend("late")
  /\ UNCHANGED <<dict, item, row, hinted, key, results, orders, queue, ctx>>

-----------------------------------------------------------------------------
(* Taking a job. *)

Take(a, j) ==
  /\ ctx[a].phase = "idle"
  /\ queue[j] > 0
  /\ queue' = [queue EXCEPT ![j] = @ - 1]

\* Two workers that sweep the delayed jobs at once push a retried job twice
\* (JobQueue!RemoveDue).
DeliverTwice ==
  /\ \E a, b \in Workers : a # b
  /\ spent.copies < MaxCopies
  /\ \E j \in Jobs : j.made > 0 /\ queue[j] > 0 /\ Put(j)
  /\ Spend("copies")
  /\ UNCHANGED <<db, orders, ctx>>

\* An envelope that does not validate is logged and forgotten.
DropInvalid(a) ==
  \E j \in Jobs :
    /\ ~j.complete
    /\ Take(a, j)
    /\ UNCHANGED <<db, orders, ctx, spent>>

-----------------------------------------------------------------------------
(* MAP_RESOLVE *)

\* Mutant of Known: the dictionary is not consulted.
CatalogueOnly == WithSku

\* Tier 1: lines with a dictionary entry, or an SKU of the catalogue.
Known == {i \in Items : dict[i] # "none"} \cup WithSku

TakeMap(a) ==
  \E j \in Jobs :
    /\ j.type = "MAP_RESOLVE" /\ spent.runs < MaxRuns
    /\ Take(a, j)
    /\ Goto(a, [Idle EXCEPT !.phase = "map", !.job = j, !.run = spent.runs + 1,
                            !.lines = Known])
    /\ Spend("runs")
    /\ UNCHANGED <<db, orders>>

\* Tier 2 for the other lines: the AI is sure (>= 70), half sure (40-69, asks
\* with a suggestion) or has nothing (asks for a SKU).  The upserts hold their
\* row locks until the commit; the sync job is enqueued right away.
WriteMap(a) ==
  /\ ctx[a].phase = "map"
  /\ \A i \in Items : Free(a, i)
  /\ \E plan \in [Items -> Outcomes] :
       /\ \A i \in Items : plan[i] = "known" <=> i \in ctx[a].lines
       /\ Goto(a, [ctx[a] EXCEPT !.phase = "mapped", !.plan = plan])
       /\ IF /\ \E i \in Items : plan[i] \in {"known", "ai"}
             /\ \A i \in Items : plan[i] \in {"known", "ai"}
          THEN Put(SyncJob)
          ELSE UNCHANGED queue
  /\ UNCHANGED <<db, orders, spent>>

CommitMap(a) ==
  LET plan == ctx[a].plan
      g == ctx[a].run
  IN /\ ctx[a].phase = "mapped"
     /\ dict' = [i \in Items |-> IF plan[i] = "ai" THEN "ai" ELSE dict[i]]
     /\ item' = [i \in Items |-> IF plan[i] \in {"known", "ai"} THEN "resolved" ELSE "pending"]
     /\ row' = [i \in Items |-> [h \in Runs |->
                  IF h = g /\ plan[i] \in {"ask", "open"} THEN "pending" ELSE row[i][h]]]
     /\ hinted' = hinted \cup {<<i, g>> : i \in {x \in Items : plan[x] = "ask"}}
     /\ Close(a, Idle)
     /\ UNCHANGED <<late, key, results, orders>>

-----------------------------------------------------------------------------
(* CONFIRM_MAPPING, and the item actions of the mini app *)

\* Mutant of Addressed: a reply may name a question that is closed.
AddressedOpenOrNot(j) ==
  LET named == {q \in {<<j.item, j.run>>} \cap Questions : row[q[1]][q[2]] # "none"}
      found == IF named # {} THEN named ELSE IF j.verdict = "sku" THEN {} ELSE Lone
  IN {q \in found : j.verdict = "confirm" => q \in hinted}

\* The question an answer is about: the one replied to, else the only one open.
\* Free text is never guessed, and a question without suggestion has no "1".
Addressed(j) ==
  LET named == {<<j.item, j.run>>} \cap Answerable
      found == IF named # {} THEN named ELSE IF j.verdict = "sku" THEN {} ELSE Lone
  IN {q \in found : j.verdict = "confirm" => q \in hinted}

\* Nothing happens without a question, or when the SKU is not in the catalogue.
TakeConfirm(a) ==
  \E j \in Jobs :
    /\ j.type = "CONFIRM_MAPPING"
    /\ Take(a, j)
    /\ \/ (Addressed(j) = {} \/ j.verdict = "sku") /\ UNCHANGED ctx
       \/ \E q \in Addressed(j) :
            Goto(a, [Idle EXCEPT !.phase = "decide", !.job = j, !.item = q[1], !.run = q[2],
                                 !.verdict = j.verdict])
    /\ UNCHANGED <<db, orders, spent>>

\* A tap on a line in the mini app: refused for a line already processed; uses
\* any open question of the line, or none.
Tap(b) ==
  /\ ctx[b].phase = "idle" /\ spent.taps < MaxTaps
  /\ \E v \in Verdicts, i \in Items, g \in 0 .. MaxRuns :
       /\ item[i] \notin {"resolved", "skipped"}
       /\ IF g = 0 THEN \A h \in Runs : <<i, h>> \notin Answerable ELSE <<i, g>> \in Answerable
       /\ v = "confirm" => <<i, g>> \in hinted
       /\ Goto(b, [Idle EXCEPT !.phase = "decide", !.item = i, !.run = g, !.verdict = v])
  /\ Spend("taps")
  /\ UNCHANGED <<db, orders, queue>>

Decided(v) == CASE v \in {"confirm", "sku"} -> "resolved"
                [] v = "reject" -> "unresolved"
                [] v = "skip" -> "skipped"

\* Mutant of Closed: the row keeps the verdict's own name.
ClosedAsGiven(v) == v
Closed(v) == CASE v \in {"confirm", "sku"} -> "confirmed"
               [] v = "reject" -> "rejected"
               [] v = "skip" -> "skipped"

\* Mutant of Seen: the line keeps its status, only the question is closed.
SeenUndecided(a) == item

\* item as the deciding transaction sees it: its own update over what is committed
Seen(a) == [item EXCEPT ![ctx[a].item] = IF @ = "absent" THEN @ ELSE Decided(ctx[a].verdict)]

\* Mutants of ReadyToSync: open questions are forgotten; a skipped line blocks.
ReadyWhenAny(view) == \E i \in Items : view[i] = "resolved"
ReadyWhenAll(view) == \A i \in Items : view[i] = "resolved"

ReadyToSync(view) == /\ \A i \in Items : view[i] # "pending"
                     /\ \E i \in Items : view[i] = "resolved"

\* The updates by id, then the count of what is left.  A chat answer enqueues
\* the sync here, inside the transaction; the mini app only notes it.
Decide(a) ==
  /\ ctx[a].phase = "decide"
  /\ Free(a, ctx[a].item)
  /\ LET ready == ReadyToSync(Seen(a))
     IN /\ Goto(a, [ctx[a] EXCEPT !.phase = "decided", !.sync = ready])
        /\ IF ready /\ a \in Workers THEN Put(SyncJob) ELSE UNCHANGED queue
  /\ UNCHANGED <<db, orders, spent>>

CommitDecision(a) ==
  LET i == ctx[a].item
      v == ctx[a].verdict
  IN /\ ctx[a].phase = "decided"
     /\ item' = Seen(a)
     /\ row' = [row EXCEPT ![i] = [g \in Runs |-> IF g = ctx[a].run THEN Closed(v) ELSE @[g]]]
     /\ dict' = IF v \in {"confirm", "sku"} THEN [dict EXCEPT ![i] = "user"] ELSE dict
     /\ Close(a, IF a \in Webs /\ ctx[a].sync THEN [Idle EXCEPT !.phase = "respond"] ELSE Idle)
     /\ UNCHANGED <<hinted, late, key, results, orders>>

\* After its commit the mini app enqueues a sync with three fields only.
EnqueueFromTap(b) ==
  /\ ctx[b].phase = "respond"
  /\ Put(BareSyncJob)
  /\ Goto(b, Idle)
  /\ UNCHANGED <<db, orders, spent>>

\* POST /submit: nothing pending, nothing unresolved, something resolved.
Submit(b) ==
  /\ ctx[b].phase = "idle" /\ spent.taps < MaxTaps
  /\ ReadyToSync(item) /\ WithStatus("unresolved") = {}
  /\ Put(BareSyncJob)
  /\ Spend("taps")
  /\ UNCHANGED <<db, orders, ctx>>

\* FLUSH_PENDING_NOTIFICATIONS closes the questions past their deadline; the
\* updates wait for the row locks of open transactions.
FlushExpired(a) ==
  LET overdue == {q \in late : row[q[1]][q[2]] = "pending"}
      stale == {q[1] : q \in overdue}
  IN /\ ctx[a].phase = "idle"
     /\ overdue # {}
     /\ \A i \in stale : Free(a, i)
     /\ item' = [i \in Items |-> IF i \in stale /\ item[i] = "pending" THEN "unresolved" ELSE item[i]]
     /\ row' = [i \in Items |-> [g \in Runs |-> IF <<i, g>> \in overdue THEN "expired" ELSE row[i][g]]]
     /\ UNCHANGED <<dict, hinted, late, key, results, orders, queue, ctx, spent>>

-----------------------------------------------------------------------------
(* KIOTVIET_SYNC *)

\* Reads the idempotency key and the resolved lines.  The shop is taken to be
\* configured: sync enabled, retailer and credentials there.
TakeSync(a) ==
  \E j \in Jobs :
    /\ j.type = "KIOTVIET_SYNC" /\ j.complete
    /\ Take(a, j)
    /\ \/ key /\ UNCHANGED <<ctx, results>>
       \/ ~key /\ WithStatus("resolved") = {}
          /\ results' = results \cup {"failed"} /\ UNCHANGED ctx
       \/ ~key /\ WithStatus("resolved") # {}
          /\ Goto(a, [Idle EXCEPT !.phase = "post", !.job = j, !.lines = WithStatus("resolved")])
          /\ UNCHANGED results
    /\ UNCHANGED <<dict, item, row, hinted, late, key, orders, spent>>

\* Mutant of PostOrder: the attempt loop goes on after a success.
PostAndGoOn(a) ==
  /\ ctx[a].phase = "post"
  /\ orders' = Append(orders, ctx[a].lines)
  /\ Goto(a, IF ctx[a].tries + 1 < MaxRetries THEN [ctx[a] EXCEPT !.tries = @ + 1]
             ELSE [ctx[a] EXCEPT !.phase = "record"])
  /\ UNCHANGED <<db, queue, spent>>

\* POST /purchaseorders.  A failed call may or may not have created the order,
\* and is retried when its error is kv_timeout, kv_server_error or kv_rate_limited.
PostOrder(a) ==
  /\ ctx[a].phase = "post"
  /\ \/ /\ orders' = Append(orders, ctx[a].lines)
        /\ Goto(a, [ctx[a] EXCEPT !.phase = "record"])
        /\ UNCHANGED spent
     \/ /\ spent.faults < MaxFaults /\ Spend("faults")
        /\ orders' \in {orders, Append(orders, ctx[a].lines)}
        /\ \/ /\ ctx[a].tries + 1 < MaxRetries
              /\ Goto(a, [ctx[a] EXCEPT !.tries = @ + 1])
           \/ Goto(a, [ctx[a] EXCEPT !.phase = "giveup"])
  /\ UNCHANGED <<db, queue>>

\* The key (ON CONFLICT DO NOTHING) and the result are written and committed.
\* When only the notification after them cannot be enqueued, the catch of the
\* attempt loop adds a failed result to the same transaction.
CommitSync(a) ==
  /\ ctx[a].phase = "record"
  /\ key' = TRUE
  /\ \/ results' = results \cup {"success"} /\ Close(a, Idle)
     \/ /\ spent.faults < MaxFaults /\ Spend("faults")
        /\ results' = results \cup {"success", "failed"}
        /\ Goto(a, Idle) /\ UNCHANGED queue
  /\ UNCHANGED <<dict, item, row, hinted, late, orders>>

\* Mutant of GiveUp: a sync that failed takes the key as well.
GiveUpKeyed(a) ==
  /\ ctx[a].phase = "giveup"
  /\ key' = TRUE /\ results' = results \cup {"failed"}
  /\ Goto(a, Idle)
  /\ UNCHANGED <<dict, item, row, hinted, late, orders, queue, spent>>

GiveUp(a) ==
  /\ ctx[a].phase = "giveup"
  /\ results' = results \cup {"failed"}
  /\ Close(a, Idle)
  /\ UNCHANGED <<dict, item, row, hinted, late, key, orders>>

-----------------------------------------------------------------------------
(* Failures *)

InTransaction(a) == ctx[a].phase \in Phases \ {"idle", "respond"}

\* Mutant of RollBack: the job is not put back.
RollBackForgetting(a) ==
  /\ InTransaction(a) /\ spent.faults < MaxFaults
  /\ Goto(a, Idle) /\ Spend("faults")
  /\ UNCHANGED <<db, orders, queue>>

\* A worker's transaction throws and is rolled back, and the job is retried.
RollBack(a) ==
  /\ InTransaction(a) /\ spent.faults < MaxFaults
  /\ Retry(a)
  /\ Goto(a, Idle) /\ Spend("faults")
  /\ UNCHANGED <<db, orders>>

\* The process dies: the open transaction and the job it held are gone.
Crash(a) ==
  /\ ctx[a].phase # "idle" /\ spent.crashes < MaxCrashes
  /\ Goto(a, Idle) /\ Spend("crashes")
  /\ UNCHANGED <<db, orders, queue>>

-----------------------------------------------------------------------------
WorkerStep(a) ==
  \/ DropInvalid(a)
  \/ TakeMap(a) \/ WriteMap(a) \/ CommitMap(a)
  \/ TakeConfirm(a) \/ Decide(a) \/ CommitDecision(a)
  \/ TakeSync(a) \/ PostOrder(a) \/ CommitSync(a) \/ GiveUp(a)

WebStep(b) == Decide(b) \/ CommitDecision(b) \/ EnqueueFromTap(b)

Next ==
  \/ Reply \/ DeadlinePasses \/ DeliverTwice
  \/ \E a \in Workers : WorkerStep(a) \/ FlushExpired(a) \/ RollBack(a)
  \/ \E b \in Webs : WebStep(b) \/ Tap(b) \/ Submit(b)
  \/ \E a \in Actors : Crash(a)

Spec == Init /\ [][Next]_vars

\* A running process goes on: the worker loop polls forever, a request handler
\* runs to its end.  Nothing obliges the owner to answer.
Fairness == /\ \A a \in Workers : WF_vars(WorkerStep(a))
            /\ \A b \in Webs : WF_vars(WebStep(b))

FairSpec == Spec /\ Fairness

-----------------------------------------------------------------------------
(* Properties *)

\* The tables, the queue and what each process holds keep their types: no
\* status outside its CHECK constraint (db/v2/migrations/014, 015) is written.
TypeOK ==
  /\ dict \in [Items -> {"none", "ai", "user"}]
  /\ item \in [Items -> ItemStatus]
  /\ row \in [Items -> [Runs -> RowStatus]]
  /\ hinted \subseteq Questions /\ late \subseteq Questions
  /\ key \in BOOLEAN
  /\ results \subseteq {"success", "failed"}
  /\ orders \in Seq(SUBSET Items)
  /\ queue \in [Jobs -> Nat]
  /\ ctx \in [Actors -> Context]
  /\ spent \in [{"runs", "replies", "taps", "copies", "faults", "crashes", "late"} -> Nat]

\* What the contexts carry from one step of a transaction to the next.
ContextOK ==
  \A a \in Actors :
    /\ ctx[a].phase \in {"map", "mapped"} => ctx[a].run \in Runs
    /\ ctx[a].phase = "mapped" => ctx[a].plan \in [Items -> Outcomes]
    /\ ctx[a].phase \in {"decide", "decided"} =>
         ctx[a].item \in Items /\ ctx[a].verdict \in Verdicts
    /\ a \in Webs => ctx[a].phase \in {"idle", "decide", "decided", "respond"}

\* A line that waits for the owner has a question the owner, or its expiry, can
\* still close: no commit order of runs, answers, taps and flushes strands it.
PendingHasQuestion ==
  \A i \in Items : item[i] = "pending" => \E g \in Runs : row[i][g] = "pending"

\* What the database says of KiotViet is so: the key is only there when an order
\* is, and a success is only reported under the key.
KeyMeansOrder ==
  /\ key => orders # <<>>
  /\ "success" \in results => key

\* Every purchase order beyond the first is paid for by a fault or a crash: the key
\* check keeps a lone worker from ordering twice, however often it is asked to.
DuplicatesCostFaults == Len(orders) <= 1 + spent.faults + spent.crashes

Quiet == /\ \A a \in Actors : ctx[a].phase = "idle"
         /\ \A j \in Jobs : queue[j] = 0

\* When all work is done and nothing is left to ask, an invoice with resolved
\* lines has been through a sync.
SettledMeansSynced ==
  Quiet /\ WithStatus("pending") = {} /\ WithStatus("resolved") # {} => results # {}

\* When all work is done, the order holds exactly the resolved lines.
OrderMatchesInvoice ==
  Quiet /\ orders # <<>> => orders[Len(orders)] = WithStatus("resolved")

\* No order is placed while a question about the invoice is open.
NoOrderWhileAsking == [][orders' # orders => WithStatus("pending") = {}]_vars

\* A line that was resolved or skipped is not processed again.
ProcessedOnce ==
  [][\A i \in Items : item[i] \in {"resolved", "skipped"} => item'[i] = item[i]]_vars

\* What the owner taught is not overwritten by a guess of the AI.
OwnerTeaches == [][\A i \in Items : dict[i] = "user" => dict'[i] = "user"]_vars

\* A sync that was enqueued is answered: some result is recorded, unless a worker
\* died (the queue loses the job it held).
SyncAnswered == (queue[SyncJob] > 0) ~> (results # {} \/ spent.crashes > 0)

\* So is the one the mini app announces to the owner ("Dang tao phieu nhap").
TapAnswered == (queue[BareSyncJob] > 0) ~> (results # {})

\* An answer to a question settles that question's line and no other, also when
\* the job is retried.
AnswerStaysPut ==
  \A a \in Workers : ctx[a].phase = "decide" /\ ctx[a].job.run # 0 =>
                       ctx[a].item = ctx[a].job.item

\* One purchase order per invoice.
AtMostOneOrder == Len(orders) <= 1
=============================================================================
