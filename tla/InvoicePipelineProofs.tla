------------------------ MODULE InvoicePipelineProofs ------------------------
(***************************************************************************)
(* Proofs about InvoicePipeline, for every set of lines, workers and mini  *)
(* app requests and every value of the bounds.                             *)
(***************************************************************************)
EXTENDS InvoicePipeline, TLAPS

-----------------------------------------------------------------------------
(* Lemmas about jobs. *)

\* What the assumption says of the bounds, spelled out.
LEMMA Bounds ==
  /\ Attempts \in Nat /\ MaxRetries \in Nat /\ MaxRuns \in Nat
  /\ 0 \in 0 .. Attempts /\ 0 \in 0 .. Attempts - 1 /\ 0 \in 0 .. MaxRuns
  /\ 0 \in 0 .. MaxRetries /\ Runs \subseteq 0 .. MaxRuns
BY ConstantsAssumption DEF Runs

\* A new job is a record of its fields with no attempt made, and an answer
\* carries a verdict.
LEMMA NewJobFields ==
  ASSUME NEW k \in NewJobs
  PROVE  /\ k \in Job /\ k.made = 0
         /\ k.type = "CONFIRM_MAPPING" => k.verdict \in Verdicts
<1>1. CASE k \in {MapJob, SyncJob, BareSyncJob}
  <2>1. MapJob \in Job /\ MapJob.made = 0 /\ MapJob.type = "MAP_RESOLVE"
    BY Bounds DEF BlankJob, MapJob, Job
  <2>2. SyncJob \in Job /\ SyncJob.made = 0 /\ SyncJob.type = "KIOTVIET_SYNC"
    BY Bounds DEF BlankJob, SyncJob, Job
  <2>3. BareSyncJob \in Job /\ BareSyncJob.made = 0 /\ BareSyncJob.type = "KIOTVIET_SYNC"
    BY Bounds DEF BlankJob, SyncJob, BareSyncJob, Job
  <2> QED
    BY <1>1, <2>1, <2>2, <2>3
<1>2. ASSUME NEW v \in Verdicts, NEW i \in Items \cup {NoItem}, NEW g \in 0 .. MaxRuns,
             k = ConfirmJob(v, i, g)
      PROVE  k \in Job /\ k.made = 0 /\ k.verdict \in Verdicts
  BY <1>2, Bounds DEF BlankJob, ConfirmJob, Job
<1>3. CASE k \in {ConfirmJob(v, NoItem, 0) : v \in Verdicts}
  BY <1>2, <1>3, Bounds
<1>4. CASE k \in {ConfirmJob(v, q[1], q[2]) : v \in Verdicts, q \in Questions}
  <2>1. PICK v \in Verdicts, q \in Questions : k = ConfirmJob(v, q[1], q[2])
    BY <1>4
  <2>2. q[1] \in Items /\ q[2] \in 0 .. MaxRuns
    BY Bounds DEF Questions
  <2> QED
    BY <1>2, <2>1, <2>2
<1> QED
  BY <1>1, <1>3, <1>4 DEF NewJobs

\* A new job can be put on the queue.
LEMMA NewIsJob == NewJobs \subseteq Jobs
<1> SUFFICES ASSUME NEW k \in NewJobs PROVE k \in Jobs
  OBVIOUS
<1>1. k \in Job /\ k.made = 0
  BY NewJobFields
<1>2. k = [k EXCEPT !.made = 0]
  BY <1>1 DEF Job
<1>3. 0 \in 0 .. Attempts - 1
  BY ConstantsAssumption
<1> QED
  BY <1>2, <1>3 DEF Jobs

\* A job of the queue is a record of its fields, and an answer carries a verdict.
LEMMA JobFields ==
  ASSUME NEW j \in Jobs
  PROVE  /\ j \in Job
         /\ j.type = "CONFIRM_MAPPING" => j.verdict \in Verdicts
<1>1. PICK k \in NewJobs, m \in 0 .. Attempts - 1 : j = [k EXCEPT !.made = m]
  BY DEF Jobs
<1>2. /\ k \in Job
      /\ k.type = "CONFIRM_MAPPING" => k.verdict \in Verdicts
  BY NewJobFields
<1>3. m \in 0 .. Attempts
  BY ConstantsAssumption
<1> QED
  BY <1>1, <1>2, <1>3 DEF Job

\* A retried job is a job, while it has attempts left.
LEMMA RetriedIsJob ==
  ASSUME NEW j \in Jobs, j.made + 1 < Attempts
  PROVE  [j EXCEPT !.made = @ + 1] \in Jobs
<1>1. PICK k \in NewJobs, m \in 0 .. Attempts - 1 : j = [k EXCEPT !.made = m]
  BY DEF Jobs
<1>2. k \in Job
  BY NewJobFields
<1>3. j.made = m
  BY <1>1, <1>2 DEF Job
<1>4. [j EXCEPT !.made = @ + 1] = [k EXCEPT !.made = m + 1]
  BY <1>1, <1>2, <1>3 DEF Job
<1>5. m + 1 \in 0 .. Attempts - 1
  BY <1>3, ConstantsAssumption
<1> QED
  BY <1>4, <1>5 DEF Jobs

-----------------------------------------------------------------------------
(* Types. *)

Types == TypeOK /\ ContextOK

LEMMA IdleContext == Idle \in Context /\ Idle.phase = "idle"
<1>1. BlankJob \in Jobs
  BY NewIsJob DEF NewJobs, MapJob
<1> QED
  BY <1>1, Bounds DEF Idle, Context, Phases, Outcomes, Verdicts

\* Moving one actor to a well-formed context keeps all contexts well formed.
LEMMA MoveTypes ==
  ASSUME TypeOK, ContextOK, NEW a \in Actors, NEW c \in Context, Goto(a, c),
         c.phase \in {"map", "mapped"} => c.run \in Runs,
         c.phase = "mapped" => c.plan \in [Items -> Outcomes],
         c.phase \in {"decide", "decided"} => c.item \in Items /\ c.verdict \in Verdicts,
         a \in Webs => c.phase \in {"idle", "decide", "decided", "respond"}
  PROVE  ctx' \in [Actors -> Context] /\ ContextOK'
BY DEF TypeOK, ContextOK, Goto

LEMMA SpendTypes ==
  ASSUME TypeOK,
         NEW w \in {"runs", "replies", "taps", "copies", "faults", "crashes", "late"},
         Spend(w)
  PROVE  spent' \in [{"runs", "replies", "taps", "copies", "faults", "crashes", "late"} -> Nat]
BY DEF TypeOK, Spend

LEMMA PutTypes ==
  ASSUME TypeOK, NEW j \in Jobs, Put(j)
  PROVE  queue' \in [Jobs -> Nat]
BY DEF TypeOK, Put

LEMMA TakeTypes ==
  ASSUME TypeOK, NEW a, NEW j \in Jobs, Take(a, j)
  PROVE  queue' \in [Jobs -> Nat]
BY DEF TypeOK, Take

LEMMA RetryTypes ==
  ASSUME Types, NEW a \in Actors, Retry(a)
  PROVE  queue' \in [Jobs -> Nat]
<1>1. ctx[a].job \in Jobs
  BY DEF Types, TypeOK, Context
<1>2. ctx[a].job.made + 1 < Attempts => [ctx[a].job EXCEPT !.made = @ + 1] \in Jobs
  BY <1>1, RetriedIsJob
<1> QED
  BY <1>2, PutTypes DEF Retry, Types, TypeOK

LEMMA CloseTypes ==
  ASSUME Types, NEW a \in Actors, NEW c, Close(a, c)
  PROVE  /\ queue' \in [Jobs -> Nat]
         /\ spent' \in [{"runs", "replies", "taps", "copies", "faults", "crashes", "late"} -> Nat]
BY RetryTypes, SpendTypes DEF Close, Types, TypeOK

\* The environment: replies, deadlines, copies.
LEMMA TypesOwner ==
  ASSUME Types, Reply \/ DeadlinePasses \/ DeliverTwice
  PROVE  Types'
<1> USE DEF Types
<1>1. CASE DeliverTwice
  <2>1. queue' \in [Jobs -> Nat]
    BY <1>1, PutTypes DEF DeliverTwice
  <2>2. spent' \in [{"runs", "replies", "taps", "copies", "faults", "crashes", "late"} -> Nat]
    BY <1>1, SpendTypes DEF DeliverTwice
  <2> QED
    BY <1>1, <2>1, <2>2 DEF DeliverTwice, TypeOK, ContextOK, db
<1>2. CASE Reply
  <2>1. PICK j \in Jobs : Put(j)
    BY <1>2, NewIsJob DEF Reply, NewJobs
  <2>2. queue' \in [Jobs -> Nat]
    BY <2>1, PutTypes
  <2>3. spent' \in [{"runs", "replies", "taps", "copies", "faults", "crashes", "late"} -> Nat]
    BY <1>2, SpendTypes DEF Reply
  <2> QED
    BY <1>2, <2>2, <2>3 DEF Reply, TypeOK, ContextOK, db
<1>3. CASE DeadlinePasses
  <2>1. spent' \in [{"runs", "replies", "taps", "copies", "faults", "crashes", "late"} -> Nat]
    BY <1>3, SpendTypes DEF DeadlinePasses
  <2> QED
    BY <1>3, <2>1 DEF DeadlinePasses, TypeOK, ContextOK
<1> QED
  BY <1>1, <1>2, <1>3

\* MAP_RESOLVE.
LEMMA TypesMap ==
  ASSUME Types, NEW a \in Workers, TakeMap(a) \/ WriteMap(a) \/ CommitMap(a)
  PROVE  Types'
<1> USE DEF Types
<1>0. a \in Actors /\ a \notin Webs
  BY ConstantsAssumption DEF Actors
<1>1. CASE TakeMap(a)
  <2>1. PICK j \in Jobs :
          /\ spent.runs < MaxRuns /\ Take(a, j)
          /\ Goto(a, [Idle EXCEPT !.phase = "map", !.job = j, !.run = spent.runs + 1,
                                  !.lines = Known])
          /\ Spend("runs") /\ UNCHANGED <<db, orders>>
    BY <1>1 DEF TakeMap
  <2> DEFINE c == [Idle EXCEPT !.phase = "map", !.job = j, !.run = spent.runs + 1,
                               !.lines = Known]
  <2>2. spent.runs + 1 \in Runs
    BY <2>1, Bounds DEF TypeOK, Runs
  <2>3. c \in Context /\ c.phase = "map" /\ c.run \in Runs
    BY <2>2, IdleContext, Bounds, ConstantsAssumption DEF Context, Phases, Known
  <2>4. ctx' \in [Actors -> Context] /\ ContextOK'
    BY <1>0, <2>1, <2>3, MoveTypes
  <2>5. queue' \in [Jobs -> Nat]
    BY <2>1, TakeTypes
  <2>6. spent' \in [{"runs", "replies", "taps", "copies", "faults", "crashes", "late"} -> Nat]
    BY <2>1, SpendTypes
  <2> QED
    BY <2>1, <2>4, <2>5, <2>6 DEF TypeOK, db
<1>2. CASE WriteMap(a)
  <2>1. PICK plan \in [Items -> Outcomes] :
          Goto(a, [ctx[a] EXCEPT !.phase = "mapped", !.plan = plan])
    BY <1>2 DEF WriteMap
  <2> DEFINE c == [ctx[a] EXCEPT !.phase = "mapped", !.plan = plan]
  <2>2. ctx[a] \in Context /\ ctx[a].run \in Runs
    BY <1>0, <1>2 DEF WriteMap, TypeOK, ContextOK
  <2>3. c \in Context /\ c.phase = "mapped" /\ c.run \in Runs /\ c.plan = plan
    BY <2>2 DEF Context, Phases
  <2>4. ctx' \in [Actors -> Context] /\ ContextOK'
    BY <1>0, <2>1, <2>3, MoveTypes
  <2>5. queue' \in [Jobs -> Nat]
    <3>1. SyncJob \in Jobs
      BY NewIsJob DEF NewJobs
    <3> QED
      BY <1>2, <3>1, PutTypes DEF WriteMap, TypeOK
  <2> QED
    BY <1>2, <2>4, <2>5 DEF WriteMap, TypeOK, db
<1>3. CASE CommitMap(a)
  <2>1. ctx' \in [Actors -> Context] /\ ContextOK'
    BY <1>0, <1>3, IdleContext, MoveTypes DEF CommitMap, Close
  <2>2. /\ dict' \in [Items -> {"none", "ai", "user"}]
        /\ item' \in [Items -> ItemStatus]
    BY <1>3 DEF CommitMap, TypeOK, ItemStatus
  <2>3. row' \in [Items -> [Runs -> RowStatus]]
    BY <1>3 DEF CommitMap, TypeOK, RowStatus
  <2>4. ctx[a].run \in Runs
    BY <1>0, <1>3 DEF CommitMap, ContextOK
  <2>5. hinted' \subseteq Questions
    BY <1>3, <2>4 DEF CommitMap, TypeOK, Questions
  <2>6. /\ queue' \in [Jobs -> Nat]
        /\ spent' \in [{"runs", "replies", "taps", "copies", "faults", "crashes", "late"} -> Nat]
    BY <1>0, <1>3, CloseTypes DEF CommitMap
  <2> QED
    BY <1>3, <2>1, <2>2, <2>3, <2>5, <2>6 DEF CommitMap, TypeOK
<1> QED
  BY <1>1, <1>2, <1>3

\* CONFIRM_MAPPING and the mini app.
LEMMA TypesTakeConfirm ==
  ASSUME Types, NEW a \in Workers, TakeConfirm(a) \/ DropInvalid(a)
  PROVE  Types'
<1> USE DEF Types
<1>0. a \in Actors /\ a \notin Webs
  BY ConstantsAssumption DEF Actors
<1>1. CASE TakeConfirm(a)
  <2>1. PICK j \in Jobs :
          /\ j.type = "CONFIRM_MAPPING" /\ Take(a, j)
          /\ \/ (Addressed(j) = {} \/ j.verdict = "sku") /\ UNCHANGED ctx
             \/ \E q \in Addressed(j) :
                  Goto(a, [Idle EXCEPT !.phase = "decide", !.job = j, !.item = q[1],
                                       !.run = q[2], !.verdict = j.verdict])
          /\ UNCHANGED <<db, orders, spent>>
    BY <1>1 DEF TakeConfirm
  <2>2. queue' \in [Jobs -> Nat]
    BY <2>1, TakeTypes
  <2>3. ctx' \in [Actors -> Context] /\ ContextOK'
    <3>1. CASE UNCHANGED ctx
      BY <3>1 DEF TypeOK, ContextOK
    <3>2. ASSUME NEW q \in Addressed(j),
                 Goto(a, [Idle EXCEPT !.phase = "decide", !.job = j, !.item = q[1],
                                      !.run = q[2], !.verdict = j.verdict])
          PROVE  ctx' \in [Actors -> Context] /\ ContextOK'
      <4> DEFINE c == [Idle EXCEPT !.phase = "decide", !.job = j, !.item = q[1],
                                   !.run = q[2], !.verdict = j.verdict]
      <4>1. q \in Questions
        BY DEF Addressed, Answerable, Lone
      <4>2. q[1] \in Items /\ q[2] \in 0 .. MaxRuns /\ j.verdict \in Verdicts
        BY <2>1, <4>1, Bounds, JobFields DEF Questions
      <4>3. c \in Context /\ c.phase = "decide" /\ c.item \in Items /\ c.verdict \in Verdicts
        BY <4>2, IdleContext DEF Context, Phases
      <4> QED
        BY <1>0, <3>2, <4>3, MoveTypes
    <3> QED
      BY <2>1, <3>1, <3>2
  <2> QED
    BY <2>1, <2>2, <2>3 DEF TypeOK, db
<1>2. CASE DropInvalid(a)
  BY <1>2, TakeTypes DEF DropInvalid, TypeOK, ContextOK, db
<1> QED
  BY <1>1, <1>2

LEMMA TypesDecision ==
  ASSUME Types, NEW a \in Actors, Decide(a) \/ CommitDecision(a)
  PROVE  Types'
<1> USE DEF Types
<1>1. CASE Decide(a)
  <2>1. PICK ready \in BOOLEAN :
          /\ Goto(a, [ctx[a] EXCEPT !.phase = "decided", !.sync = ready])
          /\ Put(SyncJob) \/ UNCHANGED queue
    BY <1>1 DEF Decide, ReadyToSync
  <2> DEFINE c == [ctx[a] EXCEPT !.phase = "decided", !.sync = ready]
  <2>2. ctx[a] \in Context /\ ctx[a].item \in Items /\ ctx[a].verdict \in Verdicts
    BY <1>1 DEF Decide, TypeOK, ContextOK
  <2>3. c \in Context /\ c.phase = "decided" /\ c.item \in Items /\ c.verdict \in Verdicts
    BY <2>2 DEF Context, Phases
  <2>4. ctx' \in [Actors -> Context] /\ ContextOK'
    BY <2>1, <2>3, MoveTypes
  <2>5. queue' \in [Jobs -> Nat]
    BY <2>1, NewIsJob, PutTypes DEF NewJobs, TypeOK
  <2> QED
    BY <1>1, <2>4, <2>5 DEF Decide, TypeOK, db
<1>2. CASE CommitDecision(a)
  <2>1. ctx[a].item \in Items /\ ctx[a].verdict \in Verdicts
    BY <1>2 DEF CommitDecision, ContextOK
  <2>2. Decided(ctx[a].verdict) \in ItemStatus /\ Closed(ctx[a].verdict) \in RowStatus
    BY <2>1 DEF Decided, Closed, Verdicts, ItemStatus, RowStatus
  <2>3. item' \in [Items -> ItemStatus]
    BY <1>2, <2>2 DEF CommitDecision, Seen, TypeOK
  <2>4. row' \in [Items -> [Runs -> RowStatus]]
    BY <1>2, <2>1, <2>2 DEF CommitDecision, TypeOK
  <2>5. dict' \in [Items -> {"none", "ai", "user"}]
    BY <1>2 DEF CommitDecision, TypeOK
  <2>6. [Idle EXCEPT !.phase = "respond"] \in Context
    BY IdleContext DEF Context, Phases
  <2>7. ctx' \in [Actors -> Context] /\ ContextOK'
    <3>1. CASE Goto(a, Idle)
      BY <3>1, IdleContext, MoveTypes
    <3>2. CASE Goto(a, [Idle EXCEPT !.phase = "respond"])
      <4>1. [Idle EXCEPT !.phase = "respond"].phase = "respond"
        BY DEF Idle
      <4> QED
        BY <2>6, <3>2, <4>1, MoveTypes
    <3> QED
      BY <1>2, <3>1, <3>2 DEF CommitDecision, Close
  <2>8. /\ queue' \in [Jobs -> Nat]
        /\ spent' \in [{"runs", "replies", "taps", "copies", "faults", "crashes", "late"} -> Nat]
    BY <1>2, CloseTypes DEF CommitDecision
  <2> QED
    BY <1>2, <2>3, <2>4, <2>5, <2>7, <2>8 DEF CommitDecision, TypeOK
<1> QED
  BY <1>1, <1>2

LEMMA TypesWeb ==
  ASSUME Types, NEW b \in Webs, Tap(b) \/ Submit(b) \/ EnqueueFromTap(b)
  PROVE  Types'
<1> USE DEF Types
<1>0. b \in Actors
  BY DEF Actors
<1>1. BareSyncJob \in Jobs
  BY NewIsJob DEF NewJobs
<1>2. CASE Tap(b)
  <2>1. PICK v \in Verdicts, i \in Items, g \in 0 .. MaxRuns :
          Goto(b, [Idle EXCEPT !.phase = "decide", !.item = i, !.run = g, !.verdict = v])
    BY <1>2 DEF Tap
  <2> DEFINE c == [Idle EXCEPT !.phase = "decide", !.item = i, !.run = g, !.verdict = v]
  <2>2. c \in Context /\ c.phase = "decide" /\ c.item \in Items /\ c.verdict \in Verdicts
    BY IdleContext DEF Context, Phases
  <2>3. ctx' \in [Actors -> Context] /\ ContextOK'
    BY <1>0, <2>1, <2>2, MoveTypes
  <2>4. spent' \in [{"runs", "replies", "taps", "copies", "faults", "crashes", "late"} -> Nat]
    BY <1>2, SpendTypes DEF Tap
  <2> QED
    BY <1>2, <2>3, <2>4 DEF Tap, TypeOK, db
<1>3. CASE Submit(b)
  <2>1. queue' \in [Jobs -> Nat]
    BY <1>1, <1>3, PutTypes DEF Submit
  <2>2. spent' \in [{"runs", "replies", "taps", "copies", "faults", "crashes", "late"} -> Nat]
    BY <1>3, SpendTypes DEF Submit
  <2> QED
    BY <1>3, <2>1, <2>2 DEF Submit, TypeOK, ContextOK, db
<1>4. CASE EnqueueFromTap(b)
  <2>1. queue' \in [Jobs -> Nat]
    BY <1>1, <1>4, PutTypes DEF EnqueueFromTap
  <2>2. ctx' \in [Actors -> Context] /\ ContextOK'
    BY <1>0, <1>4, IdleContext, MoveTypes DEF EnqueueFromTap
  <2> QED
    BY <1>4, <2>1, <2>2 DEF EnqueueFromTap, TypeOK, db
<1> QED
  BY <1>2, <1>3, <1>4

LEMMA TypesFlush ==
  ASSUME Types, NEW a \in Workers, FlushExpired(a)
  PROVE  Types'
<1>1. item' \in [Items -> ItemStatus]
  BY DEF Types, FlushExpired, TypeOK, ItemStatus
<1>2. row' \in [Items -> [Runs -> RowStatus]]
  BY DEF Types, FlushExpired, TypeOK, RowStatus
<1> QED
  BY <1>1, <1>2 DEF Types, FlushExpired, TypeOK, ContextOK

\* KIOTVIET_SYNC.
LEMMA TypesSync ==
  ASSUME Types, NEW a \in Workers,
         TakeSync(a) \/ PostOrder(a) \/ CommitSync(a) \/ GiveUp(a)
  PROVE  Types'
<1> USE DEF Types
<1>0. a \in Actors /\ a \notin Webs
  BY ConstantsAssumption DEF Actors
<1>1. CASE TakeSync(a)
  <2>1. PICK j \in Jobs :
          /\ Take(a, j)
          /\ \/ UNCHANGED ctx
             \/ Goto(a, [Idle EXCEPT !.phase = "post", !.job = j,
                                     !.lines = WithStatus("resolved")])
    BY <1>1 DEF TakeSync
  <2>2. queue' \in [Jobs -> Nat]
    BY <2>1, TakeTypes
  <2>3. ctx' \in [Actors -> Context] /\ ContextOK'
    <3>1. CASE UNCHANGED ctx
      BY <3>1 DEF TypeOK, ContextOK
    <3>2. CASE Goto(a, [Idle EXCEPT !.phase = "post", !.job = j,
                                    !.lines = WithStatus("resolved")])
      <4> DEFINE c == [Idle EXCEPT !.phase = "post", !.job = j, !.lines = WithStatus("resolved")]
      <4>1. c \in Context /\ c.phase = "post"
        BY IdleContext DEF Context, Phases, WithStatus
      <4> QED
        BY <1>0, <3>2, <4>1, MoveTypes
    <3> QED
      BY <2>1, <3>1, <3>2
  <2>4. results' \subseteq {"success", "failed"}
    BY <1>1 DEF TakeSync, TypeOK
  <2> QED
    BY <1>1, <2>2, <2>3, <2>4 DEF TakeSync, TypeOK
<1>2. CASE PostOrder(a)
  <2>1. ctx[a] \in Context /\ ctx[a].lines \subseteq Items /\ ctx[a].tries \in 0 .. MaxRetries
    BY <1>0 DEF TypeOK, Context
  <2>2. orders' \in Seq(SUBSET Items)
    <3>1. orders \in Seq(SUBSET Items) /\ ctx[a].lines \in SUBSET Items
      BY <2>1 DEF TypeOK
    <3>2. Append(orders, ctx[a].lines) \in Seq(SUBSET Items)
      BY <3>1
    <3>3. orders' = orders \/ orders' = Append(orders, ctx[a].lines)
      BY <1>2 DEF PostOrder
    <3> QED
      BY <3>1, <3>2, <3>3
  <2>3. spent' \in [{"runs", "replies", "taps", "copies", "faults", "crashes", "late"} -> Nat]
    BY <1>2, SpendTypes DEF PostOrder, TypeOK
  <2>4. \/ Goto(a, [ctx[a] EXCEPT !.phase = "record"])
        \/ ctx[a].tries + 1 < MaxRetries /\ Goto(a, [ctx[a] EXCEPT !.tries = @ + 1])
        \/ Goto(a, [ctx[a] EXCEPT !.phase = "giveup"])
    BY <1>2 DEF PostOrder
  <2>5. ctx' \in [Actors -> Context] /\ ContextOK'
    <3>1. CASE Goto(a, [ctx[a] EXCEPT !.phase = "record"])
      <4> DEFINE c == [ctx[a] EXCEPT !.phase = "record"]
      <4>1. c \in Context /\ c.phase = "record"
        BY <2>1 DEF Context, Phases
      <4> QED
        BY <1>0, <3>1, <4>1, MoveTypes
    <3>2. CASE ctx[a].tries + 1 < MaxRetries /\ Goto(a, [ctx[a] EXCEPT !.tries = @ + 1])
      <4> DEFINE c == [ctx[a] EXCEPT !.tries = @ + 1]
      <4>1. ctx[a].tries + 1 \in 0 .. MaxRetries
        BY <2>1, <3>2, Bounds
      <4>2. c \in Context /\ c.phase = "post"
        BY <1>2, <2>1, <4>1 DEF Context, PostOrder
      <4> QED
        BY <1>0, <3>2, <4>2, MoveTypes
    <3>3. CASE Goto(a, [ctx[a] EXCEPT !.phase = "giveup"])
      <4> DEFINE c == [ctx[a] EXCEPT !.phase = "giveup"]
      <4>1. c \in Context /\ c.phase = "giveup"
        BY <2>1 DEF Context, Phases
      <4> QED
        BY <1>0, <3>3, <4>1, MoveTypes
    <3> QED
      BY <2>4, <3>1, <3>2, <3>3
  <2> QED
    BY <1>2, <2>2, <2>3, <2>5 DEF PostOrder, TypeOK, db
<1>3. CASE CommitSync(a) \/ GiveUp(a)
  <2>1. ctx' \in [Actors -> Context] /\ ContextOK'
    BY <1>0, <1>3, IdleContext, MoveTypes DEF CommitSync, GiveUp, Close
  <2>2. /\ queue' \in [Jobs -> Nat]
        /\ spent' \in [{"runs", "replies", "taps", "copies", "faults", "crashes", "late"} -> Nat]
    BY <1>0, <1>3, CloseTypes, SpendTypes DEF CommitSync, GiveUp, TypeOK
  <2> QED
    BY <1>3, <2>1, <2>2 DEF CommitSync, GiveUp, TypeOK
<1> QED
  BY <1>1, <1>2, <1>3

\* Failures.
LEMMA TypesFailure ==
  ASSUME Types, NEW a \in Actors, RollBack(a) \/ Crash(a)
  PROVE  Types'
<1> USE DEF Types
<1>1. ctx' \in [Actors -> Context] /\ ContextOK'
  BY IdleContext, MoveTypes DEF RollBack, Crash
<1>2. spent' \in [{"runs", "replies", "taps", "copies", "faults", "crashes", "late"} -> Nat]
  BY SpendTypes DEF RollBack, Crash
<1>3. queue' \in [Jobs -> Nat]
  BY RetryTypes DEF RollBack, Crash, TypeOK
<1> QED
  BY <1>1, <1>2, <1>3 DEF RollBack, Crash, TypeOK, db

LEMMA TypesInit == Init => Types
<1> SUFFICES ASSUME Init PROVE Types
  OBVIOUS
<1>1. ctx \in [Actors -> Context] /\ ContextOK
  BY IdleContext DEF Init, ContextOK
<1>2. /\ dict \in [Items -> {"none", "ai", "user"}]
      /\ item \in [Items -> ItemStatus]
      /\ row \in [Items -> [Runs -> RowStatus]]
  BY DEF Init, ItemStatus, RowStatus
<1>3. /\ orders \in Seq(SUBSET Items)
      /\ queue \in [Jobs -> Nat]
      /\ key \in BOOLEAN
  <2>1. /\ orders = <<>> /\ key = FALSE
        /\ queue = [j \in Jobs |-> IF j = MapJob THEN 1 ELSE 0]
    BY DEF Init
  <2>2. <<>> \in Seq(SUBSET Items)
    OBVIOUS
  <2> QED
    BY <2>1, <2>2
<1>4. spent \in [{"runs", "replies", "taps", "copies", "faults", "crashes", "late"} -> Nat]
  BY DEF Init
<1> QED
  BY <1>1, <1>2, <1>3, <1>4 DEF Init, Types, TypeOK

LEMMA TypesNext == Types /\ [Next]_vars => Types'
<1> SUFFICES ASSUME Types, [Next]_vars PROVE Types'
  OBVIOUS
<1>1. CASE Reply \/ DeadlinePasses \/ DeliverTwice
  BY <1>1, TypesOwner
<1>2. ASSUME NEW a \in Workers, WorkerStep(a) \/ FlushExpired(a) \/ RollBack(a)
      PROVE  Types'
  <2>1. a \in Actors
    BY DEF Actors
  <2> QED
    BY <1>2, <2>1, TypesMap, TypesTakeConfirm, TypesDecision, TypesSync, TypesFlush, TypesFailure
    DEF WorkerStep
<1>3. ASSUME NEW b \in Webs, WebStep(b) \/ Tap(b) \/ Submit(b)
      PROVE  Types'
  <2>1. b \in Actors
    BY DEF Actors
  <2> QED
    BY <1>3, <2>1, TypesWeb, TypesDecision DEF WebStep
<1>4. ASSUME NEW a \in Actors, Crash(a)
      PROVE  Types'
  BY <1>4, TypesFailure
<1>5. CASE UNCHANGED vars
  BY <1>5 DEF vars, Types, TypeOK, ContextOK
<1> QED
  BY <1>1, <1>2, <1>3, <1>4, <1>5 DEF Next

\* The stored statuses, the queue and every context are always well formed: no
\* retry, rollback or interleaving leaves a transaction without its row, run or
\* verdict (mapping-resolve.ts, process-confirm-mapping.ts, kiotviet-sync.ts).
THEOREM TypeCorrect == Spec => []TypeOK
<1>1. Spec => []Types
  BY TypesInit, TypesNext, PTL DEF Spec
<1> QED
  BY <1>1, PTL DEF Types

-----------------------------------------------------------------------------
(* No line waits without a question. *)

\* Only three commits touch the lines and the questions.
LEMMA WhoWritesLines ==
  ASSUME [Next]_vars
  PROVE  \/ UNCHANGED <<item, row>>
         \/ \E a \in Workers : CommitMap(a) \/ FlushExpired(a)
         \/ \E a \in Actors : CommitDecision(a)
<1>1. CASE Reply \/ DeadlinePasses \/ DeliverTwice
  BY <1>1 DEF Reply, DeadlinePasses, DeliverTwice, db
<1>2. ASSUME NEW a \in Workers, WorkerStep(a) \/ RollBack(a),
             ~CommitMap(a), ~CommitDecision(a)
      PROVE  UNCHANGED <<item, row>>
  BY <1>2 DEF WorkerStep, DropInvalid, TakeMap, WriteMap, TakeConfirm, Decide, TakeSync,
              PostOrder, CommitSync, GiveUp, RollBack, db
<1>3. ASSUME NEW b \in Webs, WebStep(b) \/ Tap(b) \/ Submit(b), ~CommitDecision(b)
      PROVE  UNCHANGED <<item, row>>
  BY <1>3 DEF WebStep, Decide, EnqueueFromTap, Tap, Submit, db
<1>4. ASSUME NEW a \in Actors, Crash(a) PROVE UNCHANGED <<item, row>>
  BY <1>4 DEF Crash, db
<1>5. CASE UNCHANGED vars
  BY <1>5 DEF vars
<1> QED
  BY <1>1, <1>2, <1>3, <1>4, <1>5 DEF Next, Actors

LEMMA PendingNext ==
  Types /\ PendingHasQuestion /\ [Next]_vars => PendingHasQuestion'
<1> SUFFICES ASSUME Types, PendingHasQuestion, [Next]_vars,
                    NEW i \in Items, item'[i] = "pending"
             PROVE  \E g \in Runs : row'[i][g] = "pending"
  BY DEF PendingHasQuestion
<1>1. CASE UNCHANGED <<item, row>>
  BY <1>1 DEF PendingHasQuestion
\* The run asks about every line it leaves waiting.
<1>2. ASSUME NEW a \in Workers, CommitMap(a)
      PROVE  \E g \in Runs : row'[i][g] = "pending"
  <2>1. /\ ctx[a].run \in Runs
        /\ ctx[a].plan[i] \in Outcomes
    BY <1>2 DEF Types, ContextOK, CommitMap, Actors
  <2>2. ctx[a].plan[i] \in {"ask", "open"}
    BY <1>2, <2>1 DEF CommitMap, Outcomes
  <2>3. row'[i][ctx[a].run] = "pending"
    BY <1>2, <2>1, <2>2 DEF CommitMap
  <2> QED
    BY <2>1, <2>3
\* A decision closes a question of the line it settles, and of no other.
<1>3. ASSUME NEW a \in Actors, CommitDecision(a)
      PROVE  \E g \in Runs : row'[i][g] = "pending"
  <2>1. ctx[a].item \in Items /\ ctx[a].verdict \in Verdicts
    BY <1>3 DEF Types, ContextOK, CommitDecision
  <2>2. i # ctx[a].item
    BY <1>3, <2>1 DEF CommitDecision, Seen, Decided, Verdicts, Types, TypeOK
  <2>3. item[i] = "pending" /\ row'[i] = row[i]
    BY <1>3, <2>2 DEF CommitDecision, Seen, Types, TypeOK
  <2> QED
    BY <2>3 DEF PendingHasQuestion
\* An expired question takes its line out of waiting.
<1>4. ASSUME NEW a \in Workers, FlushExpired(a)
      PROVE  \E g \in Runs : row'[i][g] = "pending"
  <2> DEFINE overdue == {q \in late : row[q[1]][q[2]] = "pending"}
             stale == {q[1] : q \in overdue}
  <2>1. i \notin stale /\ item[i] = "pending"
    BY <1>4 DEF FlushExpired
  <2>2. PICK g \in Runs : row[i][g] = "pending"
    BY <2>1 DEF PendingHasQuestion
  <2>3. <<i, g>> \notin overdue
    BY <2>1
  <2>4. row'[i][g] = "pending"
    BY <1>4, <2>2, <2>3 DEF FlushExpired
  <2> QED
    BY <2>4
<1> QED
  BY <1>1, <1>2, <1>3, <1>4, WhoWritesLines

\* A line that waits for the owner always has an open question: no order of
\* mapping runs, answers, taps and expiries, with any number of processes and
\* any crashes, strands it (mapping-resolve.ts:300, process-confirm-mapping.ts:160,
\* routes/confirm.ts:95, notifier.ts:404).
THEOREM NoLineStranded == Spec => []PendingHasQuestion
<1>1. Init => PendingHasQuestion
  BY DEF Init, PendingHasQuestion
<1>2. Spec => []Types
  BY TypesInit, TypesNext, PTL DEF Spec
<1> QED
  BY <1>1, <1>2, PendingNext, PTL DEF Spec

-----------------------------------------------------------------------------
(* The idempotency key. *)

\* What a move changes: the context of the mover, and of nobody else.
LEMMA Moved ==
  ASSUME Types, NEW a \in Actors, NEW c, Goto(a, c), NEW b \in Actors
  PROVE  ctx'[b] = IF b = a THEN c ELSE ctx[b]
BY DEF Types, TypeOK, Goto

\* The phases a sync goes through are entered one from the other.
LEMMA WhoSyncs ==
  ASSUME Types, [Next]_vars, NEW b \in Actors
  PROVE  /\ ctx'[b].phase = "post" => ctx[b].phase = "post" \/ (b \in Workers /\ TakeSync(b))
         /\ ctx'[b].phase = "record" => ctx[b].phase = "record" \/ (b \in Workers /\ PostOrder(b))
<1> DEFINE P == /\ ctx'[b].phase = "post" => ctx[b].phase = "post" \/ (b \in Workers /\ TakeSync(b))
                /\ ctx'[b].phase = "record" => ctx[b].phase = "record" \/ (b \in Workers /\ PostOrder(b))
<1> SUFFICES P
  OBVIOUS
<1>0. ctx[b] \in Context
  BY DEF Types, TypeOK
<1>1. ASSUME UNCHANGED ctx PROVE P
  BY <1>1
<1>2. ASSUME NEW a \in Actors, Goto(a, Idle) \/ Goto(a, [Idle EXCEPT !.phase = "respond"])
      PROVE  P
  BY <1>2, Moved DEF Idle
<1>3. ASSUME NEW a \in Workers, TakeMap(a) \/ WriteMap(a) \/ TakeConfirm(a)
      PROVE  P
  <2>0. a \in Actors /\ ctx[a] \in Context
    BY DEF Actors, Types, TypeOK
  <2>1. CASE TakeMap(a)
    <3>1. PICK j \in Jobs :
            Goto(a, [Idle EXCEPT !.phase = "map", !.job = j, !.run = spent.runs + 1,
                                 !.lines = Known])
      BY <2>1 DEF TakeMap
    <3> DEFINE c == [Idle EXCEPT !.phase = "map", !.job = j, !.run = spent.runs + 1,
                                 !.lines = Known]
    <3>2. c.phase = "map"
      BY DEF Idle
    <3> QED
      BY <2>0, <3>1, <3>2, Moved
  <2>2. CASE WriteMap(a)
    <3>1. PICK plan : Goto(a, [ctx[a] EXCEPT !.phase = "mapped", !.plan = plan])
      BY <2>2 DEF WriteMap
    <3>2. [ctx[a] EXCEPT !.phase = "mapped", !.plan = plan].phase = "mapped"
      BY <2>0 DEF Context
    <3> QED
      BY <2>0, <3>1, <3>2, Moved
  <2>3. CASE TakeConfirm(a)
    <3>1. ASSUME NEW j, NEW q,
                 Goto(a, [Idle EXCEPT !.phase = "decide", !.job = j, !.item = q[1],
                                      !.run = q[2], !.verdict = j.verdict])
          PROVE  P
      <4> DEFINE c == [Idle EXCEPT !.phase = "decide", !.job = j, !.item = q[1],
                                   !.run = q[2], !.verdict = j.verdict]
      <4>1. c.phase = "decide"
        BY DEF Idle
      <4> QED
        BY <2>0, <3>1, <4>1, Moved
    <3> QED
      BY <1>1, <2>3, <3>1 DEF TakeConfirm
  <2> QED
    BY <1>3, <2>1, <2>2, <2>3
<1>4. ASSUME NEW a \in Actors, Decide(a) PROVE P
  <2>1. PICK ready : Goto(a, [ctx[a] EXCEPT !.phase = "decided", !.sync = ready])
    BY <1>4 DEF Decide
  <2>2. [ctx[a] EXCEPT !.phase = "decided", !.sync = ready].phase = "decided"
    BY DEF Types, TypeOK, Context
  <2> QED
    BY <2>1, <2>2, Moved
<1>5. ASSUME NEW a \in Webs, Tap(a) PROVE P
  <2>1. PICK v, i, g :
          Goto(a, [Idle EXCEPT !.phase = "decide", !.item = i, !.run = g, !.verdict = v])
    BY <1>5 DEF Tap
  <2> DEFINE c == [Idle EXCEPT !.phase = "decide", !.item = i, !.run = g, !.verdict = v]
  <2>2. a \in Actors /\ c.phase = "decide"
    BY DEF Actors, Idle
  <2> QED
    BY <2>1, <2>2, Moved
<1>6. ASSUME NEW a \in Workers, TakeSync(a) PROVE P
  <2>1. ASSUME NEW j, Goto(a, [Idle EXCEPT !.phase = "post", !.job = j,
                                          !.lines = WithStatus("resolved")])
        PROVE  P
    <3> DEFINE c == [Idle EXCEPT !.phase = "post", !.job = j, !.lines = WithStatus("resolved")]
    <3>1. a \in Actors /\ c.phase = "post"
      BY DEF Actors, Idle
    <3> QED
      BY <1>6, <2>1, <3>1, Moved
  <2> QED
    BY <1>1, <1>6, <2>1 DEF TakeSync
<1>7. ASSUME NEW a \in Workers, PostOrder(a) PROVE P
  <2>0. a \in Actors /\ ctx[a] \in Context
    BY DEF Actors, Types, TypeOK
  <2>1. PICK c : Goto(a, c) /\ c.phase \in {"post", "record", "giveup"}
    BY <1>7, <2>0 DEF PostOrder, Context
  <2>2. ctx[a].phase = "post"
    BY <1>7 DEF PostOrder
  <2> QED
    BY <1>7, <2>0, <2>1, <2>2, Moved
<1>8. CASE Reply \/ DeadlinePasses \/ DeliverTwice \/ UNCHANGED vars
  BY <1>1, <1>8 DEF Reply, DeadlinePasses, DeliverTwice, vars
<1>9. ASSUME NEW a \in Workers,
             DropInvalid(a) \/ CommitMap(a) \/ CommitDecision(a) \/ CommitSync(a) \/ GiveUp(a)
             \/ FlushExpired(a) \/ RollBack(a)
      PROVE  P
  BY <1>1, <1>2, <1>9 DEF DropInvalid, CommitMap, CommitDecision, CommitSync, GiveUp,
       FlushExpired, RollBack, Close, Actors
<1>10. ASSUME NEW a \in Webs, CommitDecision(a) \/ EnqueueFromTap(a) \/ Submit(a)
       PROVE  P
  BY <1>1, <1>2, <1>10 DEF CommitDecision, EnqueueFromTap, Submit, Close, Actors
<1>11. ASSUME NEW a \in Actors, Crash(a) PROVE P
  BY <1>2, <1>11 DEF Crash
<1> QED
  BY <1>3, <1>4, <1>5, <1>6, <1>7, <1>8, <1>9, <1>10, <1>11
  DEF Next, WorkerStep, WebStep, Actors

\* Who touches the orders, the key and the results.
LEMMA WhoOrders ==
  ASSUME [Next]_vars
  PROVE  \/ UNCHANGED <<orders, key, results>>
         \/ \E a \in Workers :
              \/ PostOrder(a)
              \/ CommitSync(a)
              \/ /\ TakeSync(a) \/ GiveUp(a)
                 /\ UNCHANGED <<orders, key>> /\ results' \subseteq results \cup {"failed"}
<1>1. CASE Reply \/ DeadlinePasses \/ DeliverTwice
  BY <1>1 DEF Reply, DeadlinePasses, DeliverTwice, db
<1>2. ASSUME NEW a \in Workers, WorkerStep(a) \/ RollBack(a) \/ FlushExpired(a),
             ~PostOrder(a), ~CommitSync(a), ~TakeSync(a), ~GiveUp(a)
      PROVE  UNCHANGED <<orders, key, results>>
  BY <1>2 DEF WorkerStep, DropInvalid, TakeMap, WriteMap, CommitMap, TakeConfirm, Decide,
       CommitDecision, RollBack, FlushExpired, db
<1>3. ASSUME NEW a \in Workers, TakeSync(a) \/ GiveUp(a)
      PROVE  UNCHANGED <<orders, key>> /\ results' \subseteq results \cup {"failed"}
  BY <1>3 DEF TakeSync, GiveUp
<1>4. ASSUME NEW b \in Webs, WebStep(b) \/ Tap(b) \/ Submit(b)
      PROVE  UNCHANGED <<orders, key, results>>
  BY <1>4 DEF WebStep, Decide, CommitDecision, EnqueueFromTap, Tap, Submit, db
<1>5. ASSUME NEW a \in Actors, Crash(a) PROVE UNCHANGED <<orders, key, results>>
  BY <1>5 DEF Crash, db
<1>6. CASE UNCHANGED vars
  BY <1>6 DEF vars
<1> QED
  BY <1>1, <1>2, <1>3, <1>4, <1>5, <1>6 DEF Next

\* An order has been created before a worker records it.
RecordedOrder == \A a \in Actors : ctx[a].phase = "record" => orders # <<>>
KeyInv == KeyMeansOrder /\ RecordedOrder

\* A call to KiotViet creates an order or none; a worker that goes on to record
\* has created one.
LEMMA Posted ==
  ASSUME Types, NEW a \in Workers, PostOrder(a)
  PROVE  /\ orders' \in {orders, Append(orders, ctx[a].lines)}
         /\ ctx'[a].phase = "record" =>
              orders' = Append(orders, ctx[a].lines) /\ spent' = spent
         /\ orders' # orders /\ ctx'[a].phase # "record" =>
              spent' = [spent EXCEPT !["faults"] = @ + 1]
<1>1. a \in Actors /\ ctx[a] \in Context /\ ctx[a].phase = "post"
  BY DEF Actors, Types, TypeOK, PostOrder
<1>2. CASE /\ orders' = Append(orders, ctx[a].lines)
           /\ Goto(a, [ctx[a] EXCEPT !.phase = "record"]) /\ UNCHANGED spent
  <2>1. ctx'[a].phase = "record"
    BY <1>1, <1>2, Moved DEF Context
  <2> QED
    BY <1>2, <2>1
<1>3. CASE /\ Spend("faults") /\ orders' \in {orders, Append(orders, ctx[a].lines)}
           /\ \E c \in Context : Goto(a, c) /\ c.phase # "record"
  <2>1. ctx'[a].phase # "record"
    BY <1>1, <1>3, Moved
  <2> QED
    BY <1>3, <2>1 DEF Spend
<1> QED
  <2>1. CASE Goto(a, [ctx[a] EXCEPT !.phase = "giveup"])
    <3>1. [ctx[a] EXCEPT !.phase = "giveup"] \in Context
          /\ [ctx[a] EXCEPT !.phase = "giveup"].phase = "giveup"
      BY <1>1 DEF Context, Phases
    <3>2. ctx'[a].phase = "giveup"
      BY <1>1, <2>1, <3>1, Moved
    <3> QED
      BY <1>2, <1>3, <2>1, <3>1, <3>2 DEF PostOrder
  <2>2. CASE ctx[a].tries + 1 < MaxRetries /\ Goto(a, [ctx[a] EXCEPT !.tries = @ + 1])
    <3>1. ctx[a].tries + 1 \in 0 .. MaxRetries
      BY <1>1, <2>2, Bounds DEF Context
    <3>2. [ctx[a] EXCEPT !.tries = @ + 1] \in Context
          /\ [ctx[a] EXCEPT !.tries = @ + 1].phase = "post"
      BY <1>1, <3>1 DEF Context
    <3>3. ctx'[a].phase = "post"
      BY <1>1, <2>2, <3>2, Moved
    <3> QED
      BY <1>2, <1>3, <2>2, <3>2, <3>3 DEF PostOrder
  <2> QED
    BY <1>2, <2>1, <2>2 DEF PostOrder

LEMMA KeyNext == Types /\ KeyInv /\ [Next]_vars => KeyInv'
<1> SUFFICES ASSUME Types, KeyInv, [Next]_vars PROVE KeyInv'
  OBVIOUS
<1> USE DEF KeyInv
<1>1. orders \in Seq(SUBSET Items)
  BY DEF Types, TypeOK
<1>2. orders # <<>> => orders' # <<>>
  <2>1. ASSUME NEW a \in Workers, PostOrder(a) PROVE orders # <<>> => orders' # <<>>
    BY <1>1, <2>1, Posted
  <2> QED
    BY <2>1, WhoOrders DEF CommitSync
<1>3. RecordedOrder'
  <2> SUFFICES ASSUME NEW b \in Actors, ctx'[b].phase = "record" PROVE orders' # <<>>
    BY DEF RecordedOrder
  <2>1. CASE ctx[b].phase = "record"
    BY <1>2, <2>1 DEF RecordedOrder
  <2>2. CASE b \in Workers /\ PostOrder(b)
    BY <1>1, <2>2, Posted
  <2> QED
    BY <2>1, <2>2, WhoSyncs
<1>4. KeyMeansOrder'
  <2>1. CASE \E a \in Workers : CommitSync(a)
    <3>1. orders # <<>> /\ key'
      BY <2>1 DEF CommitSync, RecordedOrder, Actors
    <3> QED
      BY <1>2, <3>1 DEF KeyMeansOrder
  <2>2. CASE UNCHANGED key /\ results' \subseteq results \cup {"failed"}
    BY <1>2, <2>2 DEF KeyMeansOrder
  <2>3. CASE \E a \in Workers : PostOrder(a)
    BY <1>2, <2>3 DEF KeyMeansOrder, PostOrder, db
  <2> QED
    BY <2>1, <2>2, <2>3, WhoOrders
<1> QED
  BY <1>3, <1>4

\* The database never claims what KiotViet does not have: a key or a success
\* always follows an order, through every rollback and crash
\* (kiotviet-sync.ts:242-289).
THEOREM KeyFollowsOrder == Spec => []KeyMeansOrder
<1>1. Init => KeyInv
  BY IdleContext DEF Init, KeyInv, KeyMeansOrder, RecordedOrder
<1>2. Spec => []Types
  BY TypesInit, TypesNext, PTL DEF Spec
<1>3. Spec => []KeyInv
  BY <1>1, <1>2, KeyNext, PTL DEF Spec
<1> QED
  BY <1>3, PTL DEF KeyInv

-----------------------------------------------------------------------------
(* What a duplicate order costs, for a lone worker process. *)

LoneWorker == \A a, b \in Workers : a = b

\* An order is being recorded, or is recorded under the key.
Covered == key \/ \E a \in Actors : ctx[a].phase = "record"

\* A worker only posts while there is no key, and every order that is not
\* covered was paid for.
PostedWithoutKey == \A a \in Actors : ctx[a].phase = "post" => ~key
PaidFor == Len(orders) <= spent.faults + spent.crashes + (IF Covered THEN 1 ELSE 0)
CostInv == PostedWithoutKey /\ PaidFor

\* Mini app requests never sync.
LEMMA OnlyWorkersSync ==
  ASSUME Types, NEW a \in Actors, ctx[a].phase \in {"post", "record"}
  PROVE  a \in Workers
BY DEF Types, ContextOK, Actors

\* The steps that neither post, record nor roll back leave the orders, the key and
\* whoever is recording alone, and no fault is taken back.
LEMMA Bystanders ==
  ASSUME Types, [Next]_vars,
         \A a \in Workers : ~PostOrder(a) /\ ~CommitSync(a) /\ ~RollBack(a),
         \A a \in Actors : ~Crash(a)
  PROVE  /\ UNCHANGED <<orders, key>>
         /\ spent'.faults \in Nat /\ spent'.faults >= spent.faults
         /\ spent'.crashes = spent.crashes
         /\ \A b \in Actors : ctx[b].phase = "record" => ctx'[b].phase = "record"
<1> DEFINE Costs == /\ spent'.faults \in Nat /\ spent'.faults >= spent.faults
                    /\ spent'.crashes = spent.crashes
           Keeps == \A b \in Actors : ctx[b].phase = "record" => ctx'[b].phase = "record"
<1>1. UNCHANGED <<orders, key>>
  BY WhoOrders
<1>2. UNCHANGED spent => Costs
  BY DEF Types, TypeOK
<1>3. ASSUME NEW what \in {"runs", "replies", "taps", "copies", "faults", "late"}, Spend(what) PROVE Costs
  BY <1>3 DEF Spend, Types, TypeOK
<1>4. UNCHANGED ctx => Keeps
  OBVIOUS
<1>5. ASSUME NEW a \in Actors, ctx[a].phase # "record", \E c : Goto(a, c) PROVE Keeps
  BY <1>5, Moved
<1>6. Costs
  <2>1. CASE Reply \/ DeadlinePasses \/ DeliverTwice
    BY <1>3, <2>1 DEF Reply, DeadlinePasses, DeliverTwice
  <2>2. ASSUME NEW a \in Workers, WorkerStep(a) \/ FlushExpired(a) PROVE Costs
    BY <1>2, <1>3, <2>2 DEF WorkerStep, DropInvalid, TakeMap, WriteMap, CommitMap, TakeConfirm,
         Decide, CommitDecision, TakeSync, GiveUp, FlushExpired, Close
  <2>3. ASSUME NEW b \in Webs, WebStep(b) \/ Tap(b) \/ Submit(b) PROVE Costs
    BY <1>2, <1>3, <2>3 DEF WebStep, Decide, CommitDecision, EnqueueFromTap, Tap, Submit, Close
  <2>4. UNCHANGED vars => Costs
    BY <1>2 DEF vars
  <2> QED
    BY <2>1, <2>2, <2>3, <2>4 DEF Next
<1>7. Keeps
  <2>1. CASE Reply \/ DeadlinePasses \/ DeliverTwice \/ UNCHANGED vars
    BY <1>4, <2>1 DEF Reply, DeadlinePasses, DeliverTwice, vars
  <2>2. ASSUME NEW a \in Workers, WorkerStep(a) \/ FlushExpired(a) PROVE Keeps
    BY <1>4, <1>5, <2>2 DEF WorkerStep, DropInvalid, TakeMap, WriteMap, CommitMap, TakeConfirm,
         Decide, CommitDecision, TakeSync, GiveUp, FlushExpired, Take, Close, Actors
  <2>3. ASSUME NEW b \in Webs, WebStep(b) \/ Tap(b) \/ Submit(b) PROVE Keeps
    BY <1>4, <1>5, <2>3 DEF WebStep, Decide, CommitDecision, EnqueueFromTap, Tap, Submit, Close,
         Actors
  <2> QED
    BY <2>1, <2>2, <2>3 DEF Next
<1> QED
  BY <1>1, <1>6, <1>7

\* A key written by the lone worker finds nobody posting.
LEMMA PostedWithoutKeyNext ==
  ASSUME LoneWorker, Types, PostedWithoutKey, [Next]_vars
  PROVE  PostedWithoutKey'
<1> SUFFICES ASSUME NEW b \in Actors, ctx'[b].phase = "post" PROVE ~key'
  BY DEF PostedWithoutKey
<1>1. b \in Workers /\ ~key
  <2>1. CASE ctx[b].phase = "post"
    BY <2>1, OnlyWorkersSync DEF PostedWithoutKey
  <2>2. CASE b \in Workers /\ TakeSync(b)
    <3>1. key => ctx' = ctx
      BY <2>2 DEF TakeSync
    <3> QED
      BY <2>1, <2>2, <3>1
  <2> QED
    BY <2>1, <2>2, WhoSyncs
<1>2. ASSUME NEW a \in Workers, CommitSync(a) PROVE FALSE
  <2>1. a = b
    BY <1>1 DEF LoneWorker
  <2> QED
    BY <1>2, <2>1, Moved DEF CommitSync, Close, Idle
<1>3. ASSUME NEW a \in Workers, PostOrder(a) PROVE key' = key
  BY <1>3 DEF PostOrder, db
<1> QED
  BY <1>1, <1>2, <1>3, WhoOrders

LEMMA PaidForNext ==
  ASSUME LoneWorker, Types, CostInv, [Next]_vars
  PROVE  PaidFor'
<1> DEFINE f == spent.faults
           k == spent.crashes
           due == IF Covered THEN 1 ELSE 0
<1>0. /\ f \in Nat /\ k \in Nat /\ orders \in Seq(SUBSET Items) /\ Len(orders) \in Nat
      /\ Len(orders) <= f + k + due
  BY DEF Types, TypeOK, CostInv, PaidFor
\* The one that posts is the only one that could be covering an order.
<1>1. ASSUME NEW a \in Workers, PostOrder(a) PROVE PaidFor'
  <2>1. a \in Actors /\ ctx[a].phase = "post" /\ ctx[a] \in Context /\ ctx[a].lines \in SUBSET Items
    BY <1>1 DEF PostOrder, Actors, Types, TypeOK, Context
  <2>2. ~Covered
    BY <2>1, OnlyWorkersSync DEF Covered, CostInv, PostedWithoutKey, LoneWorker
  <2>3. Len(Append(orders, ctx[a].lines)) = Len(orders) + 1
    BY <1>0, <2>1
  <2>4. CASE ctx'[a].phase = "record"
    <3>1. Covered' /\ orders' = Append(orders, ctx[a].lines) /\ spent' = spent
      BY <1>1, <2>1, <2>4, Posted DEF Covered
    <3> QED
      BY <1>0, <2>2, <2>3, <3>1 DEF PaidFor
  <2>5. CASE ctx'[a].phase # "record" /\ orders' # orders
    <3>1. spent'.faults = f + 1 /\ spent'.crashes = k /\ Len(orders') = Len(orders) + 1
      BY <1>1, <2>3, <2>5, Posted DEF Types, TypeOK
    <3> QED
      BY <1>0, <2>2, <3>1 DEF PaidFor
  <2>6. CASE orders' = orders
    <3>1. /\ spent'.faults \in Nat /\ spent'.faults >= f
          /\ spent'.crashes = k
      BY <1>0, <1>1 DEF PostOrder, Spend, Types, TypeOK
    <3> QED
      BY <1>0, <2>2, <2>6, <3>1 DEF PaidFor
  <2> QED
    BY <2>4, <2>5, <2>6
\* Recording moves the cover from the worker to the key.
<1>2. ASSUME NEW a \in Workers, CommitSync(a) PROVE PaidFor'
  <2>1. Covered /\ Covered' /\ orders' = orders
    BY <1>2 DEF CommitSync, Covered, Actors
  <2>2. spent'.faults \in Nat /\ spent'.faults >= f /\ spent'.crashes = k
    BY <1>0, <1>2 DEF CommitSync, Close, Spend, Types, TypeOK
  <2> QED
    BY <1>0, <2>1, <2>2 DEF PaidFor
\* A failure may uncover one order, and is counted.
<1>3. ASSUME orders' = orders, spent'.faults + spent'.crashes = f + k + 1,
             spent'.faults \in Nat, spent'.crashes \in Nat
      PROVE  PaidFor'
  BY <1>0, <1>3 DEF PaidFor
<1>4. ASSUME NEW a \in Workers, RollBack(a) PROVE PaidFor'
  BY <1>0, <1>3, <1>4 DEF RollBack, Spend, Types, TypeOK
<1>5. ASSUME NEW a \in Actors, Crash(a) PROVE PaidFor'
  BY <1>0, <1>3, <1>5 DEF Crash, Spend, Types, TypeOK
<1>6. ASSUME \A a \in Workers : ~PostOrder(a) /\ ~CommitSync(a) /\ ~RollBack(a),
             \A a \in Actors : ~Crash(a)
      PROVE  PaidFor'
  <2>1. /\ orders' = orders /\ key' = key /\ spent'.crashes = k
        /\ spent'.faults \in Nat /\ spent'.faults >= f
        /\ \A b \in Actors : ctx[b].phase = "record" => ctx'[b].phase = "record"
    BY <1>6, Bystanders
  <2>2. Covered => Covered'
    BY <2>1 DEF Covered
  <2> QED
    BY <1>0, <2>1, <2>2 DEF PaidFor
<1> QED
  BY <1>1, <1>2, <1>4, <1>5, <1>6

\* With one worker process, a second purchase order needs a failed call, a
\* failed transaction or a crash: repeated answers and repeated syncs alone never create one (kiotviet-sync.ts:132-148, 242-289).
THEOREM LoneWorkerOrders ==
  ASSUME LoneWorker
  PROVE  Spec => []DuplicatesCostFaults
<1>1. Init => CostInv
  BY IdleContext DEF Init, CostInv, PostedWithoutKey, PaidFor
<1>2. Types /\ CostInv /\ [Next]_vars => CostInv'
  BY PostedWithoutKeyNext, PaidForNext DEF CostInv
<1>3. Types /\ CostInv => DuplicatesCostFaults
  BY DEF Types, TypeOK, CostInv, PaidFor, DuplicatesCostFaults
<1>4. Spec => []Types
  BY TypesInit, TypesNext, PTL DEF Spec
<1> QED
  BY <1>1, <1>2, <1>3, <1>4, PTL DEF Spec

-----------------------------------------------------------------------------
(* What a lone worker process makes of an invoice when nothing fails. *)

\* No fault, no crash and no request of the mini app so far
Calm == spent.faults = 0 /\ spent.crashes = 0 /\ spent.taps = 0

IsMap(j) == j.type = "MAP_RESOLVE"
IsSync(j) == j.type = "KIOTVIET_SYNC" /\ j.complete
MapDue == \E j \in Jobs : IsMap(j) /\ queue[j] > 0
SyncDue == \E j \in Jobs : IsSync(j) /\ queue[j] > 0
Asking == WithStatus("pending") # {}

Unordered == orders = <<>> /\ ~key
\* No run has been committed.
Blank == /\ \A i \in Items : item[i] = "absent" /\ \A g \in Runs : row[i][g] = "none"
         /\ Unordered /\ results = {}
AllKnown(plan) == /\ \A i \in Items : plan[i] \in {"known", "ai"}
                  /\ \E i \in Items : plan[i] \in {"known", "ai"}

(***************************************************************************)
(* The inductive invariant, for the worker w.                              *)
(***************************************************************************)
\* There is one run, and until it commits there is nothing else.
MapFirst(w) ==
  /\ \A j \in Jobs : IsMap(j) /\ queue[j] > 0 => j = MapJob /\ queue[j] = 1
  /\ MapDue => ctx[w].phase = "idle" /\ ~SyncDue /\ Blank
  /\ ctx[w].phase = "map" => ~MapDue /\ ~SyncDue /\ Blank
  /\ ctx[w].phase = "mapped" => ~MapDue /\ (SyncDue <=> AllKnown(ctx[w].plan)) /\ Blank
  /\ ~MapDue /\ ctx[w].phase \notin {"map", "mapped"} => \A i \in Items : item[i] # "absent"

\* An open question is the only one of a line that waits.
OneQuestion ==
  \A i \in Items, g \in Runs : row[i][g] = "pending" =>
    item[i] = "pending" /\ \A h \in Runs : row[i][h] = "pending" => g = h

\* Who decides a line decides one that waits, by its question, before any order;
\* the sync is due when this was the last.
DecidesOpen(w) ==
  ctx[w].phase \in {"decide", "decided"} =>
    /\ ctx[w].run \in Runs /\ row[ctx[w].item][ctx[w].run] = "pending"
    /\ Unordered
    /\ ctx[w].phase = "decide" => ~SyncDue
    /\ ctx[w].phase = "decided" => (SyncDue <=> ReadyToSync(Seen(w)))

\* No sync before the last question is closed, and then nothing changes any more.
SyncLast(w) ==
  /\ ctx[w].phase # "giveup"
  /\ ctx[w].phase \in {"post", "record"} => ~Asking /\ ctx[w].lines = WithStatus("resolved")
  /\ SyncDue /\ ctx[w].phase \notin {"mapped", "decided"} => ~Asking
  /\ orders # <<>> => ~Asking /\ orders[Len(orders)] = WithStatus("resolved")
  /\ key => ~Asking /\ results # {}

\* What is settled without an expiry has its sync ahead of it or behind it.
SyncOwed(w) ==
  /\ spent.late = 0 => late = {}
  /\ /\ spent.late = 0 /\ ~MapDue /\ ctx[w].phase \notin {"map", "mapped"}
     /\ ~Asking /\ WithStatus("resolved") # {} /\ results = {}
     => SyncDue \/ ctx[w].phase \in {"post", "record"}

WebsIdle == \A b \in Webs : ctx[b].phase = "idle"

CalmInv(w) == /\ MapFirst(w) /\ OneQuestion /\ DecidesOpen(w) /\ SyncLast(w) /\ SyncOwed(w)
              /\ WebsIdle

\* A job comes to the queue, or leaves it.
LEMMA PutDue ==
  ASSUME Types, NEW j \in Jobs, Put(j)
  PROVE  /\ SyncDue' <=> SyncDue \/ IsSync(j)
         /\ ~IsMap(j) => /\ MapDue' <=> MapDue
                         /\ \A k \in Jobs : IsMap(k) => queue'[k] = queue[k]
BY DEF Put, Types, TypeOK, SyncDue, MapDue

LEMMA TakeDue ==
  ASSUME Types, NEW a, NEW j \in Jobs, Take(a, j)
  PROVE  /\ SyncDue' => SyncDue
         /\ IsSync(j) => SyncDue
         /\ IsMap(j) => MapDue
         /\ ~IsSync(j) => (SyncDue' <=> SyncDue)
         /\ ~IsMap(j) => /\ MapDue' <=> MapDue
                         /\ \A k \in Jobs : IsMap(k) => queue'[k] = queue[k]
BY DEF Take, Types, TypeOK, SyncDue, MapDue, IsMap, IsSync

LEMMA JobKinds ==
  /\ SyncJob \in Jobs /\ IsSync(SyncJob) /\ ~IsMap(SyncJob)
  /\ MapJob \in Jobs /\ IsMap(MapJob) /\ ~IsSync(MapJob)
  /\ \A v, i, g : ~IsMap(ConfirmJob(v, i, g)) /\ ~IsSync(ConfirmJob(v, i, g))
<1>1. SyncJob \in Jobs /\ MapJob \in Jobs
  BY NewIsJob DEF NewJobs
<1>2. \A v, i, g : ConfirmJob(v, i, g).type = "CONFIRM_MAPPING"
  BY DEF ConfirmJob, BlankJob
<1>3. SyncJob.type = "KIOTVIET_SYNC" /\ SyncJob.complete /\ MapJob.type = "MAP_RESOLVE"
  BY DEF SyncJob, MapJob, BlankJob
<1> QED
  BY <1>1, <1>2, <1>3 DEF IsMap, IsSync

\* What may happen while all is calm.
LEMMA CalmSteps ==
  ASSUME NEW w, Workers = {w}, Types, WebsIdle, [Next]_vars, Calm'
  PROVE  /\ Calm
         /\ \/ UNCHANGED vars \/ Reply \/ DeadlinePasses
            \/ DropInvalid(w) \/ TakeMap(w) \/ WriteMap(w)
            \/ CommitMap(w) /\ Goto(w, Idle) /\ UNCHANGED <<queue, spent>>
            \/ TakeConfirm(w) \/ Decide(w)
            \/ CommitDecision(w) /\ Goto(w, Idle) /\ UNCHANGED <<queue, spent>>
            \/ FlushExpired(w)
            \/ TakeSync(w)
            \/ PostOrder(w) /\ orders' = Append(orders, ctx[w].lines)
               /\ Goto(w, [ctx[w] EXCEPT !.phase = "record"]) /\ UNCHANGED spent
            \/ CommitSync(w) /\ Goto(w, Idle) /\ UNCHANGED <<queue, spent>>
               /\ results' = results \cup {"success"}
            \/ GiveUp(w) /\ Goto(w, Idle) /\ UNCHANGED <<queue, spent>>
<1> DEFINE Counts == {"runs", "replies", "taps", "copies", "faults", "crashes", "late"}
<1>0. spent \in [Counts -> Nat] /\ w \in Workers /\ w \notin Webs
  BY ConstantsAssumption DEF Types, TypeOK
<1>1. ~Spend("faults") /\ ~Spend("crashes") /\ ~Spend("taps")
  BY <1>0 DEF Spend, Calm
<1>2. \A what \in {"runs", "replies", "late", "copies"} : Spend(what) => Calm
  BY <1>0 DEF Spend, Calm
<1>3. UNCHANGED spent => Calm
  BY DEF Calm
<1>4. CASE UNCHANGED vars
  BY <1>3, <1>4 DEF vars
<1>5. CASE Reply \/ DeadlinePasses
  BY <1>2, <1>5 DEF Reply, DeadlinePasses
<1>6. ~DeliverTwice
  BY DEF DeliverTwice
<1>7. \A a \in Workers : ~RollBack(a)
  BY <1>1 DEF RollBack
<1>8. \A a \in Actors : ~Crash(a)
  BY <1>1 DEF Crash
<1>9. \A b \in Webs : ~WebStep(b) /\ ~Tap(b) /\ ~Submit(b)
  BY <1>1 DEF WebsIdle, WebStep, Decide, CommitDecision, EnqueueFromTap, Tap, Submit
<1>10. CASE DropInvalid(w) \/ TakeMap(w) \/ WriteMap(w) \/ TakeConfirm(w) \/ Decide(w)
            \/ TakeSync(w) \/ FlushExpired(w)
  BY <1>2, <1>3, <1>10 DEF DropInvalid, TakeMap, WriteMap, TakeConfirm, Decide, TakeSync, FlushExpired
<1>11. CASE CommitMap(w)
  BY <1>0, <1>1, <1>3, <1>11 DEF CommitMap, Close
<1>12. CASE CommitDecision(w)
  BY <1>0, <1>1, <1>3, <1>12 DEF CommitDecision, Close
<1>13. CASE PostOrder(w)
  BY <1>1, <1>3, <1>13 DEF PostOrder
<1>14. CASE CommitSync(w)
  BY <1>0, <1>1, <1>3, <1>14 DEF CommitSync, Close
<1>15. CASE GiveUp(w)
  BY <1>0, <1>1, <1>3, <1>15 DEF GiveUp, Close
<1> QED
  BY <1>4, <1>5, <1>6, <1>7, <1>8, <1>9, <1>10, <1>11, <1>12, <1>13, <1>14, <1>15
  DEF Next, WorkerStep

\* What the work, the lines and the orders are read from, has not changed, or
\* only a job that is neither a run nor a sync came or went.
LEMMA CalmStill ==
  ASSUME NEW w, Workers = {w}, CalmInv(w),
         UNCHANGED <<item, row, key, results, orders, ctx>>,
         SyncDue' <=> SyncDue, MapDue' <=> MapDue,
         \A k \in Jobs : IsMap(k) => queue'[k] = queue[k],
         UNCHANGED <<late, spent.late>> \/ spent'.late # 0
  PROVE  CalmInv(w)'
<1>1. /\ Blank' <=> Blank
      /\ Unordered' <=> Unordered
      /\ Asking' <=> Asking
      /\ \A s : WithStatus(s)' = WithStatus(s)
  BY DEF Blank, Unordered, Asking, WithStatus
<1>2. ReadyToSync(Seen(w))' <=> ReadyToSync(Seen(w))
  BY DEF ReadyToSync, Seen
<1>3. MapFirst(w)'
  BY <1>1 DEF CalmInv, MapFirst
<1>4. OneQuestion'
  BY DEF CalmInv, OneQuestion
<1>5. DecidesOpen(w)'
  BY <1>1, <1>2 DEF CalmInv, DecidesOpen
<1>6. SyncLast(w)'
  BY <1>1 DEF CalmInv, SyncLast
<1>7. SyncOwed(w)'
  BY <1>1 DEF CalmInv, SyncOwed
<1> QED
  BY <1>3, <1>4, <1>5, <1>6, <1>7 DEF CalmInv, WebsIdle

\* The mini app has no request open, and the worker's move opens none.
LEMMA CalmWebs ==
  ASSUME NEW w, Workers = {w}, Types, WebsIdle, NEW c, Goto(w, c) \/ UNCHANGED ctx
  PROVE  WebsIdle'
<1>1. \A b \in Webs : b \in Actors /\ w \in Actors /\ b # w
  BY ConstantsAssumption DEF Actors
<1> QED
  BY <1>1, Moved DEF WebsIdle

\* The owner's side and the jobs that come to nothing.
LEMMA CalmOwner ==
  ASSUME NEW w, Workers = {w}, Types, CalmInv(w),
         UNCHANGED vars \/ Reply \/ DeadlinePasses \/ DropInvalid(w)
         \/ (TakeConfirm(w) /\ UNCHANGED ctx)
  PROVE  CalmInv(w)'
<1>1. CASE UNCHANGED vars
  BY <1>1, CalmStill DEF vars, SyncDue, MapDue
<1>2. CASE Reply
  <2>1. PICK v, i, g : v \in Verdicts /\ Put(ConfirmJob(v, i, g)) /\ ConfirmJob(v, i, g) \in Jobs
    BY <1>2, NewIsJob DEF Reply, NewJobs
  <2>2. /\ SyncDue' <=> SyncDue
        /\ MapDue' <=> MapDue
        /\ \A k \in Jobs : IsMap(k) => queue'[k] = queue[k]
    BY <2>1, PutDue, JobKinds
  <2>3. spent'.late = spent.late
    BY <1>2 DEF Reply, Spend, Types, TypeOK
  <2> QED
    BY <1>2, <2>2, <2>3, CalmStill DEF Reply, db
<1>3. CASE DeadlinePasses
  <2>1. spent'.late = spent.late + 1 /\ spent.late \in Nat
    BY <1>3 DEF DeadlinePasses, Spend, Types, TypeOK
  <2> QED
    BY <1>3, <2>1, CalmStill DEF DeadlinePasses, SyncDue, MapDue
<1>4. CASE DropInvalid(w)
  <2>1. PICK j \in Jobs : ~j.complete /\ Take(w, j)
    BY <1>4 DEF DropInvalid
  <2>2. queue[j] > 0 /\ ~IsSync(j)
    BY <2>1 DEF Take, IsSync
  <2>3. MapJob.complete
    BY DEF MapJob, BlankJob
  <2>4. ~IsMap(j)
    BY <2>1, <2>2, <2>3 DEF CalmInv, MapFirst
  <2>5. /\ SyncDue' <=> SyncDue
        /\ MapDue' <=> MapDue
        /\ \A k \in Jobs : IsMap(k) => queue'[k] = queue[k]
    BY <2>1, <2>2, <2>4, TakeDue
  <2> QED
    BY <1>4, <2>5, CalmStill DEF DropInvalid, db
<1>5. CASE TakeConfirm(w) /\ UNCHANGED ctx
  <2>1. PICK j \in Jobs : j.type = "CONFIRM_MAPPING" /\ Take(w, j)
    BY <1>5 DEF TakeConfirm
  <2>2. /\ SyncDue' <=> SyncDue
        /\ MapDue' <=> MapDue
        /\ \A k \in Jobs : IsMap(k) => queue'[k] = queue[k]
    BY <2>1, TakeDue DEF IsMap, IsSync
  <2> QED
    BY <1>5, <2>2, CalmStill DEF TakeConfirm, db
<1> QED
  BY <1>1, <1>2, <1>3, <1>4, <1>5

\* A mapping run: taken, written, committed.
LEMMA CalmTakeMap ==
  ASSUME NEW w, Workers = {w}, Types, CalmInv(w), TakeMap(w)
  PROVE  CalmInv(w)'
<1>1. PICK j \in Jobs : /\ j.type = "MAP_RESOLVE" /\ Take(w, j)
                        /\ Goto(w, [Idle EXCEPT !.phase = "map", !.job = j,
                                                !.run = spent.runs + 1, !.lines = Known])
  BY DEF TakeMap
<1> DEFINE c == [Idle EXCEPT !.phase = "map", !.job = j, !.run = spent.runs + 1, !.lines = Known]
<1>2. c.phase = "map" /\ w \in Actors
  BY DEF Idle, Actors
<1>3. Goto(w, c)
  BY <1>1
<1> HIDE DEF c
<1>4. ctx'[w].phase = "map"
  BY <1>2, <1>3, Moved
<1>5. IsMap(j) /\ queue[j] > 0
  BY <1>1 DEF Take, IsMap
<1>6. j = MapJob /\ queue[j] = 1 /\ MapDue /\ ~SyncDue /\ Blank
  BY <1>5 DEF CalmInv, MapFirst, MapDue
<1>7. ~SyncDue'
  BY <1>1, <1>6, TakeDue
<1>8. ~MapDue'
  <2> SUFFICES ASSUME NEW k \in Jobs, IsMap(k) PROVE ~(queue'[k] > 0)
    BY DEF MapDue, IsMap
  <2>1. CASE k = j
    BY <1>1, <1>6, <2>1 DEF Take, Types, TypeOK
  <2>2. CASE k # j
    BY <1>1, <1>6, <2>2 DEF Take, Types, TypeOK, CalmInv, MapFirst
  <2> QED
    BY <2>1, <2>2
<1>9. UNCHANGED <<item, row, late, key, results, orders, spent.late>>
  BY DEF TakeMap, db, Spend, Types, TypeOK
<1>10. Blank' /\ (Asking' <=> Asking)
  BY <1>6, <1>9 DEF Blank, Unordered, Asking, WithStatus
<1>11. MapFirst(w)'
  BY <1>4, <1>7, <1>8, <1>10 DEF MapFirst, MapDue
<1>12. OneQuestion' /\ DecidesOpen(w)'
  BY <1>4, <1>9 DEF CalmInv, OneQuestion, DecidesOpen
<1>13. SyncLast(w)'
  BY <1>4, <1>7, <1>10 DEF SyncLast, Blank, Unordered
<1>14. SyncOwed(w)'
  BY <1>4, <1>9 DEF CalmInv, SyncOwed
<1> QED
  BY <1>3, <1>11, <1>12, <1>13, <1>14, CalmWebs DEF CalmInv

LEMMA CalmWriteMap ==
  ASSUME NEW w, Workers = {w}, Types, CalmInv(w), WriteMap(w)
  PROVE  CalmInv(w)'
<1>1. PICK plan \in [Items -> Outcomes] :
        /\ Goto(w, [ctx[w] EXCEPT !.phase = "mapped", !.plan = plan])
        /\ IF AllKnown(plan) THEN Put(SyncJob) ELSE UNCHANGED queue
  BY DEF WriteMap, AllKnown
<1> DEFINE c == [ctx[w] EXCEPT !.phase = "mapped", !.plan = plan]
<1>2. c.phase = "mapped" /\ c.plan = plan /\ w \in Actors
  BY DEF Types, TypeOK, Context, Actors
<1>3. Goto(w, c)
  BY <1>1
<1> HIDE DEF c
<1>4. ctx'[w].phase = "mapped" /\ ctx'[w].plan = plan
  BY <1>2, <1>3, Moved
<1>5. ~MapDue /\ ~SyncDue /\ Blank
  BY DEF WriteMap, CalmInv, MapFirst
<1>6. /\ SyncDue' <=> AllKnown(plan)
      /\ MapDue' <=> MapDue
      /\ \A k \in Jobs : IsMap(k) => queue'[k] = queue[k]
  <2>1. CASE AllKnown(plan)
    BY <1>1, <1>5, <2>1, PutDue, JobKinds
  <2>2. CASE ~AllKnown(plan)
    BY <1>1, <1>5, <2>2 DEF SyncDue, MapDue
  <2> QED
    BY <2>1, <2>2
<1>9. UNCHANGED <<item, row, late, key, results, orders, spent>>
  BY DEF WriteMap, db
<1>10. Blank'
  BY <1>5, <1>9 DEF Blank, Unordered
<1>11. MapFirst(w)'
  <2>1. AllKnown(ctx[w].plan)' <=> AllKnown(plan)
    BY <1>4 DEF AllKnown
  <2>2. ~MapDue' /\ \A k \in Jobs : IsMap(k) => ~(queue'[k] > 0)
    BY <1>5, <1>6 DEF MapDue
  <2> QED
    BY <1>4, <1>6, <1>10, <2>1, <2>2 DEF MapFirst
<1>12. OneQuestion' /\ DecidesOpen(w)'
  BY <1>4, <1>9 DEF CalmInv, OneQuestion, DecidesOpen
<1>13. SyncLast(w)'
  BY <1>4, <1>10 DEF SyncLast, Blank, Unordered
<1>14. SyncOwed(w)'
  BY <1>4, <1>9 DEF CalmInv, SyncOwed
<1> QED
  BY <1>3, <1>11, <1>12, <1>13, <1>14, CalmWebs DEF CalmInv

LEMMA CalmCommitMap ==
  ASSUME NEW w, Workers = {w}, Types, CalmInv(w),
         CommitMap(w), Goto(w, Idle), UNCHANGED <<queue, spent>>
  PROVE  CalmInv(w)'
<1> DEFINE plan == ctx[w].plan
           g == ctx[w].run
<1>1. w \in Actors /\ plan \in [Items -> Outcomes] /\ g \in Runs /\ ctx[w].phase = "mapped"
  BY DEF CommitMap, Types, ContextOK, Actors
<1>2. ctx'[w].phase = "idle"
  BY <1>1, Moved, IdleContext
<1>3. ~MapDue /\ (SyncDue <=> AllKnown(plan)) /\ Blank
  BY <1>1 DEF CalmInv, MapFirst
<1>4. (SyncDue' <=> SyncDue) /\ (MapDue' <=> MapDue)
  BY DEF SyncDue, MapDue
<1>5. /\ item' = [i \in Items |-> IF plan[i] \in {"known", "ai"} THEN "resolved" ELSE "pending"]
      /\ row' = [i \in Items |-> [h \in Runs |->
                   IF h = g /\ plan[i] \in {"ask", "open"} THEN "pending" ELSE row[i][h]]]
      /\ UNCHANGED <<late, key, results, orders>>
  BY DEF CommitMap
<1> HIDE DEF plan, g
<1>6. MapFirst(w)'
  BY <1>2, <1>3, <1>4, <1>5 DEF MapFirst, MapDue
<1>7. OneQuestion'
  <2> SUFFICES ASSUME NEW i \in Items, NEW k \in Runs, row'[i][k] = "pending"
               PROVE  item'[i] = "pending" /\ \A h \in Runs : row'[i][h] = "pending" => k = h
    BY DEF OneQuestion
  <2>1. \A h \in Runs : row'[i][h] = "pending" => h = g /\ plan[i] \in {"ask", "open"}
    BY <1>3, <1>5 DEF Blank
  <2> QED
    BY <1>5, <2>1
<1>8. DecidesOpen(w)'
  BY <1>2 DEF DecidesOpen
<1>9. ~Asking' => \A i \in Items : plan[i] \in {"known", "ai"}
  BY <1>5 DEF Asking, WithStatus
<1>10. AllKnown(plan) => ~Asking'
  BY <1>5 DEF Asking, WithStatus, AllKnown
<1>11. SyncLast(w)'
  BY <1>2, <1>3, <1>4, <1>5, <1>10 DEF SyncLast, Blank, Unordered
<1>12. ~Asking' /\ WithStatus("resolved")' # {} => AllKnown(plan)
  BY <1>5, <1>9 DEF WithStatus, AllKnown
<1>13. SyncOwed(w)'
  BY <1>3, <1>4, <1>5, <1>12 DEF CalmInv, SyncOwed
<1> QED
  BY <1>6, <1>7, <1>8, <1>11, <1>13, CalmWebs DEF CalmInv

\* An answer: taken, written, committed.
LEMMA CalmTakeConfirm ==
  ASSUME NEW w, Workers = {w}, Types, CalmInv(w), TakeConfirm(w), ~UNCHANGED ctx
  PROVE  CalmInv(w)'
<1>1. PICK j, q : /\ j \in Jobs /\ q \in Addressed(j)
        /\ j.type = "CONFIRM_MAPPING" /\ Take(w, j)
        /\ Goto(w, [Idle EXCEPT !.phase = "decide", !.job = j, !.item = q[1], !.run = q[2],
                                !.verdict = j.verdict])
  BY DEF TakeConfirm
<1> DEFINE c == [Idle EXCEPT !.phase = "decide", !.job = j, !.item = q[1], !.run = q[2],
                             !.verdict = j.verdict]
<1>2. c.phase = "decide" /\ c.item = q[1] /\ c.run = q[2] /\ w \in Actors
  BY DEF Idle, Actors
<1>3. Goto(w, c)
  BY <1>1
<1> HIDE DEF c
<1>4. ctx'[w].phase = "decide" /\ ctx'[w].item = q[1] /\ ctx'[w].run = q[2]
  BY <1>2, <1>3, Moved
<1>5. q \in Answerable
  BY <1>1 DEF Addressed, Lone
<1>6. q[1] \in Items /\ q[2] \in Runs /\ row[q[1]][q[2]] = "pending"
  BY <1>5 DEF Answerable, Questions
<1>7. Asking /\ ~MapDue /\ item[q[1]] = "pending"
  BY <1>6 DEF CalmInv, MapFirst, OneQuestion, Asking, WithStatus, Blank
<1>8. ctx[w].phase = "idle"
  BY <1>1 DEF Take
<1>9. ~SyncDue /\ Unordered
  BY <1>7, <1>8 DEF CalmInv, SyncLast, Unordered
<1>10. ~SyncDue' /\ ~MapDue'
  BY <1>1, <1>7, <1>9, TakeDue DEF IsMap
<1>11. UNCHANGED <<item, row, late, key, results, orders, spent>>
  BY DEF TakeConfirm, db
<1>12. (Asking' <=> Asking) /\ (Unordered' <=> Unordered)
  BY <1>11 DEF Asking, WithStatus, Unordered
<1>13. MapFirst(w)'
  BY <1>4, <1>7, <1>8, <1>10, <1>11 DEF CalmInv, MapFirst, MapDue
<1>14. OneQuestion'
  BY <1>11 DEF CalmInv, OneQuestion
<1>15. DecidesOpen(w)'
  BY <1>4, <1>6, <1>9, <1>10, <1>11, <1>12 DEF DecidesOpen
<1>16. SyncLast(w)' /\ SyncOwed(w)'
  BY <1>4, <1>7, <1>9, <1>10, <1>11, <1>12 DEF CalmInv, SyncLast, SyncOwed, Unordered
<1> QED
  BY <1>3, <1>13, <1>14, <1>15, <1>16, CalmWebs DEF CalmInv

LEMMA CalmDecide ==
  ASSUME NEW w, Workers = {w}, Types, CalmInv(w), Decide(w)
  PROVE  CalmInv(w)'
<1> DEFINE ready == ReadyToSync(Seen(w))
           c == [ctx[w] EXCEPT !.phase = "decided", !.sync = ready]
<1>1. /\ Goto(w, c)
      /\ IF ready THEN Put(SyncJob) ELSE UNCHANGED queue
      /\ UNCHANGED <<item, row, late, key, results, orders, spent>>
      /\ ctx[w].phase = "decide"
  BY DEF Decide, db
<1>2. /\ c.phase = "decided" /\ c.item = ctx[w].item /\ c.run = ctx[w].run
      /\ c.verdict = ctx[w].verdict /\ w \in Actors
  BY DEF Types, TypeOK, Context, Actors
<1> HIDE DEF c
<1>3. /\ ctx'[w].phase = "decided" /\ ctx'[w].item = ctx[w].item
      /\ ctx'[w].run = ctx[w].run /\ ctx'[w].verdict = ctx[w].verdict
  BY <1>1, <1>2, Moved
<1>4. ReadyToSync(Seen(w))' <=> ready
  BY <1>1, <1>3 DEF ReadyToSync, Seen
<1>5. /\ ctx[w].run \in Runs /\ row[ctx[w].item][ctx[w].run] = "pending"
      /\ Unordered /\ ~SyncDue
  BY <1>1 DEF CalmInv, DecidesOpen
<1>6. ~MapDue
  BY <1>1 DEF CalmInv, MapFirst
<1> HIDE DEF ready
<1>7. (SyncDue' <=> ready) /\ ~MapDue'
  <2>1. CASE ready
    BY <1>1, <1>6, <2>1, PutDue, JobKinds
  <2>2. CASE ~ready
    BY <1>1, <1>5, <1>6, <2>2 DEF SyncDue, MapDue
  <2> QED
    BY <2>1, <2>2
<1>8. Unordered'
  BY <1>1, <1>5 DEF Unordered
<1>9. ctx[w].item \in Items
  BY <1>1 DEF Types, ContextOK, Actors
<1>10. ctx[w].run \in Runs /\ item[ctx[w].item] = "pending"
  BY <1>5, <1>9 DEF CalmInv, OneQuestion
<1>11. Asking'
  BY <1>1, <1>9, <1>10 DEF Asking, WithStatus
<1>12. MapFirst(w)'
  BY <1>1, <1>3, <1>6, <1>7 DEF CalmInv, MapFirst, MapDue
<1>13. OneQuestion'
  BY <1>1 DEF CalmInv, OneQuestion
<1>14. DecidesOpen(w)'
  BY <1>1, <1>3, <1>4, <1>5, <1>7, <1>8 DEF DecidesOpen
<1>15. SyncLast(w)' /\ SyncOwed(w)'
  BY <1>1, <1>3, <1>8, <1>11 DEF CalmInv, SyncLast, SyncOwed, Unordered
<1> QED
  BY <1>1, <1>12, <1>13, <1>14, <1>15, CalmWebs DEF CalmInv

LEMMA CalmCommitDecision ==
  ASSUME NEW w, Workers = {w}, Types, CalmInv(w),
         CommitDecision(w), Goto(w, Idle), UNCHANGED <<queue, spent>>
  PROVE  CalmInv(w)'
<1> DEFINE i == ctx[w].item
           g == ctx[w].run
           v == ctx[w].verdict
<1>1. w \in Actors /\ ctx[w].phase = "decided"
  BY DEF CommitDecision, Actors
<1>2. i \in Items /\ v \in Verdicts
  BY <1>1 DEF Types, ContextOK
<1>3. /\ g \in Runs /\ row[i][g] = "pending" /\ Unordered
      /\ SyncDue <=> ReadyToSync(Seen(w))
  BY <1>1 DEF CalmInv, DecidesOpen
<1>4. ~MapDue /\ \A k \in Items : item[k] # "absent"
  BY <1>1 DEF CalmInv, MapFirst
<1>5. /\ item' = Seen(w)
      /\ row' = [row EXCEPT ![i] = [h \in Runs |-> IF h = g THEN Closed(v) ELSE @[h]]]
      /\ UNCHANGED <<late, key, results, orders>>
  BY DEF CommitDecision
<1>6. item' = [item EXCEPT ![i] = Decided(v)]
  BY <1>2, <1>4, <1>5 DEF Seen, Types, TypeOK
<1>7. Decided(v) \in {"resolved", "unresolved", "skipped"} /\ Closed(v) # "pending"
  BY <1>2 DEF Verdicts, Decided, Closed
<1>8. (SyncDue' <=> ReadyToSync(item')) /\ ~MapDue' /\ ctx'[w].phase = "idle"
  BY <1>1, <1>3, <1>4, <1>5, Moved, IdleContext DEF SyncDue, MapDue
<1>9. ReadyToSync(item') <=> ~Asking' /\ WithStatus("resolved")' # {}
  BY DEF ReadyToSync, Asking, WithStatus
<1> HIDE DEF i, g, v
<1>10. MapFirst(w)'
  BY <1>2, <1>4, <1>6, <1>7, <1>8 DEF MapFirst, MapDue, Types, TypeOK
<1>11. OneQuestion'
  <2>1. \A k \in Items, h \in Runs : row'[k][h] = "pending" => k # i /\ row[k][h] = "pending"
    <3> SUFFICES ASSUME NEW k \in Items, NEW h \in Runs, row'[k][h] = "pending"
                 PROVE  k # i /\ row[k][h] = "pending"
      OBVIOUS
    <3>1. row \in [Items -> [Runs -> RowStatus]]
      BY DEF Types, TypeOK
    <3>2. k = i => row'[k][h] = IF h = g THEN Closed(v) ELSE row[i][h]
      BY <1>5, <3>1
    <3>3. k = i => row[i][h] = "pending" /\ h # g
      BY <1>7, <3>2
    <3>4. k # i
      BY <1>2, <1>3, <3>3 DEF CalmInv, OneQuestion
    <3> QED
      BY <1>5, <3>1, <3>4
  <2>2. \A k \in Items : k # i => item'[k] = item[k]
    BY <1>6 DEF Types, TypeOK
  <2> QED
    BY <2>1, <2>2 DEF CalmInv, OneQuestion
<1>12. DecidesOpen(w)'
  BY <1>8 DEF DecidesOpen
<1>13. SyncLast(w)'
  BY <1>3, <1>5, <1>8, <1>9 DEF SyncLast, Unordered
<1>14. SyncOwed(w)'
  BY <1>5, <1>8, <1>9 DEF CalmInv, SyncOwed
<1> QED
  BY <1>10, <1>11, <1>12, <1>13, <1>14, CalmWebs DEF CalmInv

\* The expiry closes questions only while some are open, so before any order.
LEMMA CalmFlush ==
  ASSUME NEW w, Workers = {w}, Types, CalmInv(w), FlushExpired(w)
  PROVE  CalmInv(w)'
<1> DEFINE overdue == {q \in late : row[q[1]][q[2]] = "pending"}
           stale == {q[1] : q \in overdue}
<1>1. /\ ctx[w].phase = "idle" /\ overdue # {}
      /\ item' = [i \in Items |-> IF i \in stale /\ item[i] = "pending" THEN "unresolved" ELSE item[i]]
      /\ row' = [i \in Items |-> [g \in Runs |-> IF <<i, g>> \in overdue THEN "expired" ELSE row[i][g]]]
      /\ UNCHANGED <<late, key, results, orders, queue, ctx, spent>>
  BY DEF FlushExpired
<1>2. late \subseteq Questions
  BY DEF Types, TypeOK
<1>3. PICK i \in Items, g \in Runs : <<i, g>> \in late /\ row[i][g] = "pending"
  BY <1>1, <1>2 DEF Questions
<1>4. Asking /\ ~MapDue
  BY <1>3 DEF CalmInv, MapFirst, OneQuestion, Asking, WithStatus, Blank
<1>5. Unordered /\ ~SyncDue /\ spent.late # 0
  BY <1>1, <1>3, <1>4 DEF CalmInv, SyncLast, SyncOwed, Unordered
<1>6. ~SyncDue' /\ ~MapDue' /\ Unordered' /\ ctx'[w].phase = "idle" /\ spent'.late # 0
  BY <1>1, <1>4, <1>5 DEF SyncDue, MapDue, Unordered
<1>7. MapFirst(w)'
  BY <1>1, <1>4, <1>6 DEF CalmInv, MapFirst, MapDue
<1>8. OneQuestion'
  <2> SUFFICES ASSUME NEW k \in Items, NEW h \in Runs, row'[k][h] = "pending"
               PROVE  item'[k] = "pending" /\ \A m \in Runs : row'[k][m] = "pending" => h = m
    BY DEF OneQuestion
  <2>1. \A m \in Runs : row'[k][m] = "pending" => row[k][m] = "pending" /\ <<k, m>> \notin overdue
    BY <1>1
  <2>2. item[k] = "pending" /\ \A m \in Runs : row[k][m] = "pending" => h = m
    BY <2>1 DEF CalmInv, OneQuestion
  <2>3. k \notin stale
    <3> SUFFICES ASSUME NEW q \in overdue, q[1] = k PROVE FALSE
      OBVIOUS
    <3>1. q[2] \in Runs /\ q = <<k, q[2]>> /\ row[k][q[2]] = "pending"
      BY <1>2 DEF Questions
    <3> QED
      BY <2>1, <2>2, <3>1
  <2> QED
    BY <1>1, <2>1, <2>2, <2>3
<1>9. DecidesOpen(w)' /\ SyncLast(w)' /\ SyncOwed(w)'
  BY <1>1, <1>6 DEF DecidesOpen, SyncLast, SyncOwed, Unordered
<1> QED
  BY <1>1, <1>7, <1>8, <1>9, CalmWebs DEF CalmInv

\* A sync: taken, posted, recorded.
LEMMA CalmTakeSync ==
  ASSUME NEW w, Workers = {w}, Types, CalmInv(w), TakeSync(w)
  PROVE  CalmInv(w)'
<1>1. PICK j \in Jobs :
        /\ j.type = "KIOTVIET_SYNC" /\ j.complete /\ Take(w, j)
        /\ \/ key /\ UNCHANGED <<ctx, results>>
           \/ WithStatus("resolved") = {} /\ results' = results \cup {"failed"} /\ UNCHANGED ctx
           \/ /\ Goto(w, [Idle EXCEPT !.phase = "post", !.job = j, !.lines = WithStatus("resolved")])
              /\ UNCHANGED results
  BY DEF TakeSync
<1>2. UNCHANGED <<item, row, late, key, orders, spent>>
  BY DEF TakeSync
<1>3. IsSync(j) /\ ~IsMap(j) /\ ctx[w].phase = "idle"
  BY <1>1 DEF Take, IsSync, IsMap
<1>4. SyncDue
  BY <1>1, <1>3, TakeDue
<1>5. ~MapDue /\ ~Asking
  BY <1>3, <1>4 DEF CalmInv, MapFirst, SyncLast
<1>6. ~MapDue' /\ (Asking' <=> Asking) /\ WithStatus("resolved")' = WithStatus("resolved")
  BY <1>1, <1>2, <1>3, <1>5, TakeDue DEF Asking, WithStatus
<1>7. OneQuestion'
  BY <1>2 DEF CalmInv, OneQuestion
<1>8. CASE /\ UNCHANGED ctx
           /\ ((key /\ UNCHANGED results) \/ results' = results \cup {"failed"})
  <2>1. key => results # {}
    BY DEF CalmInv, SyncLast
  <2>2. results' # {}
    BY <1>8, <2>1
  <2>3. MapFirst(w)' /\ DecidesOpen(w)'
    BY <1>2, <1>3, <1>5, <1>6, <1>8 DEF CalmInv, MapFirst, DecidesOpen, MapDue
  <2>4. SyncLast(w)' /\ SyncOwed(w)'
    BY <1>2, <1>3, <1>5, <1>6, <1>8, <2>2 DEF CalmInv, SyncLast, SyncOwed
  <2> QED
    BY <1>7, <1>8, <2>3, <2>4, CalmWebs DEF CalmInv
<1>9. CASE Goto(w, [Idle EXCEPT !.phase = "post", !.job = j, !.lines = WithStatus("resolved")])
           /\ UNCHANGED results
  <2> DEFINE c == [Idle EXCEPT !.phase = "post", !.job = j, !.lines = WithStatus("resolved")]
  <2>1. c.phase = "post" /\ c.lines = WithStatus("resolved") /\ w \in Actors
    BY DEF Idle, Actors
  <2>2. Goto(w, c)
    BY <1>9
  <2> HIDE DEF c
  <2>3. ctx'[w].phase = "post" /\ ctx'[w].lines = WithStatus("resolved")
    BY <2>1, <2>2, Moved
  <2>4. MapFirst(w)' /\ DecidesOpen(w)'
    BY <1>2, <1>3, <1>5, <1>6, <2>3 DEF CalmInv, MapFirst, DecidesOpen, MapDue
  <2>5. SyncLast(w)' /\ SyncOwed(w)'
    BY <1>2, <1>3, <1>5, <1>6, <1>9, <2>3 DEF CalmInv, SyncLast, SyncOwed
  <2> QED
    BY <1>7, <2>2, <2>4, <2>5, CalmWebs DEF CalmInv
<1> QED
  BY <1>1, <1>8, <1>9

LEMMA CalmPost ==
  ASSUME NEW w, Workers = {w}, Types, CalmInv(w),
         PostOrder(w), orders' = Append(orders, ctx[w].lines),
         Goto(w, [ctx[w] EXCEPT !.phase = "record"]), UNCHANGED spent
  PROVE  CalmInv(w)'
<1> DEFINE c == [ctx[w] EXCEPT !.phase = "record"]
<1>1. /\ w \in Actors /\ ctx[w] \in Context /\ ctx[w].phase = "post"
      /\ orders \in Seq(SUBSET Items)
  BY DEF PostOrder, Types, TypeOK, Actors
<1>2. c.phase = "record" /\ c.lines = ctx[w].lines
  BY <1>1 DEF Context
<1> HIDE DEF c
<1>3. ctx'[w].phase = "record" /\ ctx'[w].lines = ctx[w].lines
  BY <1>1, <1>2, Moved DEF c
<1>4. UNCHANGED <<item, row, late, key, results, queue>>
  BY DEF PostOrder, db
<1>5. ~Asking /\ ctx[w].lines = WithStatus("resolved") /\ ~MapDue
  BY <1>1 DEF CalmInv, SyncLast, MapFirst
<1>6. /\ SyncDue' <=> SyncDue
      /\ MapDue' <=> MapDue
      /\ Asking' <=> Asking
      /\ WithStatus("resolved")' = WithStatus("resolved")
  BY <1>4 DEF SyncDue, MapDue, Asking, WithStatus
<1>7. ctx[w].lines \in SUBSET Items
  BY <1>1 DEF Context
<1>8. orders'[Len(orders')] = ctx[w].lines
  BY <1>1, <1>7
<1>9. MapFirst(w)' /\ OneQuestion' /\ DecidesOpen(w)'
  BY <1>1, <1>3, <1>4, <1>5, <1>6 DEF CalmInv, MapFirst, MapDue, OneQuestion, DecidesOpen
<1>10. SyncLast(w)'
  BY <1>3, <1>4, <1>5, <1>6, <1>8 DEF CalmInv, SyncLast
<1>11. SyncOwed(w)'
  BY <1>3, <1>4 DEF CalmInv, SyncOwed
<1> QED
  BY <1>9, <1>10, <1>11, CalmWebs DEF CalmInv

LEMMA CalmCommitSync ==
  ASSUME NEW w, Workers = {w}, Types, CalmInv(w),
         CommitSync(w), Goto(w, Idle), UNCHANGED <<queue, spent>>,
         results' = results \cup {"success"}
  PROVE  CalmInv(w)'
<1>1. w \in Actors /\ ctx[w].phase = "record" /\ UNCHANGED <<item, row, late, orders>>
  BY DEF CommitSync, Actors
<1>2. ctx'[w].phase = "idle"
  BY <1>1, Moved, IdleContext
<1>3. ~Asking /\ ~MapDue
  BY <1>1 DEF CalmInv, SyncLast, MapFirst
<1>4. /\ SyncDue' <=> SyncDue
      /\ MapDue' <=> MapDue
      /\ Asking' <=> Asking
      /\ WithStatus("resolved")' = WithStatus("resolved")
  BY <1>1 DEF SyncDue, MapDue, Asking, WithStatus
<1>5. MapFirst(w)' /\ OneQuestion' /\ DecidesOpen(w)'
  BY <1>1, <1>2, <1>3, <1>4 DEF CalmInv, MapFirst, MapDue, OneQuestion, DecidesOpen
<1>6. SyncLast(w)' /\ SyncOwed(w)'
  BY <1>1, <1>2, <1>3, <1>4 DEF CalmInv, SyncLast, SyncOwed
<1> QED
  BY <1>5, <1>6, CalmWebs DEF CalmInv

LEMMA CalmBefore == Types /\ [Next]_vars /\ Calm' => Calm
<1> DEFINE Counts == {"runs", "replies", "taps", "copies", "faults", "crashes", "late"}
<1> SUFFICES ASSUME Types, [Next]_vars, Calm' PROVE Calm
  OBVIOUS
<1>0. spent \in [Counts -> Nat]
  BY DEF Types, TypeOK
<1>1. UNCHANGED spent => Calm
  BY DEF Calm
<1>2. \A what \in Counts : Spend(what) => Calm
  BY <1>0 DEF Spend, Calm
<1>3. ASSUME NEW a, NEW c, Close(a, c) PROVE Calm
  BY <1>1, <1>2, <1>3 DEF Close
<1>4. CASE Reply \/ DeadlinePasses \/ DeliverTwice \/ UNCHANGED vars
  BY <1>1, <1>2, <1>4 DEF Reply, DeadlinePasses, DeliverTwice, vars
<1>5. ASSUME NEW a, DropInvalid(a) \/ TakeMap(a) \/ WriteMap(a) \/ CommitMap(a) PROVE Calm
  BY <1>1, <1>2, <1>3, <1>5 DEF DropInvalid, TakeMap, WriteMap, CommitMap
<1>6. ASSUME NEW a, TakeConfirm(a) \/ Decide(a) \/ CommitDecision(a) PROVE Calm
  BY <1>1, <1>2, <1>3, <1>6 DEF TakeConfirm, Decide, CommitDecision
<1>7. ASSUME NEW a, TakeSync(a) \/ PostOrder(a) \/ CommitSync(a) \/ GiveUp(a) PROVE Calm
  BY <1>1, <1>2, <1>3, <1>7 DEF TakeSync, PostOrder, CommitSync, GiveUp
<1>8. ASSUME NEW a, EnqueueFromTap(a) \/ Tap(a) \/ Submit(a) PROVE Calm
  BY <1>1, <1>2, <1>8 DEF EnqueueFromTap, Tap, Submit
<1>9. ASSUME NEW a, FlushExpired(a) \/ RollBack(a) \/ Crash(a) PROVE Calm
  BY <1>1, <1>2, <1>9 DEF FlushExpired, RollBack, Crash
<1> QED
  BY <1>4, <1>5, <1>6, <1>7, <1>8, <1>9 DEF Next, WorkerStep, WebStep

LEMMA CalmNext ==
  ASSUME NEW w, Workers = {w}, Types, Calm => CalmInv(w), [Next]_vars, Calm'
  PROVE  CalmInv(w)'
<1>1. CalmInv(w) /\ WebsIdle
  BY CalmBefore DEF CalmInv
<1>2. ctx[w].phase # "giveup"
  BY <1>1 DEF CalmInv, SyncLast
<1>3. ~GiveUp(w)
  BY <1>2 DEF GiveUp
<1>4. CASE TakeConfirm(w)
  BY <1>1, <1>4, CalmOwner, CalmTakeConfirm
<1> QED
  BY <1>1, <1>3, <1>4, CalmSteps, CalmOwner, CalmTakeMap, CalmWriteMap, CalmCommitMap, CalmDecide,
     CalmCommitDecision, CalmFlush, CalmTakeSync, CalmPost, CalmCommitSync

LEMMA CalmInit ==
  ASSUME NEW w, Workers = {w}, Init
  PROVE  CalmInv(w)
<1>1. MapJob \in Jobs /\ IsMap(MapJob) /\ ~IsSync(MapJob)
  BY JobKinds
<1>2. \A a \in Actors : ctx[a].phase = "idle"
  BY IdleContext DEF Init
<1>3. w \in Actors /\ ctx[w].phase = "idle"
  BY <1>2 DEF Actors
<1>4. MapDue /\ ~SyncDue /\ Blank
  BY <1>1 DEF Init, MapDue, SyncDue, Blank, Unordered
<1>5. MapFirst(w)
  BY <1>3, <1>4 DEF MapFirst, Init
<1>6. OneQuestion /\ late = {}
  BY DEF OneQuestion, Init
<1>7. DecidesOpen(w) /\ SyncLast(w) /\ SyncOwed(w)
  BY <1>3, <1>4, <1>6 DEF DecidesOpen, SyncLast, SyncOwed, Blank, Unordered
<1> QED
  BY <1>2, <1>5, <1>6, <1>7 DEF CalmInv, WebsIdle, Actors

\* The invariant holds as long as all is calm.
LEMMA CalmAlways ==
  ASSUME NEW w, Workers = {w}
  PROVE  Spec => []Types /\ [](Calm => CalmInv(w))
<1>1. Init => (Calm => CalmInv(w))
  BY CalmInit
<1>2. Types /\ (Calm => CalmInv(w)) /\ [Next]_vars => (Calm => CalmInv(w))'
  <2> SUFFICES ASSUME Types, Calm => CalmInv(w), [Next]_vars, Calm' PROVE CalmInv(w)'
    OBVIOUS
  <2> QED
    BY CalmNext
<1>3. Spec => []Types
  BY TypesInit, TypesNext, PTL DEF Spec
<1> QED
  BY <1>1, <1>2, <1>3, PTL DEF Spec

\* With one worker process, no failure, no mini app and no question expired, an
\* invoice whose work is done and whose lines are all settled has been through a
\* sync: the last of mapping run and answers enqueues it
\* (mapping-resolve.ts:375, process-confirm-mapping.ts:213, kiotviet-sync.ts:250).
THEOREM LoneWorkerSyncs ==
  ASSUME NEW w, Workers = {w}
  PROVE  Spec => [](Calm /\ spent.late = 0 => SettledMeansSynced)
<1>1. ASSUME Types, CalmInv(w), spent.late = 0 PROVE SettledMeansSynced
  <2> SUFFICES ASSUME Quiet, WithStatus("pending") = {}, WithStatus("resolved") # {}
               PROVE  results # {}
    BY DEF SettledMeansSynced
  <2>1. ctx[w].phase = "idle"
    BY DEF Quiet, Actors
  <2>2. ~MapDue /\ ~SyncDue
    BY DEF Quiet, MapDue, SyncDue
  <2> QED
    BY <1>1, <2>1, <2>2 DEF CalmInv, SyncOwed, Asking
<1>2. Types /\ (Calm => CalmInv(w)) => (Calm /\ spent.late = 0 => SettledMeansSynced)
  BY <1>1
<1> QED
  BY <1>2, CalmAlways, PTL

\* With one worker process, no failure and no mini app, the last purchase order
\* holds exactly the resolved lines of the invoice, expired questions or not: no
\* line is decided after the sync has read them (kiotviet-sync.ts:318).
THEOREM LoneWorkerOrdersAll ==
  ASSUME NEW w, Workers = {w}
  PROVE  Spec => [](Calm => OrderMatchesInvoice)
<1>1. CalmInv(w) => OrderMatchesInvoice
  BY DEF CalmInv, SyncLast, OrderMatchesInvoice
<1>2. (Calm => CalmInv(w)) => (Calm => OrderMatchesInvoice)
  BY <1>1
<1> QED
  BY <1>2, CalmAlways, PTL

\* A behaviour without failures and without taps is calm all along.
LEMMA CalmFromBounds ==
  ASSUME MaxFaults = 0, MaxCrashes = 0, MaxTaps = 0
  PROVE  Spec => []Calm
<1> DEFINE Counts == {"runs", "replies", "taps", "copies", "faults", "crashes", "late"}
<1>1. Init => Calm
  BY DEF Init, Calm
<1>2. Types /\ Calm /\ [Next]_vars => Calm'
  <2> SUFFICES ASSUME Types, Calm, [Next]_vars PROVE Calm'
    OBVIOUS
  <2>0. spent \in [Counts -> Nat]
    BY DEF Types, TypeOK
  <2>1. UNCHANGED spent => Calm'
    BY DEF Calm
  <2>2. \A what \in {"runs", "replies", "late", "copies"} : Spend(what) => Calm'
    BY <2>0 DEF Spend, Calm
  <2>3. ~(spent.faults < MaxFaults) /\ ~(spent.crashes < MaxCrashes) /\ ~(spent.taps < MaxTaps)
    BY DEF Calm
  <2>4. ASSUME NEW a, NEW c, Close(a, c) PROVE Calm'
    BY <2>1, <2>3, <2>4 DEF Close
  <2>5. CASE Reply \/ DeadlinePasses \/ DeliverTwice \/ UNCHANGED vars
    BY <2>1, <2>2, <2>5 DEF Reply, DeadlinePasses, DeliverTwice, vars
  <2>6. ASSUME NEW a, DropInvalid(a) \/ TakeMap(a) \/ WriteMap(a) \/ CommitMap(a) PROVE Calm'
    BY <2>1, <2>2, <2>4, <2>6 DEF DropInvalid, TakeMap, WriteMap, CommitMap
  <2>7. ASSUME NEW a, TakeConfirm(a) \/ Decide(a) \/ CommitDecision(a) PROVE Calm'
    BY <2>1, <2>4, <2>7 DEF TakeConfirm, Decide, CommitDecision
  <2>8. ASSUME NEW a, TakeSync(a) \/ PostOrder(a) \/ CommitSync(a) \/ GiveUp(a) PROVE Calm'
    BY <2>1, <2>3, <2>4, <2>8 DEF TakeSync, PostOrder, CommitSync, GiveUp
  <2>9. ASSUME NEW a, EnqueueFromTap(a) \/ FlushExpired(a) PROVE Calm'
    BY <2>1, <2>9 DEF EnqueueFromTap, FlushExpired
  <2>10. \A a : ~Tap(a) /\ ~Submit(a) /\ ~RollBack(a) /\ ~Crash(a)
    BY <2>3 DEF Tap, Submit, RollBack, Crash
  <2> QED
    BY <2>5, <2>6, <2>7, <2>8, <2>9, <2>10 DEF Next, WorkerStep, WebStep
<1>3. Spec => []Types
  BY TypesInit, TypesNext, PTL DEF Spec
<1> QED
  BY <1>1, <1>2, <1>3, PTL DEF Spec

\* One worker process orders nothing while a question about the invoice is open
\* (mapping-resolve.ts:371, process-confirm-mapping.ts:206): a sync is enqueued
\* when the last question is closed, and none is asked later.
THEOREM NoEarlyOrder ==
  ASSUME NEW w, Workers = {w}, MaxFaults = 0, MaxCrashes = 0, MaxTaps = 0
  PROVE  Spec => NoOrderWhileAsking
<1>1. ASSUME Types, CalmInv(w), [Next]_vars, Calm', orders' # orders
      PROVE  WithStatus("pending") = {}
  <2>1. PICK a \in Workers : PostOrder(a)
    BY <1>1, WhoOrders DEF CommitSync
  <2>2. ctx[w].phase = "post"
    BY <2>1 DEF PostOrder
  <2> QED
    BY <1>1, <2>2 DEF CalmInv, SyncLast, Asking
<1>2. /\ Types /\ Calm /\ (Calm => CalmInv(w)) /\ [Next]_vars /\ Calm'
      => [orders' # orders => WithStatus("pending") = {}]_vars
  BY <1>1
<1> QED
  BY <1>2, CalmAlways, CalmFromBounds, PTL DEF Spec, NoOrderWhileAsking

\* One worker process never processes a resolved or skipped line again
\* (process-confirm-mapping.ts:160): only a run that commits for the first time,
\* an answer to an open question and an expiry write lines, and all three find
\* the line absent or waiting.
THEOREM LinesProcessedOnce ==
  ASSUME NEW w, Workers = {w}, MaxFaults = 0, MaxCrashes = 0, MaxTaps = 0
  PROVE  Spec => ProcessedOnce
<1>1. ASSUME Types, CalmInv(w), [Next]_vars, Calm',
             NEW i \in Items, item[i] \in {"resolved", "skipped"}
      PROVE  item'[i] = item[i]
  <2>1. CASE UNCHANGED <<item, row>>
    BY <2>1
  <2>2. ~CommitMap(w)
    BY <1>1 DEF CommitMap, CalmInv, MapFirst, Blank
  <2>3. CASE FlushExpired(w)
    BY <1>1, <2>3 DEF FlushExpired
  <2>4. ASSUME NEW a \in Actors, CommitDecision(a) PROVE item'[i] = item[i]
    <3>1. ctx[a].phase = "decided"
      BY <2>4 DEF CommitDecision
    <3>2. a = w
      BY <1>1, <3>1 DEF CalmInv, WebsIdle, Actors
    <3>3. ctx[w].item \in Items /\ ctx[w].run \in Runs /\ row[ctx[w].item][ctx[w].run] = "pending"
      BY <1>1, <2>4, <3>1, <3>2 DEF CalmInv, DecidesOpen, Types, ContextOK
    <3>4. item[ctx[w].item] = "pending"
      BY <1>1, <3>3 DEF CalmInv, OneQuestion
    <3> QED
      BY <1>1, <2>4, <3>2, <3>4 DEF CommitDecision, Seen, Types, TypeOK
  <2> QED
    BY <1>1, <2>1, <2>2, <2>3, <2>4, WhoWritesLines
<1>2. /\ Types /\ Calm /\ (Calm => CalmInv(w)) /\ [Next]_vars /\ Calm'
      => [\A i \in Items : item[i] \in {"resolved", "skipped"} => item'[i] = item[i]]_vars
  BY <1>1
<1> QED
  BY <1>2, CalmAlways, CalmFromBounds, PTL DEF Spec, ProcessedOnce

-----------------------------------------------------------------------------
(* What the owner taught. *)

\* The lines the mapping run w works on without a dictionary entry still have
\* none of the owner's.
Untaught(w) ==
  /\ ctx[w].phase = "map" => \A i \in Items : dict[i] = "user" => i \in ctx[w].lines
  /\ ctx[w].phase = "mapped" => \A i \in Items : dict[i] = "user" => ctx[w].plan[i] = "known"

\* The phases a mapping run goes through are entered one from the other.
LEMMA WhoMaps ==
  ASSUME Types, [Next]_vars, NEW b \in Actors
  PROVE  /\ ctx'[b].phase = "map" => ctx'[b] = ctx[b] \/ (b \in Workers /\ TakeMap(b))
         /\ ctx'[b].phase = "mapped" => ctx'[b] = ctx[b] \/ (b \in Workers /\ WriteMap(b))
<1> DEFINE P == ctx'[b].phase \in {"map", "mapped"} => ctx'[b] = ctx[b]
<1>1. ASSUME NEW a \in Actors, NEW c, Goto(a, c), c.phase \notin {"map", "mapped"} PROVE P
  BY <1>1, Moved
<1>2. /\ Idle.phase = "idle"
      /\ [Idle EXCEPT !.phase = "respond"].phase = "respond"
      /\ \A a \in Actors : ctx[a] \in Context /\ DOMAIN ctx[a] = DOMAIN Idle
  BY DEF Idle, Types, TypeOK, Context
<1>3. ASSUME UNCHANGED ctx PROVE P
  BY <1>3
<1>4. ASSUME NEW a \in Actors, NEW c, Close(a, c), c.phase \notin {"map", "mapped"} PROVE P
  BY <1>1, <1>4 DEF Close
<1>5. CASE Reply \/ DeadlinePasses \/ DeliverTwice \/ UNCHANGED vars
  BY <1>3, <1>5 DEF Reply, DeadlinePasses, DeliverTwice, vars
<1>6. ASSUME NEW a \in Workers, DropInvalid(a) \/ CommitMap(a) \/ CommitDecision(a)
             \/ CommitSync(a) \/ GiveUp(a) \/ FlushExpired(a) \/ RollBack(a)
      PROVE  P
  BY <1>1, <1>2, <1>3, <1>4, <1>6 DEF DropInvalid, CommitMap, CommitDecision, CommitSync,
       GiveUp, FlushExpired, RollBack, Actors
<1>7. ASSUME NEW a \in Webs, CommitDecision(a) \/ EnqueueFromTap(a) \/ Submit(a) PROVE P
  BY <1>1, <1>2, <1>3, <1>4, <1>7 DEF CommitDecision, EnqueueFromTap, Submit, Actors
<1>8. ASSUME NEW a \in Actors, Crash(a) PROVE P
  BY <1>1, <1>2, <1>8 DEF Crash
<1>9. ASSUME NEW a \in Workers, TakeConfirm(a) PROVE P
  <2>1. ASSUME NEW j, NEW q,
               Goto(a, [Idle EXCEPT !.phase = "decide", !.job = j, !.item = q[1],
                                    !.run = q[2], !.verdict = j.verdict])
        PROVE  P
    <3> DEFINE c == [Idle EXCEPT !.phase = "decide", !.job = j, !.item = q[1],
                                 !.run = q[2], !.verdict = j.verdict]
    <3>1. c.phase = "decide" /\ a \in Actors
      BY DEF Idle, Actors
    <3> QED
      BY <1>1, <2>1, <3>1
  <2> QED
    BY <1>3, <1>9, <2>1 DEF TakeConfirm
<1>10. ASSUME NEW a \in Actors, Decide(a) PROVE P
  <2>1. PICK ready : Goto(a, [ctx[a] EXCEPT !.phase = "decided", !.sync = ready])
    BY <1>10 DEF Decide
  <2>2. [ctx[a] EXCEPT !.phase = "decided", !.sync = ready].phase = "decided"
    BY DEF Types, TypeOK, Context
  <2> QED
    BY <1>1, <2>1, <2>2
<1>11. ASSUME NEW a \in Webs, Tap(a) PROVE P
  <2>1. PICK v, i, g :
          Goto(a, [Idle EXCEPT !.phase = "decide", !.item = i, !.run = g, !.verdict = v])
    BY <1>11 DEF Tap
  <2> DEFINE c == [Idle EXCEPT !.phase = "decide", !.item = i, !.run = g, !.verdict = v]
  <2>2. a \in Actors /\ c.phase = "decide"
    BY DEF Actors, Idle
  <2> QED
    BY <1>1, <2>1, <2>2
<1>12. ASSUME NEW a \in Workers, TakeSync(a) PROVE P
  <2>1. ASSUME NEW j, Goto(a, [Idle EXCEPT !.phase = "post", !.job = j,
                                          !.lines = WithStatus("resolved")])
        PROVE  P
    <3> DEFINE c == [Idle EXCEPT !.phase = "post", !.job = j, !.lines = WithStatus("resolved")]
    <3>1. a \in Actors /\ c.phase = "post"
      BY DEF Actors, Idle
    <3> QED
      BY <1>1, <2>1, <3>1
  <2> QED
    BY <1>3, <1>12, <2>1 DEF TakeSync
<1>13. ASSUME NEW a \in Workers, PostOrder(a) PROVE P
  <2>1. a \in Actors /\ ctx[a] \in Context
    BY <1>2 DEF Actors
  <2>2. PICK c : Goto(a, c) /\ c.phase \in {"post", "record", "giveup"}
    BY <1>13, <2>1 DEF PostOrder, Context
  <2> QED
    BY <1>1, <2>1, <2>2
<1>14. ASSUME NEW a \in Workers, TakeMap(a)
       PROVE  a # b => P
  <2>1. a \in Actors
    BY DEF Actors
  <2> QED
    BY <1>14, <2>1, Moved DEF TakeMap
<1>15. ASSUME NEW a \in Workers, WriteMap(a)
       PROVE  a # b => P
  <2>1. a \in Actors
    BY DEF Actors
  <2> QED
    BY <1>15, <2>1, Moved DEF WriteMap
<1>16. TakeMap(b) => ctx'[b].phase = "map"
  <2> SUFFICES ASSUME NEW j, Goto(b, [Idle EXCEPT !.phase = "map", !.job = j,
                                        !.run = spent.runs + 1, !.lines = Known])
               PROVE  ctx'[b].phase = "map"
    BY DEF TakeMap
  <2> DEFINE c == [Idle EXCEPT !.phase = "map", !.job = j, !.run = spent.runs + 1, !.lines = Known]
  <2>1. c.phase = "map"
    BY DEF Idle
  <2> QED
    BY <2>1, Moved
<1>17. WriteMap(b) => ctx'[b].phase = "mapped"
  <2> SUFFICES ASSUME NEW plan, Goto(b, [ctx[b] EXCEPT !.phase = "mapped", !.plan = plan])
               PROVE  ctx'[b].phase = "mapped"
    BY DEF WriteMap
  <2>1. [ctx[b] EXCEPT !.phase = "mapped", !.plan = plan].phase = "mapped"
    BY <1>2 DEF Context
  <2> QED
    BY <2>1, Moved
<1> QED
  BY <1>5, <1>6, <1>7, <1>8, <1>9, <1>10, <1>11, <1>12, <1>13, <1>14, <1>15, <1>16, <1>17
  DEF Next, WorkerStep, WebStep, Actors

\* Who writes the dictionary, and is done with its transaction then.
LEMMA WhoTeaches ==
  ASSUME Types, [Next]_vars
  PROVE  \/ UNCHANGED dict
         \/ \E a \in Workers : CommitMap(a) /\ Goto(a, Idle)
         \/ \E a \in Actors : CommitDecision(a) /\ ctx'[a].phase \in {"idle", "respond"}
<1>1. CASE Reply \/ DeadlinePasses \/ DeliverTwice \/ UNCHANGED vars
  BY <1>1 DEF Reply, DeadlinePasses, DeliverTwice, db, vars
<1>2. ASSUME NEW a \in Workers, WorkerStep(a) \/ RollBack(a) \/ FlushExpired(a),
             ~CommitMap(a), ~CommitDecision(a)
      PROVE  UNCHANGED dict
  BY <1>2 DEF WorkerStep, DropInvalid, TakeMap, WriteMap, TakeConfirm, Decide, TakeSync,
              PostOrder, CommitSync, GiveUp, RollBack, FlushExpired, db
<1>3. ASSUME NEW b \in Webs, WebStep(b) \/ Tap(b) \/ Submit(b), ~CommitDecision(b)
      PROVE  UNCHANGED dict
  BY <1>3 DEF WebStep, Decide, EnqueueFromTap, Tap, Submit, db
<1>4. ASSUME NEW a \in Actors, Crash(a) PROVE UNCHANGED dict
  BY <1>4 DEF Crash, db
<1>5. \A a : CommitMap(a) => Goto(a, Idle)
  BY DEF CommitMap, Close
<1>6. ASSUME NEW a \in Actors, CommitDecision(a) PROVE ctx'[a].phase \in {"idle", "respond"}
  <2>1. Idle.phase = "idle" /\ [Idle EXCEPT !.phase = "respond"].phase = "respond"
    BY DEF Idle
  <2>2. Goto(a, Idle) \/ Goto(a, [Idle EXCEPT !.phase = "respond"])
    BY <1>6 DEF CommitDecision, Close
  <2> QED
    BY <2>1, <2>2, Moved
<1> QED
  BY <1>1, <1>2, <1>3, <1>4, <1>5, <1>6 DEF Next, Actors

\* Without taps no request of the mini app gets to work.
LEMMA WebsStayIdle ==
  ASSUME MaxTaps = 0, Types, WebsIdle, [Next]_vars
  PROVE  WebsIdle'
<1>1. spent.taps \in Nat /\ \A b \in Webs : b \in Actors /\ b \notin Workers
  BY ConstantsAssumption DEF Types, TypeOK, Actors
<1>2. CASE UNCHANGED ctx
  BY <1>2 DEF WebsIdle
<1>3. ASSUME NEW a \in Workers, NEW c, Goto(a, c) PROVE WebsIdle'
  BY <1>1, <1>3, Moved DEF WebsIdle, Actors
<1>4. \A b \in Webs : ~WebStep(b) /\ ~Tap(b) /\ ~Submit(b) /\ ~Crash(b)
  <2>1. ~(spent.taps < MaxTaps)
    BY <1>1
  <2>2. \A b : ~Tap(b) /\ ~Submit(b)
    BY <2>1 DEF Tap, Submit
  <2>3. \A b \in Webs : ~Decide(b) /\ ~CommitDecision(b) /\ ~EnqueueFromTap(b) /\ ~Crash(b)
    BY DEF WebsIdle, Decide, CommitDecision, EnqueueFromTap, Crash
  <2> QED
    BY <2>2, <2>3 DEF WebStep
<1>5. CASE Reply \/ DeadlinePasses \/ DeliverTwice \/ UNCHANGED vars
  BY <1>2, <1>5 DEF Reply, DeadlinePasses, DeliverTwice, vars
<1>6. ASSUME NEW a \in Workers, WorkerStep(a) \/ FlushExpired(a) \/ RollBack(a) \/ Crash(a)
      PROVE  WebsIdle'
  <2>1. CASE DropInvalid(a) \/ TakeMap(a) \/ WriteMap(a) \/ CommitMap(a)
    BY <1>2, <1>3, <2>1 DEF DropInvalid, TakeMap, WriteMap, CommitMap, Close
  <2>2. CASE TakeConfirm(a) \/ Decide(a) \/ CommitDecision(a)
    BY <1>2, <1>3, <2>2 DEF TakeConfirm, Decide, CommitDecision, Close
  <2>3. CASE TakeSync(a) \/ PostOrder(a) \/ CommitSync(a) \/ GiveUp(a)
    BY <1>2, <1>3, <2>3 DEF TakeSync, PostOrder, CommitSync, GiveUp, Close
  <2>4. CASE FlushExpired(a) \/ RollBack(a) \/ Crash(a)
    BY <1>2, <1>3, <2>4 DEF FlushExpired, RollBack, Crash
  <2> QED
    BY <1>6, <2>1, <2>2, <2>3, <2>4 DEF WorkerStep
<1> QED
  BY <1>4, <1>5, <1>6 DEF Next, Actors

LEMMA UntaughtNext ==
  ASSUME NEW w, Workers = {w}, Types, WebsIdle, Untaught(w), [Next]_vars
  PROVE  Untaught(w)'
<1>0. w \in Actors /\ w \in Workers /\ ctx[w] \in Context
  BY DEF Actors, Types, TypeOK
<1>1. ctx'[w].phase \in {"map", "mapped"} => UNCHANGED dict
  <2>1. ASSUME NEW a \in Workers, Goto(a, Idle) PROVE ctx'[w].phase = "idle"
    BY <1>0, <2>1, Moved, IdleContext
  <2>2. ASSUME NEW a \in Actors, CommitDecision(a) PROVE a = w
    BY <2>2 DEF CommitDecision, WebsIdle, Actors
  <2> QED
    BY <2>1, <2>2, WhoTeaches
<1>2. CASE ctx'[w] = ctx[w]
  BY <1>1, <1>2 DEF Untaught
<1>3. CASE TakeMap(w)
  <2>1. PICK j : Goto(w, [Idle EXCEPT !.phase = "map", !.job = j, !.run = spent.runs + 1,
                                      !.lines = Known])
    BY <1>3 DEF TakeMap
  <2> DEFINE c == [Idle EXCEPT !.phase = "map", !.job = j, !.run = spent.runs + 1, !.lines = Known]
  <2>2. c.phase = "map" /\ c.lines = Known
    BY DEF Idle
  <2>3. Goto(w, c)
    BY <2>1
  <2> HIDE DEF c
  <2>4. ctx'[w].phase = "map" /\ ctx'[w].lines = Known
    BY <1>0, <2>2, <2>3, Moved
  <2>5. \A i \in Items : dict[i] = "user" => i \in Known
    BY DEF Known
  <2> QED
    BY <1>1, <2>4, <2>5 DEF Untaught
<1>4. CASE WriteMap(w)
  <2>1. PICK plan : /\ \A i \in Items : plan[i] = "known" <=> i \in ctx[w].lines
                    /\ Goto(w, [ctx[w] EXCEPT !.phase = "mapped", !.plan = plan])
    BY <1>4 DEF WriteMap
  <2> DEFINE c == [ctx[w] EXCEPT !.phase = "mapped", !.plan = plan]
  <2>2. c.phase = "mapped" /\ c.plan = plan
    BY <1>0 DEF Context
  <2>3. Goto(w, c)
    BY <2>1
  <2> HIDE DEF c
  <2>4. ctx'[w].phase = "mapped" /\ ctx'[w].plan = plan
    BY <1>0, <2>2, <2>3, Moved
  <2>5. \A i \in Items : dict[i] = "user" => plan[i] = "known"
    BY <1>4, <2>1 DEF Untaught, WriteMap
  <2> QED
    BY <1>1, <2>4, <2>5 DEF Untaught
<1> QED
  BY <1>0, <1>2, <1>3, <1>4, WhoMaps DEF Untaught

\* With one worker process and no mini app, what the owner taught stays: a run
\* consults the dictionary before the AI and nobody teaches while it works
\* (mapping-resolve.ts:240), whatever fails, is retried or expires.
THEOREM TaughtStays ==
  ASSUME NEW w, Workers = {w}, MaxTaps = 0
  PROVE  Spec => OwnerTeaches
<1>1. Init => WebsIdle /\ Untaught(w)
  <2> SUFFICES ASSUME Init PROVE WebsIdle /\ Untaught(w)
    OBVIOUS
  <2>1. \A a \in Actors : ctx[a].phase = "idle"
    BY IdleContext DEF Init
  <2> QED
    BY <2>1 DEF WebsIdle, Untaught, Actors
<1>2. Types /\ WebsIdle /\ Untaught(w) /\ [Next]_vars => WebsIdle' /\ Untaught(w)'
  BY WebsStayIdle, UntaughtNext
<1>3. ASSUME Types, Untaught(w), [Next]_vars, NEW i \in Items, dict[i] = "user"
      PROVE  dict'[i] = "user"
  <2>1. ASSUME NEW a \in Actors, CommitDecision(a) PROVE dict'[i] = "user"
    BY <1>3, <2>1 DEF CommitDecision, Types, TypeOK
  <2>2. CASE CommitMap(w)
    BY <1>3, <2>2 DEF CommitMap, Untaught
  <2> QED
    BY <1>3, <2>1, <2>2, WhoTeaches
<1>4. Types /\ Untaught(w) /\ [Next]_vars
      => [\A i \in Items : dict[i] = "user" => dict'[i] = "user"]_vars
  BY <1>3
<1>5. Spec => []Types
  BY TypesInit, TypesNext, PTL DEF Spec
<1> QED
  BY <1>1, <1>2, <1>4, <1>5, PTL DEF Spec, OwnerTeaches
=============================================================================
