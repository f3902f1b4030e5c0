------------------------------ MODULE JobQueue ------------------------------
(***************************************************************************)
(* packages/common/src/bullmq-lite.ts: a job queue kept in a Redis list    *)
(* ("wait") and a sorted set ("delayed"), served by any number of worker   *)
(* processes that each run one redis-cli command at a time.  Every command *)
(* is a step of its own, and another worker may run in between.            *)
(*                                                                         *)
(* What is stored is the JSON of the whole job, so two copies with the     *)
(* same attemptsMade are the same member of the sorted set.                *)
(***************************************************************************)
EXTENDS Integers, Sequences, FiniteSets

CONSTANTS
  Jobs,        \* job ids (randomUUID), each added once
  Once,        \* jobs added without options: one attempt (mini app)
  Prompt,      \* jobs retried without delay (BULLMQ_DEFAULT_BACKOFF_MS = 0)
  Workers,     \* worker processes
  Attempts,    \* BULLMQ_DEFAULT_ATTEMPTS
  NoCopy,      \* stands for "no job in hand"
  MaxFaults    \* bound: crashes and failed Redis commands

ASSUME QueueAssumption ==
  /\ Once \subseteq Jobs /\ Prompt \subseteq Jobs
  /\ Attempts \in Nat \ {0} /\ MaxFaults \in Nat

AttemptsOf(j) == IF j \in Once THEN 1 ELSE Attempts

\* A stored job: its id and attemptsMade.
Copies == [job : Jobs, made : 0 .. Attempts]
ASSUME NoCopyAssumption == NoCopy \notin Copies

\* "sweep": has read what is due, and moves it copy by copy; "move": has
\* removed one copy from the sorted set and not pushed it yet; "run": the
\* processor has a job.
Phases == {"sweep", "move", "run"}
Hand == [phase : {"idle"} \cup Phases, due : SUBSET Copies, copy : Copies \cup {NoCopy}]
EmptyHand == [phase |-> "idle", due |-> {}, copy |-> NoCopy]

VARIABLES
  wait,      \* the list; RPUSH and BRPOP both work at its right end
  delayed,   \* the sorted set
  ripe,      \* the members of delayed whose time has come
  hand,      \* what each worker holds in memory
  added,     \* jobs enqueued so far
  answered,  \* jobs whose processor returned, or that failed for good
  faults     \* faults so far

redis == <<wait, delayed, ripe>>
vars == <<wait, delayed, ripe, hand, added, answered, faults>>

Init ==
  /\ wait = <<>> /\ delayed = {} /\ ripe = {}
  /\ hand = [w \in Workers |-> EmptyHand]
  /\ added = {} /\ answered = {} /\ faults = 0

Holding(w, h) == hand' = [hand EXCEPT ![w] = h]
Push(c) == wait' = Append(wait, c)
Popped == SubSeq(wait, 1, Len(wait) - 1)

-----------------------------------------------------------------------------
\* Queue.add
Add(j) ==
  /\ j \notin added
  /\ added' = added \cup {j}
  /\ Push([job |-> j, made |-> 0])
  /\ UNCHANGED <<delayed, ripe, hand, answered, faults>>

\* The delay of a copy runs out.
Ripen(c) ==
  /\ c \in delayed \ ripe
  /\ ripe' = ripe \cup {c}
  /\ UNCHANGED <<wait, delayed, hand, added, answered, faults>>

-----------------------------------------------------------------------------
(* promoteDelayedJobs *)

\* ZRANGEBYSCORE: everything due now.
ReadDue(w) ==
  /\ hand[w].phase = "idle"
  /\ Holding(w, [EmptyHand EXCEPT !.phase = "sweep", !.due = ripe])
  /\ UNCHANGED <<redis, added, answered, faults>>

\* Mutant of RemoveDue: all that is due is removed, one copy is moved.
RemoveAllDue(w) ==
  /\ hand[w].phase = "sweep"
  /\ \E c \in hand[w].due :
       /\ delayed' = delayed \ hand[w].due /\ ripe' = ripe \ hand[w].due
       /\ Holding(w, [phase |-> "move", due |-> {}, copy |-> c])
  /\ UNCHANGED <<wait, added, answered, faults>>

\* ZREM.  What it returns is not looked at: the copy is pushed whether or not
\* another worker removed it first.
RemoveDue(w) ==
  /\ hand[w].phase = "sweep"
  /\ \E c \in hand[w].due :
       /\ delayed' = delayed \ {c} /\ ripe' = ripe \ {c}
       /\ Holding(w, [phase |-> "move", due |-> hand[w].due \ {c}, copy |-> c])
  /\ UNCHANGED <<wait, added, answered, faults>>

\* RPUSH
PushDue(w) ==
  /\ hand[w].phase = "move"
  /\ Push(hand[w].copy)
  /\ Holding(w, [hand[w] EXCEPT !.phase = "sweep", !.copy = NoCopy])
  /\ UNCHANGED <<delayed, ripe, added, answered, faults>>

-----------------------------------------------------------------------------
(* loop *)

\* BRPOP takes the newest job; after a second without one the loop starts over.
Pop(w) ==
  /\ hand[w].phase = "sweep" /\ hand[w].due = {}
  /\ IF wait # <<>>
     THEN /\ wait' = Popped
          /\ Holding(w, [EmptyHand EXCEPT !.phase = "run", !.copy = wait[Len(wait)]])
     ELSE Holding(w, EmptyHand) /\ UNCHANGED wait
  /\ UNCHANGED <<delayed, ripe, added, answered, faults>>

\* The processor returns.
Finish(w) ==
  /\ hand[w].phase = "run"
  /\ answered' = answered \cup {hand[w].copy.job}
  /\ Holding(w, EmptyHand)
  /\ UNCHANGED <<redis, added, faults>>

Retried(c) == [c EXCEPT !.made = @ + 1]

\* Mutants of MayRetry: one attempt too many; no end of attempts.
MayRetryAlways(c) == TRUE
MayRetryOnceMore(c) == c.made < AttemptsOf(c.job)

MayRetry(c) == c.made + 1 < AttemptsOf(c.job)

\* ZADD of a member that is there already only moves its time.
PutBack(c) ==
  IF c.job \in Prompt
  THEN Push(c) /\ UNCHANGED <<delayed, ripe>>
  ELSE delayed' = delayed \cup {c} /\ ripe' = ripe \ {c} /\ UNCHANGED wait

\* Mutant of Fail: the last failure is not reported.
FailSilently(w) ==
  LET c == hand[w].copy
  IN /\ hand[w].phase = "run"
     /\ IF MayRetry(c) THEN PutBack(Retried(c)) ELSE UNCHANGED redis
     /\ Holding(w, EmptyHand)
     /\ UNCHANGED <<added, answered, faults>>

\* The processor throws: the job is put back, or has failed for good.
Fail(w) ==
  LET c == hand[w].copy
  IN /\ hand[w].phase = "run"
     /\ \/ MayRetry(c) /\ PutBack(Retried(c)) /\ UNCHANGED answered
        \/ ~MayRetry(c) /\ answered' = answered \cup {c.job} /\ UNCHANGED redis
     /\ Holding(w, EmptyHand)
     /\ UNCHANGED <<added, faults>>

-----------------------------------------------------------------------------
(* Faults *)

Fault == faults < MaxFaults /\ faults' = faults + 1

\* A worker process dies, with all it holds in memory.
Crash(w) ==
  /\ Fault
  /\ hand[w].phase # "idle"
  /\ Holding(w, EmptyHand)
  /\ UNCHANGED <<redis, added, answered>>

\* redis-cli fails: the command may have taken effect or not, the exception
\* ends the round, and the loop starts over with nothing in hand.
CommandFails(w) ==
  /\ Fault
  /\ \/ /\ hand[w].phase = "sweep"
        /\ \/ UNCHANGED redis
           \/ \E c \in hand[w].due :
                delayed' = delayed \ {c} /\ ripe' = ripe \ {c} /\ UNCHANGED wait
           \/ /\ hand[w].due = {} /\ wait # <<>>
              /\ wait' = Popped /\ UNCHANGED <<delayed, ripe>>
     \/ /\ hand[w].phase = "move"
        /\ Push(hand[w].copy) /\ UNCHANGED <<delayed, ripe>>
     \/ /\ hand[w].phase = "run" /\ MayRetry(hand[w].copy)
        /\ PutBack(Retried(hand[w].copy))
  /\ Holding(w, EmptyHand)
  /\ UNCHANGED <<added, answered>>

WorkerStep(w) ==
  ReadDue(w) \/ RemoveDue(w) \/ PushDue(w) \/ Pop(w) \/ Finish(w) \/ Fail(w)

Next ==
  \/ \E j \in Jobs : Add(j)
  \/ \E c \in Copies : Ripen(c)
  \/ \E w \in Workers : WorkerStep(w) \/ Crash(w) \/ CommandFails(w)

Spec == Init /\ [][Next]_vars

\* Time passes, and a worker process that is up runs its loop.
Fairness == /\ \A w \in Workers : WF_vars(WorkerStep(w))
            /\ \A c \in Copies : WF_vars(Ripen(c))

FairSpec == Spec /\ Fairness

-----------------------------------------------------------------------------
(* Properties *)

\* The list, the sorted set and the workers' hands hold stored jobs, and a
\* worker that moves or runs a job has one in hand.
TypeOK ==
  /\ wait \in Seq(Copies)
  /\ ripe \subseteq delayed /\ delayed \subseteq Copies
  /\ hand \in [Workers -> Hand]
  /\ \A w \in Workers : hand[w].phase \in {"move", "run"} => hand[w].copy \in Copies
  /\ added \subseteq Jobs /\ answered \subseteq Jobs
  /\ faults \in Nat

\* Every copy of a job, wherever it is.
Everywhere == {wait[k] : k \in 1 .. Len(wait)} \cup delayed
              \cup (UNION {hand[w].due : w \in Workers})
              \cup ({hand[w].copy : w \in Workers} \ {NoCopy})

\* No processor is called beyond the job's attempts, and no job is stored that
\* would be, however often workers duplicate it.
AttemptsRespected == \A c \in Everywhere : c.made < AttemptsOf(c.job)

\* Without a fault every job that is not answered is somewhere: no interleaving
\* of the workers' sweeps, pops and retries loses one.
NothingLost == faults = 0 => \A j \in added \ answered : \E c \in Everywhere : c.job = j

\* The queue as its users see it.
Status(j) == IF j \in answered THEN "answered"
             ELSE IF j \notin added THEN "new"
             ELSE IF \E c \in Everywhere : c.job = j THEN "live"
             ELSE "lost"

Delivery == INSTANCE JobDelivery WITH status <- [j \in Jobs |-> Status(j)]

\* At-least-once delivery: n faults lose at most n jobs, and all others are
\* answered in the end.
Delivered == Delivery!Spec
=============================================================================
