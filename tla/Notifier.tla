------------------------------ MODULE Notifier ------------------------------
(***************************************************************************)
(* What becomes of a notification for one user: sent to Telegram, put off  *)
(* in pending_notifications, sent from there by a flush, refused for good, *)
(* or given up.                                                            *)
(*                                                                         *)
(* A tenant transaction of the notifier (db-session.ts) is a BEGIN and a   *)
(* COMMIT among statements.  A flush opens one, and the notification it    *)
(* sends another inside of it: PostgreSQL ignores the second BEGIN, and    *)
(* the first COMMIT or ROLLBACK ends both, with the tenant they set.       *)
(***************************************************************************)
EXTENDS Integers, Sequences, FiniteSets

CONSTANTS
    Workers,      \* worker processes, each runs one job at a time
    Operators,    \* people who run the replay script
    MaxPending,   \* WORKER_MAX_PENDING_PER_USER
    MaxAttempts,  \* attempts of a job in the queue
    Cases         \* the bounds of each scenario, see CaseOf

(* What bounds a scenario: notifications and flushes enqueued, faults, how *)
(* often the limiters refuse, whether rows expire, and whether the         *)
(* interaction window is enforced.                                         *)
CaseOf == [notes : Nat, flushes : Nat, faults : Nat, denials : Nat, ages : BOOLEAN, window : BOOLEAN]

Types == {"coalesced", "plain"}

VARIABLES
    case,     \* the scenario
    rows,     \* pending_notifications in the order of created_at
    job,      \* worker -> the job it runs
    queued,   \* attempts of the jobs that wait in the queue
    sends,    \* notification -> how often its own job brought it to Telegram
    lost,     \* notification -> failures met after Telegram took it
    refused,  \* rows that Telegram refused for good and that are dealt with
    letters,  \* dead letters in the jobs table
    reading   \* operator -> the dead letter about to be replayed

notifierVars == <<case, rows, job, queued, sends, lost, refused, letters, reading>>

NoJob == [kind |-> "none"]
Notes == DOMAIN sends

NotifierInit ==
    /\ case \in Cases
    /\ rows = <<>>
    /\ job = [w \in Workers |-> NoJob]
    /\ queued = {} /\ refused = {} /\ letters = <<>>
    /\ sends = <<>> /\ lost = <<>>
    /\ reading = [o \in Operators |-> 0]

At(w, phase) == job[w].kind # "none" /\ job[w].phase = phase
Go(w, phase) == job' = [job EXCEPT ![w].phase = phase]
Leave(w) == job' = [job EXCEPT ![w] = NoJob]

(* The jobs a business step enqueues: a notification, to a user the        *)
(* program knows or not, and a flush.                                      *)
Notify(type, known) ==
    /\ Len(sends) < case.notes
    /\ sends' = Append(sends, 0) /\ lost' = Append(lost, 0)
    /\ queued' = queued \union {[kind |-> "notify", note |-> Len(sends) + 1, type |-> type, known |-> known, attempt |-> 0]}
    /\ UNCHANGED <<case, rows, job, refused, letters, reading>>

Flush ==
    /\ case.flushes > 0
    /\ case' = [case EXCEPT !.flushes = @ - 1]
    /\ queued' = queued \union {[kind |-> "flush", note |-> case.flushes, type |-> "none", known |-> TRUE, attempt |-> 0]}
    /\ UNCHANGED <<rows, job, sends, lost, refused, letters, reading>>

Popped(j) == [kind |-> j.kind, note |-> j.note, type |-> j.type, known |-> j.known, attempt |-> j.attempt,
              phase |-> "popped", row |-> 0, id |-> 0, seen |-> {}, gone |-> {}]

Pop(w, j) ==
    /\ job[w] = NoJob
    /\ queued' = queued \ {j}
    /\ job' = [job EXCEPT ![w] = Popped(j)]
    /\ UNCHANGED <<case, rows, sends, lost, refused, letters, reading>>

(* The job throws.  The queue tries it again; after the last attempt a     *)
(* retriable error should become a dead letter, but that INSERT has no     *)
(* tenant and the row is refused, and a flush has none at all.             *)
Thrown(w) ==
    /\ Leave(w)
    /\ queued' = IF job[w].attempt + 1 < MaxAttempts
                 THEN queued \union {[kind |-> job[w].kind, note |-> job[w].note, type |-> job[w].type,
                                      known |-> job[w].known, attempt |-> job[w].attempt + 1]}
                 ELSE queued

(* canSendNow sends five statements as one: the pool answers with a list   *)
(* of results, and reading it throws.                                      *)
WindowCheck(w) ==
    /\ At(w, "popped") /\ job[w].kind = "notify" /\ case.window /\ job[w].known
    /\ Thrown(w)
    /\ UNCHANGED <<case, rows, sends, lost, refused, letters, reading>>

----------------------------------------------------------------------------
(* Row locks, from the statement that takes them to the end of the         *)
(* transaction.                                                            *)

Pending == {i \in DOMAIN rows : rows[i].status = "pending"}
Held(w) == IF job[w].kind = "none" THEN {} ELSE job[w].gone \union {job[w].row}
FreeFor(w, some) == \A v \in Workers \ {w} : some \intersect Held(v) = {}
InTransaction(w) == job[w].id # 0

(* BEGIN: now(), which created_at takes, is of this moment.                *)
BeginAs(w, phase, row) ==
    /\ rows' = Append(rows, [status |-> "none", type |-> job[w].type, old |-> FALSE, note |-> job[w].note])
    /\ job' = [job EXCEPT ![w].phase = phase, ![w].row = row, ![w].id = Len(rows) + 1]

Oldest(some) == {i \in some : \A k \in some : i <= k}

(* A flush begins: it takes the oldest pending row that is not locked.     *)
(* queryMany keeps the first of the rows only.                             *)
BeginFlush(w) ==
    LET free == {i \in Pending : ~rows[i].old /\ FreeFor(w, {i})} IN
    /\ At(w, "popped") /\ job[w].kind = "flush"
    /\ IF free = {} THEN BeginAs(w, "flushed", 0)
       ELSE \E i \in Oldest(free) : BeginAs(w, "asking", i)
    /\ UNCHANGED <<case, queued, sends, lost, refused, letters, reading>>

Expired(i) == [rows[i] EXCEPT !.status = IF i \in Pending /\ rows[i].old THEN "expired" ELSE @]

(* The outer transaction of a flush commits with what has expired.         *)
EndFlush(w) ==
    /\ At(w, "flushed")
    /\ FreeFor(w, {i \in Pending : rows[i].old})
    /\ rows' = [i \in DOMAIN rows |-> Expired(i)]
    /\ Leave(w)
    /\ UNCHANGED <<case, queued, sends, lost, refused, letters, reading>>

(* The flush limiter refuses: the loop ends.                               *)
FlushLimited(w) ==
    /\ At(w, "asking") /\ job[w].kind = "flush" /\ case.denials > 0
    /\ case' = [case EXCEPT !.denials = @ - 1]
    /\ Go(w, "flushed")
    /\ UNCHANGED <<rows, queued, sends, lost, refused, letters, reading>>

(* The outbound limiter lets it pass, ...                                  *)
Allowed(w) ==
    /\ \/ At(w, "asking")
       \/ At(w, "popped") /\ job[w].kind = "notify" /\ ~(case.window /\ job[w].known)
    /\ Go(w, "sending")
    /\ UNCHANGED <<case, rows, queued, sends, lost, refused, letters, reading>>

(* Mutant of Denied: puts off and goes on to send.                         *)
DeniedAndSent(w) ==
    /\ At(w, "popped") /\ job[w].kind = "notify" /\ case.denials > 0
    /\ case' = [case EXCEPT !.denials = @ - 1]
    /\ rows' = Append(rows, [status |-> "pending", type |-> job[w].type, old |-> FALSE, note |-> job[w].note])
    /\ Go(w, "sending")
    /\ UNCHANGED <<queued, sends, lost, refused, letters, reading>>

(* ... or not: then a user the program knows is told later.                *)
Denied(w) ==
    /\ \/ At(w, "asking")
       \/ At(w, "popped") /\ job[w].kind = "notify" /\ ~(case.window /\ job[w].known)
    /\ case.denials > 0
    /\ case' = [case EXCEPT !.denials = @ - 1]
    /\ IF ~job[w].known THEN Thrown(w) /\ UNCHANGED rows
       ELSE /\ IF InTransaction(w)
               THEN /\ Go(w, "deferring")
                    /\ rows' = [rows EXCEPT ![job[w].id].type = rows[job[w].row].type, ![job[w].id].note = rows[job[w].row].note]
               ELSE BeginAs(w, "deferring", 0)
            /\ UNCHANGED queued
    /\ UNCHANGED <<sends, lost, refused, letters, reading>>

----------------------------------------------------------------------------
(* deferNotification: five statements in one transaction.  A DELETE sees   *)
(* what is committed when it begins, then waits for the locks.             *)

Own(w) == job[w].id

(* A coalesced notification replaces those of its type.                    *)
ScanCoalesced(w) ==
    /\ At(w, "deferring")
    /\ job' = [job EXCEPT ![w].phase = "coalescing",
                          ![w].seen = IF rows[Own(w)].type = "coalesced"
                                      THEN {i \in Pending : rows[i].type = "coalesced"} ELSE {}]
    /\ UNCHANGED <<case, rows, queued, sends, lost, refused, letters, reading>>

DeleteCoalesced(w) ==
    /\ At(w, "coalescing") /\ FreeFor(w, job[w].seen)
    /\ job' = [job EXCEPT ![w].phase = "inserted", ![w].gone = job[w].seen \intersect Pending, ![w].seen = {}]
    /\ UNCHANGED <<case, rows, queued, sends, lost, refused, letters, reading>>

NewerThan(i, some) == Cardinality({k \in some : k > i})

(* Mutant of Surplus: keeps the oldest instead of the newest.              *)
SurplusNewest(w) ==
    LET some == (Pending \ job[w].gone) \union {Own(w)} IN
    {i \in some : Cardinality({k \in some : k < i}) >= MaxPending}

(* ORDER BY created_at DESC OFFSET maxPending, the new row included.       *)
Surplus(w) ==
    LET some == (Pending \ job[w].gone) \union {Own(w)} IN
    {i \in some : NewerThan(i, some) >= MaxPending}

ScanSurplus(w) ==
    /\ At(w, "inserted")
    /\ job' = [job EXCEPT ![w].phase = "trimming", ![w].seen = Surplus(w)]
    /\ UNCHANGED <<case, rows, queued, sends, lost, refused, letters, reading>>

(* The surplus goes, what is too old expires, and the transaction commits, *)
(* that of a flush around it included.                                     *)
CommitDeferral(w) ==
    LET gone == job[w].gone \union (job[w].seen \intersect (Pending \union {Own(w)})) IN
    /\ At(w, "trimming")
    /\ FreeFor(w, job[w].seen \union {i \in Pending : rows[i].old})
    /\ rows' = [i \in DOMAIN rows |->
          IF i \in gone THEN [rows[i] EXCEPT !.status = "deleted"]
          ELSE IF i = Own(w) THEN [rows[i] EXCEPT !.status = "pending"]
          ELSE Expired(i)]
    /\ Leave(w)
    /\ UNCHANGED <<case, queued, sends, lost, refused, letters, reading>>

----------------------------------------------------------------------------
(* sendNotification, from the call to Telegram on.                         *)

Answers == {"ok", "not ok", "429", "4xx", "5xx", "timeout", "no connection"}

(* TelegramSendError: an answer 200 that says "not ok" is final, as is any *)
(* status but 429 and 5xx.                                                 *)
KindOf(answer) ==
    IF answer = "ok" THEN "TAKEN"
    ELSE IF answer \in {"not ok", "4xx"} THEN "TERMINAL" ELSE "RETRIABLE"

(* A message that a notification, not a flush, brought to Telegram.        *)
Counted(w, count) == IF job[w].kind = "notify" THEN [count EXCEPT ![job[w].note] = @ + 1] ELSE count

(* Telegram takes the message and the transaction commits.  A flush has    *)
(* lost its tenant with that COMMIT: the UPDATE to 'flushed' finds no row. *)
Sent(w) ==
    /\ At(w, "sending")
    /\ sends' = Counted(w, sends)
    /\ rows' = IF job[w].kind = "flush" THEN [i \in DOMAIN rows |-> Expired(i)] ELSE rows
    /\ Leave(w)
    /\ UNCHANGED <<case, queued, lost, refused, letters, reading>>

Fault == case.faults > 0 /\ case' = [case EXCEPT !.faults = @ - 1]

(* Telegram takes the message, but its answer does not come (retriable) or *)
(* the COMMIT fails (any other error): either way the job throws.          *)
SentUnheard(w) ==
    /\ At(w, "sending") /\ Fault
    /\ sends' = Counted(w, sends)
    /\ lost' = Counted(w, lost)
    /\ Thrown(w)
    /\ UNCHANGED <<rows, refused, letters, reading>>

(* A retriable answer, before anything was taken.                          *)
NotTaken(w, answer) ==
    /\ At(w, "sending") /\ KindOf(answer) = "RETRIABLE" /\ Fault
    /\ Thrown(w)
    /\ UNCHANGED <<rows, sends, lost, refused, letters, reading>>

(* A terminal answer: the transaction is rolled back, and its locks go.    *)
Refused(w, answer) ==
    /\ At(w, "sending") /\ KindOf(answer) = "TERMINAL"
    /\ job' = [job EXCEPT ![w].phase = "refused", ![w].gone = {}, ![w].id = 0]
    /\ UNCHANGED <<case, rows, queued, sends, lost, refused, letters, reading>>

(* markTerminalFailure, in a transaction of its own: the row is closed, if *)
(* it was a pending one and nobody closed it first.                        *)
MarkTerminal(w) ==
    LET i == job[w].row IN
    /\ At(w, "refused") /\ FreeFor(w, {i} \ {0})
    /\ rows' = IF i \in Pending THEN [rows EXCEPT ![i].status = "failed_terminal"] ELSE rows
    /\ refused' = refused \union ({job[w].row} \ {0})
    /\ IF job[w].known THEN Go(w, "recording") ELSE Leave(w)
    /\ UNCHANGED <<case, queued, sends, lost, letters, reading>>

(* persistJobStatus: the dead letter.                                      *)
RecordLetter(w) ==
    /\ At(w, "recording")
    /\ letters' = Append(letters, [status |-> "dead_letter", replays |-> 0])
    /\ Leave(w)
    /\ UNCHANGED <<case, rows, queued, sends, lost, refused, reading>>

----------------------------------------------------------------------------
(* Faults, time, and the operators' replay of dead letters.                *)

(* The process dies: its job is gone, its transaction rolled back.         *)
Crash(w) ==
    /\ job[w].kind # "none" /\ Fault
    /\ Leave(w)
    /\ UNCHANGED <<rows, queued, sends, lost, refused, letters, reading>>

RowAges(i) ==
    /\ case.ages /\ i \in Pending /\ ~rows[i].old
    /\ rows' = [rows EXCEPT ![i].old = TRUE]
    /\ UNCHANGED <<case, job, queued, sends, lost, refused, letters, reading>>

(* dlq_replay reads the row and enqueues its payload.  The payload lacks   *)
(* what a job needs, so a worker drops it as soon as it is popped.         *)
Requeue(o, d) ==
    /\ reading[o] = 0 /\ letters[d].status = "dead_letter" /\ letters[d].replays < Cardinality(Operators)
    /\ letters' = [letters EXCEPT ![d].replays = @ + 1]
    /\ reading' = [reading EXCEPT ![o] = d]
    /\ UNCHANGED <<case, rows, job, queued, sends, lost, refused>>

(* Only then is the row marked 'queued'.                                   *)
MarkQueued(o) ==
    /\ reading[o] # 0
    /\ letters' = [letters EXCEPT ![reading[o]].status = "queued"]
    /\ reading' = [reading EXCEPT ![o] = 0]
    /\ UNCHANGED <<case, rows, job, queued, sends, lost, refused>>

NotifierNext ==
    \/ \E type \in Types, known \in BOOLEAN : Notify(type, known)
    \/ Flush
    \/ \E w \in Workers :
          \/ \E j \in queued : Pop(w, j)
          \/ WindowCheck(w) \/ BeginFlush(w) \/ EndFlush(w) \/ FlushLimited(w) \/ Allowed(w) \/ Denied(w)
          \/ ScanCoalesced(w) \/ DeleteCoalesced(w) \/ ScanSurplus(w) \/ CommitDeferral(w)
          \/ Sent(w) \/ SentUnheard(w) \/ MarkTerminal(w) \/ RecordLetter(w)
          \/ \E answer \in Answers : NotTaken(w, answer) \/ Refused(w, answer)
          \/ Crash(w)
    \/ \E i \in DOMAIN rows : RowAges(i)
    \/ \E o \in Operators : MarkQueued(o) \/ \E d \in DOMAIN letters : Requeue(o, d)

(* What must hold.                                                         *)

Committed == {i \in DOMAIN rows : rows[i].status # "none"}
Survives(i) == rows[i].status # "deleted" \/ NewerThan(i, Committed) >= MaxPending

(* However deferrals and flushes interleave, a user has no more pending    *)
(* notifications than allowed and those of transactions that could not see *)
(* each other; what was put off is only dropped for MaxPending newer ones, *)
(* or for another of its coalesced type; and what Telegram refused for     *)
(* good, once that was dealt with, is no longer pending and not tried for  *)
(* ever, although the rollback had given up its lock before.               *)
PendingKept ==
    /\ Cardinality(Pending) <= MaxPending + Cardinality(Workers) - 1
    /\ \A i \in Committed : rows[i].type = "plain" => Survives(i)
    /\ (\E i \in Committed : rows[i].type = "coalesced") =>
          \E i \in Committed : rows[i].type = "coalesced" /\ Survives(i)
    /\ refused \intersect Pending = {}

Deferrals(n) == {i \in Committed : rows[i].note = n}

(* A notification is sent at once or put off, never both and never twice,  *)
(* unless something failed after Telegram had taken it.                    *)
ToldOnce == \A n \in Notes : sends[n] + (IF Deferrals(n) = {} THEN 0 ELSE 1) <= 1 + lost[n]
=============================================================================
