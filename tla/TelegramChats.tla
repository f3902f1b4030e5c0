---------------------------- MODULE TelegramChats ----------------------------
(***************************************************************************)
(* Polling for Telegram updates, and the answers to what people write.     *)
(* Both pollers keep the next offset in memory only and move it past an    *)
(* update before they handle it; Telegram keeps an update until it is      *)
(* asked for a later one.  telegram-poller.ts answers by itself; the       *)
(* gateway in polling mode stores each message of a linked user once and   *)
(* enqueues CHATBOT_REPLY, which a worker answers with a language model.   *)
(* Questions share no state in the worker: one job at a time is enough.    *)
(***************************************************************************)
EXTENDS Integers, Sequences

CONSTANTS
    Inboxes,      \* scenarios: the mode, the updates in order, the chatbot's settings, the catalogue
    MaxAttempts,  \* attempts of a job
    MaxFaults,    \* bound: calls that fail or whose answer is lost, processes that die at work
    MaxRestarts   \* bound: pollers stopped and started between two updates

VARIABLES
    inbox,
    arrived,   \* the updates that were sent so far
    kept,      \* those Telegram still keeps
    offset,    \* the offset of the next getUpdates; 0 when undefined
    batch,     \* the updates of the last answer, yet to be handled, in order
    handling,  \* the update being handled and where its handler is
    stored,    \* the messages with a row in inbound_events
    queued,    \* waiting CHATBOT_REPLY jobs
    job,       \* the job at work
    told,      \* how often the sender of each update was told what
    spent, restarts

poller == <<offset, batch>>
worker == <<queued, job>>
chats == <<inbox, arrived, kept, poller, handling, stored, worker, told, spent, restarts>>

Idle == [update |-> 0, at |-> "idle"]
Free == [update |-> 0, at |-> "idle", attempt |-> 0, context |-> ""]

\* "wait" is the notice that a file is being read; the others are final.
Finals == {"answer", "groundless", "sorry", "off"}
Messages == Finals \union {"wait"}

Kind(u) == inbox.updates[u]
Gateway == inbox.mode = "gateway"
Spend == spent < MaxFaults /\ spent' = spent + 1
Tell(u, message) == told' = [told EXCEPT ![u][message] = @ + 1]

ChatInit ==
    /\ inbox \in Inboxes
    /\ arrived = 0 /\ kept = {} /\ offset = 0 /\ batch = {} /\ handling = Idle
    /\ stored = {} /\ queued = {} /\ job = Free
    /\ told = [u \in DOMAIN inbox.updates |-> [m \in Messages |-> 0]]
    /\ spent = 0 /\ restarts = 0

-----------------------------------------------------------------------------
(* Telegram and the loops that ask it.                                     *)

Arrive ==
    /\ arrived < Len(inbox.updates)
    /\ arrived' = arrived + 1 /\ kept' = kept \union {arrived + 1}
    /\ UNCHANGED <<inbox, poller, handling, stored, worker, told, spent, restarts>>

Unconfirmed == {u \in kept : u >= offset}
Asking == batch = {} /\ handling = Idle

GetUpdates ==
    /\ Asking
    /\ kept' = Unconfirmed /\ batch' = Unconfirmed
    /\ UNCHANGED <<inbox, arrived, offset, handling, stored, worker, told, spent, restarts>>

(* The call fails, perhaps after Telegram forgot what it confirms.         *)
GetUpdatesFails ==
    /\ Asking /\ Spend
    /\ kept' \in {kept, Unconfirmed}
    /\ UNCHANGED <<inbox, arrived, poller, handling, stored, worker, told, restarts>>

(* Mutant of NextOffset: the update itself is asked for again.             *)
NextOffsetSame(u) == u

NextOffset(u) == u + 1

(* What handleEvent does first for each kind of message.                   *)
FirstStep(kind) == IF kind \in {"sheet", "pathless", "unreadable"} THEN "wait" ELSE "reply"

(* validateTelegramUpdate drops an invalid update; the offset passes it.   *)
Take ==
    /\ handling = Idle
    /\ \E u \in batch :
          /\ \A k \in batch : u <= k
          /\ offset' = NextOffset(u) /\ batch' = batch \ {u}
          /\ handling' = IF Kind(u) = "invalid" THEN Idle
                         ELSE [update |-> u, at |-> IF Gateway THEN "store" ELSE FirstStep(Kind(u))]
    /\ UNCHANGED <<inbox, arrived, kept, stored, worker, told, spent, restarts>>

(* SIGTERM, a deployment: the offset is gone, and the rest of the batch.   *)
Restart ==
    /\ restarts < MaxRestarts /\ handling = Idle
    /\ restarts' = restarts + 1
    /\ offset' = 0 /\ batch' = {}
    /\ UNCHANGED <<inbox, arrived, kept, handling, stored, worker, told, spent>>

Crash ==
    /\ handling # Idle /\ Spend
    /\ offset' = 0 /\ batch' = {} /\ handling' = Idle
    /\ UNCHANGED <<inbox, arrived, kept, stored, worker, told, restarts>>

-----------------------------------------------------------------------------
(* telegram-poller.ts answers: the steps of handleEvent.  What fails while *)
(* a file is dealt with is caught and told; a second failure is swallowed. *)

At(step) == handling.at = step
GoTo(step) == handling' = IF step = "done" THEN Idle ELSE [handling EXCEPT !.at = step]
OfSheet == FirstStep(Kind(handling.update)) = "wait"

Sends == [wait |-> "wait", reply |-> "answer", apologise |-> "sorry", sorry |-> "sorry"]
AfterSend == IF At("wait") THEN "read" ELSE "done"
AfterFailure == IF OfSheet /\ ~At("sorry") THEN "sorry" ELSE "done"

SendMessage ==
    /\ handling.at \in DOMAIN Sends
    /\ Tell(handling.update, Sends[handling.at]) /\ GoTo(AfterSend)
    /\ UNCHANGED <<inbox, arrived, kept, poller, stored, worker, spent, restarts>>

SendMessageFails ==
    /\ handling.at \in DOMAIN Sends /\ Spend
    /\ Tell(handling.update, Sends[handling.at]) \/ told' = told
    /\ GoTo(AfterFailure)
    /\ UNCHANGED <<inbox, arrived, kept, poller, stored, worker, restarts>>

(* getFile, downloadFile and parseExcelInvoice.                            *)
ReadSheet ==
    /\ At("read")
    /\ GoTo(CASE Kind(handling.update) = "sheet" -> "reply"
              [] Kind(handling.update) = "pathless" -> "apologise"
              [] OTHER -> "sorry")
    /\ UNCHANGED <<inbox, arrived, kept, poller, stored, worker, told, spent, restarts>>

ReadSheetFails ==
    /\ At("read") /\ Spend /\ GoTo("sorry")
    /\ UNCHANGED <<inbox, arrived, kept, poller, stored, worker, told, restarts>>

-----------------------------------------------------------------------------
(* The gateway stores the message and enqueues its job.  A message with a  *)
(* row, or in the replay cache of a process that lives on, is dropped.     *)

StoreEvent ==
    /\ At("store")
    /\ IF handling.update \in stored THEN GoTo("done") ELSE GoTo("enqueue")
    /\ stored' = stored \union {handling.update}
    /\ UNCHANGED <<inbox, arrived, kept, poller, worker, told, spent, restarts>>

NewJob(u) == [update |-> u, attempt |-> 1]

EnqueueReply ==
    /\ At("enqueue")
    /\ queued' = queued \union {NewJob(handling.update)} /\ GoTo("done")
    /\ UNCHANGED <<inbox, arrived, kept, poller, stored, job, told, spent, restarts>>

(* An error of the database or the queue: handleTelegramUpdate throws, and *)
(* the loop goes on with the next update.                                  *)
HandlerFails ==
    /\ handling.at \in {"store", "enqueue"} /\ Spend /\ GoTo("done")
    /\ IF At("store")
       THEN stored' \in {stored, stored \union {handling.update}} /\ UNCHANGED queued
       ELSE queued' \in {queued, queued \union {NewJob(handling.update)}} /\ UNCHANGED stored
    /\ UNCHANGED <<inbox, arrived, kept, poller, job, told, restarts>>

-----------------------------------------------------------------------------
(* processChatbotReply.                                                    *)

Working(step) == job.at = step
JobTo(step) == job' = [job EXCEPT !.at = step]
Leave == job' = Free

Pop(q) ==
    /\ job = Free /\ q \in queued
    /\ queued' = queued \ {q}
    /\ job' = [update |-> q.update, at |-> "begin", attempt |-> q.attempt, context |-> ""]
    /\ UNCHANGED <<inbox, arrived, kept, poller, handling, stored, told, spent, restarts>>

(* A message without text, a photo of no invoice say, is not answered.     *)
BeginReply ==
    /\ Working("begin")
    /\ IF Kind(job.update) = "other" THEN Leave
       ELSE JobTo(CASE inbox.chatbot = "off" -> "off"
                    [] inbox.chatbot = "keyless" -> "keyless"
                    [] OTHER -> "look")
    /\ UNCHANGED <<inbox, arrived, kept, poller, handling, stored, queued, told, spent, restarts>>

(* Products by the words of the question, else any, else the shop's own,   *)
(* which are invisible outside a tenant transaction.  Errors are caught.   *)
LooksUp(catalogue) ==
    CASE catalogue = "matching" -> "matches" [] catalogue = "other" -> "sample" [] OTHER -> "none"

LookUp ==
    /\ Working("look")
    /\ job' = [job EXCEPT !.at = "ask", !.context = LooksUp(inbox.catalogue)]
    /\ UNCHANGED <<inbox, arrived, kept, poller, handling, stored, queued, told, spent, restarts>>

LookUpFails ==
    /\ Working("look") /\ Spend
    /\ job' \in {[job EXCEPT !.at = "ask", !.context = c] :
                    c \in {"none"} \union (IF inbox.catalogue = "matching" THEN {"sample"} ELSE {})}
    /\ UNCHANGED <<inbox, arrived, kept, poller, handling, stored, queued, told, restarts>>

AskModel ==
    /\ Working("ask") /\ JobTo("answer")
    /\ UNCHANGED <<inbox, arrived, kept, poller, handling, stored, queued, told, spent, restarts>>

(* A status other than 200, an empty answer, or the timeout.               *)
AskModelFails ==
    /\ Working("ask") /\ Spend /\ JobTo("sorry")
    /\ UNCHANGED <<inbox, arrived, kept, poller, handling, stored, queued, told, restarts>>

Notice ==
    CASE Working("answer") -> IF job.context = "none" THEN "groundless" ELSE "answer"
      [] Working("off") -> "off"
      [] OTHER -> "sorry"

(* The queue runs a job that threw again, and forgets it at the last try.  *)
Retry ==
    queued' = IF job.attempt < MaxAttempts
              THEN queued \union {[update |-> job.update, attempt |-> job.attempt + 1]} ELSE queued

Notify ==
    /\ job.at \in {"off", "keyless", "answer"}
    /\ Tell(job.update, Notice) /\ Leave
    /\ UNCHANGED <<inbox, arrived, kept, poller, handling, stored, queued, spent, restarts>>

(* Only the enqueue of an answer is inside the try.                        *)
NotifyFails ==
    /\ job.at \in {"off", "keyless", "answer"} /\ Spend
    /\ Tell(job.update, Notice) \/ told' = told
    /\ IF Working("answer") THEN JobTo("sorry") /\ UNCHANGED queued ELSE Leave /\ Retry
    /\ UNCHANGED <<inbox, arrived, kept, poller, handling, stored, restarts>>

(* The catch block tells the user and throws.                              *)
Apologise ==
    /\ Working("sorry")
    /\ Tell(job.update, "sorry") /\ Leave /\ Retry
    /\ UNCHANGED <<inbox, arrived, kept, poller, handling, stored, spent, restarts>>

ApologyFails ==
    /\ Working("sorry") /\ Spend /\ Leave /\ Retry
    /\ UNCHANGED <<inbox, arrived, kept, poller, handling, stored, told, restarts>>

WorkerDies ==
    /\ job # Free /\ Spend /\ Leave
    /\ UNCHANGED <<inbox, arrived, kept, poller, handling, stored, queued, told, restarts>>

ChatNext ==
    \/ Arrive \/ GetUpdates \/ GetUpdatesFails \/ Take \/ Restart \/ Crash
    \/ SendMessage \/ SendMessageFails \/ ReadSheet \/ ReadSheetFails
    \/ StoreEvent \/ EnqueueReply \/ HandlerFails
    \/ \E q \in queued : Pop(q)
    \/ BeginReply \/ LookUp \/ LookUpFails \/ AskModel \/ AskModelFails
    \/ Notify \/ NotifyFails \/ Apologise \/ ApologyFails \/ WorkerDies

-----------------------------------------------------------------------------
Answers(u) == told[u]["answer"] + told[u]["groundless"] + told[u]["sorry"] + told[u]["off"]
Underway(u) == u = handling.update \/ u = job.update \/ \E q \in queued : q.update = u
Answered(u) == Kind(u) # "invalid" /\ ~(Gateway /\ Kind(u) = "other")
Forgotten(u) == u <= arrived /\ u \notin kept

(* Although the offset is not saved and moves before an update is handled, *)
(* an update Telegram has forgotten was answered or is about to be, unless *)
(* something failed.  Every answer beyond the first costs a failure, and   *)
(* in the poller that stores nothing a restart; and an answer without the  *)
(* shop's products is given only when it has none or a query failed.       *)
AnswersCostFaults ==
    \A u \in DOMAIN inbox.updates :
        /\ Answered(u) /\ Forgotten(u) /\ spent = 0 => Answers(u) > 0 \/ Underway(u)
        /\ Answers(u) <= 1 + 2 * spent + (IF Gateway THEN 0 ELSE restarts)
        /\ told[u]["groundless"] > 0 => inbox.catalogue = "none" \/ spent > 0
=============================================================================
