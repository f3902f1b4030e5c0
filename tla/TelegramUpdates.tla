---------------------------- MODULE TelegramUpdates ----------------------------
(***************************************************************************)
(* What apps/gateway hands to apps/worker: the Telegram updates, and the   *)
(* jobs that ask for the file of one to be parsed.                         *)
(***************************************************************************)
EXTENDS Integers, FiniteSets

CONSTANTS
  Users, Tenants, Codes,
  Issuer,         \* the tenant of each invite code
  Updates,        \* the Telegram updates that can arrive
  Attempts        \* queue attempts of a job

\* What classifyTelegramMessage and detectInviteIntent tell apart.
Files == {"photo", "excel"}
Kinds == Files \cup {"text", "code"}
MessageIds == {u.message_id : u \in Updates}

\* "about" is the code of an invite, or the paper invoice a file shows.
ASSUME UpdatesAssumption ==
  /\ Issuer \in [Codes -> Tenants]
  /\ \A u \in Updates : /\ u.user \in Users /\ u.kind \in Kinds
                        /\ u.kind = "code" => u.about \in Codes
  /\ Attempts \in Nat \ {0}

\* PROCESS_IMAGE_INVOICE and PROCESS_EXCEL_INVOICE, with attemptsMade
FileJob(u, t, m) == [update |-> u, tenant |-> t, made |-> m]
FileJobs == {FileJob(u, t, m) :
               u \in {x \in Updates : x.kind \in Files}, t \in Tenants, m \in 0 .. Attempts - 1}
=============================================================================
