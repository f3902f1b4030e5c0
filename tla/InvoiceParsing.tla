---------------------------- MODULE InvoiceParsing ----------------------------
(***************************************************************************)
(* PROCESS_IMAGE_INVOICE and PROCESS_EXCEL_INVOICE: a worker downloads the *)
(* file, reads it, stores the invoice under its fingerprint, tells the     *)
(* user and enqueues MAP_RESOLVE.                                          *)
(*                                                                         *)
(* The fingerprint depends on what was read: a vision model can read one   *)
(* photo in two ways, and an Excel file gets an invoice number made from   *)
(* the clock.  "reading" stands for either.                                *)
(* OCR is taken to be switched on, the employee to have items he may       *)
(* process, and the user to have a chat.                                   *)
(***************************************************************************)
EXTENDS TelegramUpdates

CONSTANTS
  Workers,
  Readings,    \* what the vision model, or the clock, can make of a file
  NoJob,
  MaxFaults    \* bound: calls that fail or are not answered, and crashes

\* A photo is told about before it is mapped, an Excel file after.
Phases == {"idle", "look", "store", "repeated", "tell", "map"}

Fingerprint(j, reading) ==
  [tenant |-> j.tenant, kind |-> j.update.kind, paper |-> j.update.about, reading |-> reading]
Fingerprints == {Fingerprint(j, x) : j \in FileJobs, x \in Readings}
NoPrint == NoJob

VARIABLES
  inbox,     \* the waiting jobs for files, a bag
  invoices,  \* canonical_invoices: the update each fingerprint was stored for
  mapped,    \* MAP_RESOLVE jobs enqueued for each invoice
  hand,      \* what each worker is doing
  faults

Hand == [phase : Phases, job : FileJobs \cup {NoJob}, fp : Fingerprints \cup {NoPrint}]
Free == [phase |-> "idle", job |-> NoJob, fp |-> NoPrint]

Init ==
  /\ invoices = [f \in Fingerprints |-> {}]
  /\ mapped = [f \in Fingerprints |-> 0]
  /\ hand = [w \in Workers |-> Free]

At(w, phase) == hand[w].phase = phase
Kind(w) == hand[w].job.update.kind
To(w, phase) == hand' = [hand EXCEPT ![w].phase = phase]
Done(w) == hand' = [hand EXCEPT ![w] = Free]
Stored(f) == invoices[f] # {}

-----------------------------------------------------------------------------
\* Mutant of Popped: an empty answer of the queue is taken for a job.
PoppedNothing(j) == inbox' = [inbox EXCEPT ![j] = @ - 1]
Popped(j) == inbox[j] > 0 /\ inbox' = [inbox EXCEPT ![j] = @ - 1]

\* Download and reading: the fingerprint of this attempt.
Take(w) ==
  \E j \in FileJobs, x \in Readings :
    /\ At(w, "idle") /\ Popped(j)
    /\ hand' = [hand EXCEPT ![w] = [phase |-> IF j.update.kind = "excel" THEN "look" ELSE "store",
                                    job |-> j, fp |-> Fingerprint(j, x)]]
    /\ UNCHANGED <<invoices, mapped, faults>>

\* Mutant of LookUp: any answer of the query counts as an id.
FoundAnyway(w) ==
  /\ At(w, "look")
  /\ To(w, "map")
  /\ UNCHANGED <<inbox, invoices, mapped, faults>>

\* Excel only: SELECT of an invoice with this fingerprint, which is mapped again.
LookUp(w) ==
  /\ At(w, "look")
  /\ To(w, IF Stored(hand[w].fp) THEN "map" ELSE "store")
  /\ UNCHANGED <<inbox, invoices, mapped, faults>>

\* INSERT ... ON CONFLICT DO NOTHING and COMMIT
Write(w) == invoices' = [invoices EXCEPT ![hand[w].fp] = IF @ = {} THEN {hand[w].job.update} ELSE @]

\* Mutant of AfterWrite: a conflict is not told from an insert.
AlwaysNew(w) == IF Kind(w) = "photo" THEN "tell" ELSE "map"
\* A photo that lost the conflict is a duplicate; an Excel file skips MAP_RESOLVE.
AfterWrite(w) ==
  CASE Kind(w) = "photo" -> IF Stored(hand[w].fp) THEN "repeated" ELSE "tell"
    [] Kind(w) = "excel" -> IF Stored(hand[w].fp) THEN "tell" ELSE "map"

Store(w) ==
  /\ At(w, "store")
  /\ Write(w)
  /\ To(w, AfterWrite(w))
  /\ UNCHANGED <<inbox, mapped, faults>>

\* Mutant of Tell: a photo is done when its user has been told.
TellAndStop(w) ==
  /\ At(w, "tell") \/ At(w, "repeated")
  /\ Done(w)
  /\ UNCHANGED <<inbox, invoices, mapped, faults>>

\* NOTIFY_USER; a duplicate photo ends here, and so does an Excel file.
Tell(w) ==
  /\ At(w, "tell") \/ At(w, "repeated")
  /\ IF At(w, "tell") /\ Kind(w) = "photo" THEN To(w, "map") ELSE Done(w)
  /\ UNCHANGED <<inbox, invoices, mapped, faults>>

EnqueueMap(w) == mapped' = [mapped EXCEPT ![hand[w].fp] = @ + 1]

\* MAP_RESOLVE
Map(w) ==
  /\ At(w, "map")
  /\ EnqueueMap(w)
  /\ IF Kind(w) = "photo" THEN Done(w) ELSE To(w, "tell")
  /\ UNCHANGED <<inbox, invoices, faults>>

-----------------------------------------------------------------------------
Retry(w) ==
  LET j == hand[w].job
  IN IF j.made + 1 < Attempts
     THEN inbox' = [inbox EXCEPT ![FileJob(j.update, j.tenant, j.made + 1)] = @ + 1]
     ELSE UNCHANGED inbox

\* The download or a call fails, or its answer does not come: the processor throws
\* and the job is retried.  What was asked for has happened or has not.
Throw(w) ==
  /\ ~At(w, "idle")
  /\ faults < MaxFaults /\ faults' = faults + 1
  /\ \/ UNCHANGED <<invoices, mapped>>
     \/ At(w, "store") /\ Write(w) /\ UNCHANGED mapped
     \/ At(w, "map") /\ EnqueueMap(w) /\ UNCHANGED invoices
  /\ Retry(w)
  /\ Done(w)

\* The process dies with its job.
Crash(w) ==
  /\ ~At(w, "idle")
  /\ faults < MaxFaults /\ faults' = faults + 1
  /\ Done(w)
  /\ UNCHANGED <<inbox, invoices, mapped>>

Next == \E w \in Workers :
          Take(w) \/ LookUp(w) \/ Store(w) \/ Tell(w) \/ Map(w) \/ Throw(w) \/ Crash(w)

-----------------------------------------------------------------------------
(* Properties *)

\* The invoices, the jobs enqueued and what the workers hold keep their types.
TypeOK ==
  /\ invoices \in [Fingerprints -> SUBSET Updates]
  /\ mapped \in [Fingerprints -> Nat]
  /\ hand \in [Workers -> Hand]

\* MAP_RESOLVE is enqueued once for a photographed invoice, although several
\* photos, attempts and workers can come to the same fingerprint.
PhotoMappedOnce == \A f \in Fingerprints : f.kind = "photo" => mapped[f] <= 1

\* The mapping is never asked for before the invoice it reads is committed.
MappedIsStored == \A f \in Fingerprints : mapped[f] > 0 => Stored(f)
=============================================================================
