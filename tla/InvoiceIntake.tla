---------------------------- MODULE InvoiceIntake ----------------------------
(***************************************************************************)
(* The way of a file from Telegram to an invoice ready to be mapped: the   *)
(* gateway and the parsing workers, composed over the job queue (inbox).   *)
(***************************************************************************)
EXTENDS Gateway

CONSTANTS Workers, Readings, NoJob
VARIABLES invoices, mapped, hand

parsing == <<invoices, mapped, hand>>
Parsing == INSTANCE InvoiceParsing

ASSUME IntakeAssumption == NoJob \notin FileJobs

IntakeInit == Init /\ Parsing!Init

IntakeNext ==
  \/ Next /\ UNCHANGED parsing
  \/ Parsing!Next
     /\ UNCHANGED <<member, used, events, cache, req, left, accepted, issued>>

IntakeSpec == IntakeInit /\ [][IntakeNext]_<<vars, parsing>>

-----------------------------------------------------------------------------
(* Properties *)

\* The tables, the requests, the queue and the workers' memory keep their types.
IntakeTypeOK == TypeOK /\ Parsing!TypeOK

\* MAP_RESOLVE is enqueued at most once for a photographed invoice.
PhotoMappedOnce == Parsing!PhotoMappedOnce

\* MAP_RESOLVE is enqueued only for an invoice that is committed.
MappedIsStored == Parsing!MappedIsStored

Quiet ==
  /\ \A r \in Requests : At(r, "idle")
  /\ \A w \in Workers : hand[w].phase = "idle"
  /\ \A j \in FileJobs : inbox[j] = 0

\* The invoices stored for an update
StoredFor(u) == {f \in Parsing!Fingerprints : u \in invoices[f]}

\* Every invoice of a message beyond the first is paid for by a fault: neither
\* redeliveries nor races of replicas and workers store a file twice.
InvoicesCostFaults == \A u \in Updates : Cardinality(StoredFor(u)) <= 1 + faults

\* When the work is done, an invoice that nobody is asked to map was left behind
\* by a fault.
UnmappedCostFaults ==
  Quiet => Cardinality({f \in Parsing!Fingerprints : Parsing!Stored(f) /\ mapped[f] = 0}) <= faults

\* When the work is done without a fault, a message answered with 200 has become
\* an invoice of the sender's shop, ready to be mapped.  (One of the messages, if
\* several chats of the shop have used its number: the key has no chat in it.)
AcceptedBecomesInvoice ==
  Quiet /\ faults = 0 => \A k \in accepted :
    LET bearers == {u \in Updates : u.message_id = k[2]}
    IN bearers \subseteq {u \in Updates : u.kind \in Files} =>
         \E u \in bearers, f \in Parsing!Fingerprints :
           /\ f.tenant = k[1] /\ f.kind = u.kind /\ f.paper = u.about
           /\ Parsing!Stored(f) /\ mapped[f] > 0

\* "Every state mutation has an idempotency key; replays are safe"
\* (ARCHITECTURE_V2.md:61): one file sent once is one invoice, however
\* often its job is retried.
OneInvoicePerFile == \A u \in Updates : Cardinality(StoredFor(u)) <= 1
=============================================================================
