----------------------------- MODULE XmlInvoices -----------------------------
(***************************************************************************)
(* The PROCESS_INBOUND_EVENT job: an XML invoice a shop received is        *)
(* fetched, parsed and stored, once, whatever the queue delivers again and *)
(* whoever sends the same invoice twice.                                   *)
(*                                                                         *)
(* A document is what the parser finds in it; a tag it does not find is    *)
(* Absent, a number it cannot read is Unread.  Names are model values.     *)
(***************************************************************************)
EXTENDS Integers, Sequences, FiniteSets, SequencesExt

CONSTANTS
    Workers,        \* worker processes
    Absent, Unread,
    Attachments,    \* sets of events, as functions from events to what is attached
    MaxItems,       \* items of a document the parser accepts
    MaxDeliveries,  \* bound: deliveries of the job of an event
    MaxFaults       \* bound: fetches, statements and enqueues that fail, and crashes

(* An attachment: its URL, given in file_url or in the payload, what the   *)
(* server answers and the document it serves.                              *)
UrlOf == [scheme : {"https", "http", "ftp"}, port : {"", "443", "8443"}, allowed : BOOLEAN, http : BOOLEAN, private : BOOLEAN]
AnswerOf == [ok : BOOLEAN, redirects : BOOLEAN, type : {"xml", "text/plain", "html", ""}, large : BOOLEAN]

VARIABLES
    events,      \* event -> its attachment, or Absent
    enabled,     \* WORKER_XML_PARSE_ENABLED
    run,         \* worker -> the job it runs
    invoices,    \* canonical_invoices, each with its canonical_invoice_items
    completed,   \* inbound_events whose status is completed
    ledger,      \* rows of jobs: [event, status]
    deliveries,  \* event -> times its job was delivered
    faults

xmlVars == <<events, enabled, run, invoices, completed, ledger, deliveries, faults>>

NoJob == [stage |-> "none"]
NewJob(e) == [stage |-> "taken", event |-> e, file |-> Absent, key |-> Absent, lines |-> {}, existing |-> FALSE]

XmlInit ==
    /\ events \in Attachments /\ enabled \in BOOLEAN
    /\ run = [w \in Workers |-> NoJob]
    /\ invoices = {} /\ completed = {} /\ ledger = {}
    /\ deliveries = [e \in DOMAIN events |-> 0] /\ faults = 0

At(w, stage) == run[w].stage = stage
Go(w, stage) == run' = [run EXCEPT ![w].stage = stage]
Leave(w) == run' = [run EXCEPT ![w] = NoJob]
Event(w) == run[w].event

(* markJob, in a transaction of its own.                                   *)
Mark(w, status) == ledger' = ledger \union {[event |-> Event(w), status |-> status]}

-----------------------------------------------------------------------------
(* validateSafeAttachmentUrl: host is on the allow-list and not private.   *)
SafeUrl(url) ==
    /\ ~url.private /\ url.allowed
    /\ \/ url.scheme = "https" /\ url.port \in {"", "443"}
       \/ url.scheme = "http" /\ url.http

(* fetchUrlSafely: what makes it throw besides the network.                *)
Fetched(file) ==
    /\ SafeUrl(file.url)
    /\ file.answer.ok /\ ~file.answer.redirects /\ ~file.answer.large
    /\ file.answer.type \in {"xml", "text/plain", ""}

Or(value, otherwise) == IF value = Absent THEN otherwise ELSE value

(* parseInvoiceXml: the totals a document leaves out are computed.         *)
LineTotal(item) == Or(item.total, Or(item.qty, 0) * Or(item.price, 0))
Subtotal(doc) == Or(doc.subtotal, FoldLeft(LAMBDA sum, item : sum + LineTotal(item), 0, doc.items))
Total(doc) == Or(doc.total, Subtotal(doc) + Or(doc.tax, 0))

Numbers(doc) == {doc.subtotal, doc.tax, doc.total} \union UNION {{i.qty, i.price, i.total} : i \in ToSet(doc.items)}

Parses(doc) ==
    /\ ~doc.doctype
    /\ doc.number # Absent /\ doc.date # Absent
    /\ Len(doc.items) \in 1..MaxItems
    /\ \A item \in ToSet(doc.items) : item.name # Absent
    /\ Unread \notin Numbers(doc)

(* invoiceFingerprint: everything but the units, subtotal, tax, currency.  *)
Fingerprint(doc) ==
    [number |-> doc.number, date |-> doc.date, supplier |-> doc.supplier, total |-> Total(doc),
     items |-> [i \in DOMAIN doc.items |->
                  LET item == doc.items[i] IN
                  [name |-> item.name, sku |-> item.sku, qty |-> Or(item.qty, 0), price |-> Or(item.price, 0), total |-> LineTotal(item)]]]

LinesOf(doc) == {[no |-> i, name |-> doc.items[i].name, unit |-> doc.items[i].unit] : i \in DOMAIN doc.items}

-----------------------------------------------------------------------------
(* The queue delivers the job, the first time or again.                    *)
Take(w, e) ==
    /\ At(w, "none") /\ deliveries[e] < MaxDeliveries
    /\ deliveries' = [deliveries EXCEPT ![e] = @ + 1]
    /\ run' = [run EXCEPT ![w] = NewJob(e)]
    /\ UNCHANGED <<events, enabled, invoices, completed, ledger, faults>>

Processing(w) ==
    /\ At(w, "taken")
    /\ Mark(w, "processing")
    /\ Go(w, IF enabled THEN "marked" ELSE "skipping")
    /\ UNCHANGED <<events, enabled, invoices, completed, deliveries, faults>>

(* Both the skipped job and the one without a file set the status of their *)
(* event outside a transaction: without a tenant that matches no row.  The *)
(* notification has a template and no type, and is dropped as invalid.     *)
Skip(w) ==
    /\ At(w, "skipping")
    /\ Mark(w, "completed") /\ Leave(w)
    /\ UNCHANGED <<events, enabled, invoices, completed, deliveries, faults>>

ReadEvent(w) ==
    /\ At(w, "marked")
    /\ run' = [run EXCEPT ![w].file = events[Event(w)], ![w].stage = IF events[Event(w)] = Absent THEN "without" ELSE "fetching"]
    /\ UNCHANGED <<events, enabled, invoices, completed, ledger, deliveries, faults>>

NoAttachment(w) ==
    /\ At(w, "without")
    /\ Mark(w, "failed") /\ Leave(w)
    /\ UNCHANGED <<events, enabled, invoices, completed, deliveries, faults>>

FetchAndParse(w) ==
    /\ At(w, "fetching")
    /\ LET file == run[w].file IN
       IF Fetched(file) /\ Parses(file.doc)
       THEN run' = [run EXCEPT ![w].key = Fingerprint(file.doc), ![w].stage = "storing"]
       ELSE Go(w, "caught")
    /\ UNCHANGED <<events, enabled, invoices, completed, ledger, deliveries, faults>>

(* Another transaction that inserted the same fingerprint is waited for.   *)
KeyFree(w) == \A v \in Workers \ {w} : ~(At(v, "inserting") /\ run[v].key = run[w].key)

Stored(key) == {i \in invoices : i.key = key}

(* Mutant of Insert: the row is committed before its lines.                *)
InsertAtOnce(w) ==
    /\ At(w, "storing") /\ KeyFree(w)
    /\ run' = [run EXCEPT ![w].existing = TRUE, ![w].stage = "inserting"]
    /\ invoices' = IF Stored(run[w].key) # {} THEN invoices ELSE invoices \union {[key |-> run[w].key, lines |-> {}]}
    /\ UNCHANGED <<events, enabled, completed, ledger, deliveries, faults>>

(* INSERT ... ON CONFLICT (tenant_id, invoice_fingerprint) DO NOTHING, and *)
(* the SELECT of the row that was there.                                   *)
Insert(w) ==
    /\ At(w, "storing") /\ KeyFree(w)
    /\ run' = [run EXCEPT ![w].existing = Stored(run[w].key) # {}, ![w].stage = "inserting"]
    /\ UNCHANGED <<events, enabled, invoices, completed, ledger, deliveries, faults>>

(* Lines whose number the invoice has are not inserted.                    *)
Added(w, invoice) == {l \in LinesOf(run[w].file.doc) : \A k \in invoice.lines : k.no # l.no}

(* The lines, the status of the event, and the COMMIT.                     *)
Commit(w) ==
    /\ At(w, "inserting")
    /\ LET old == Stored(run[w].key)
           row == IF run[w].existing THEN CHOOSE i \in old : TRUE ELSE [key |-> run[w].key, lines |-> {}]
       IN invoices' = (invoices \ old) \union {[row EXCEPT !.lines = @ \union Added(w, row)]}
    /\ completed' = completed \union {Event(w)}
    /\ Go(w, "stored")
    /\ UNCHANGED <<events, enabled, ledger, deliveries, faults>>

(* The MAP_RESOLVE job names no invoice, and is dropped as invalid.        *)
Complete(w) ==
    /\ At(w, "stored")
    /\ Mark(w, "completed") /\ Leave(w)
    /\ UNCHANGED <<events, enabled, invoices, completed, deliveries, faults>>

(* The catch block, and the throw that makes the queue deliver again.      *)
Caught(w) ==
    /\ At(w, "caught")
    /\ Mark(w, "failed") /\ Leave(w)
    /\ UNCHANGED <<events, enabled, invoices, completed, deliveries, faults>>

(* A statement, a fetch or an enqueue fails: inside the try the job is     *)
(* caught, elsewhere it ends.  A crash ends it anywhere.                   *)
Fault(w) ==
    /\ ~At(w, "none") /\ faults < MaxFaults
    /\ faults' = faults + 1
    /\ \/ run[w].stage \in {"fetching", "storing", "inserting", "stored"} /\ Go(w, "caught")
       \/ Leave(w)
    /\ UNCHANGED <<events, enabled, invoices, completed, ledger, deliveries>>

XmlStep(w) ==
    \/ Processing(w) \/ Skip(w) \/ ReadEvent(w) \/ NoAttachment(w) \/ FetchAndParse(w)
    \/ Insert(w) \/ Commit(w) \/ Complete(w) \/ Caught(w) \/ Fault(w)

XmlNext == \E w \in Workers : XmlStep(w) \/ \E e \in DOMAIN events : Take(w, e)

-----------------------------------------------------------------------------
Has(e) == events[e] # Absent
DocOf(e) == events[e].doc

(* However often a job is delivered, fails or overlaps with the job of the *)
(* same invoice sent again, an invoice is stored once and with exactly the *)
(* lines of one of its files, never a part of them and never a mixture of  *)
(* two; and a job that the ledger calls completed has left its invoice     *)
(* there.                                                                  *)
XmlStoredWhole ==
    /\ \A i, j \in invoices : i.key = j.key => i = j
    /\ \A i \in invoices : \E e \in DOMAIN events : Has(e) /\ Parses(DocOf(e)) /\ Fingerprint(DocOf(e)) = i.key /\ LinesOf(DocOf(e)) = i.lines
    /\ \A row \in ledger : enabled /\ row.status = "completed" =>
            /\ row.event \in completed
            /\ \E i \in invoices : i.key = Fingerprint(DocOf(row.event))
=============================================================================
