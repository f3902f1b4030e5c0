-------------------------- MODULE BackOfficeProofs --------------------------
(***************************************************************************)
(* Theorems of services of BackOffice for any number of workers, files,    *)
(* deliveries, faults, turns, conversations and operators.                 *)
(***************************************************************************)
EXTENDS BackOffice, WellFoundedInduction, SequenceTheorems, TLAPS

-----------------------------------------------------------------------------
(* XML invoices.                                                           *)

\* What a worker knows at each stage of a job.
JobOK(r) ==
    /\ "stage" \in DOMAIN r
    /\ r.stage # "none" => {"event", "file", "key", "existing"} \subseteq DOMAIN r /\ r.event \in DOMAIN events
    /\ r.stage = "skipping" => ~enabled
    /\ r.stage \in {"fetching", "storing", "inserting", "stored"} => r.file = events[r.event] /\ r.file # Absent
    /\ r.stage \in {"storing", "inserting", "stored"} => Xml!Parses(r.file.doc) /\ r.key = Xml!Fingerprint(r.file.doc)
    /\ r.stage = "stored" => r.event \in completed /\ \E i \in invoices : i.key = r.key

JobsOK == DOMAIN parsing = Workers /\ \A w \in Workers : JobOK(parsing[w])

\* Who inserts a fingerprint does so alone, and knows whether it is there.
Inserting(w) == parsing[w].stage = "inserting"

InsertsOK ==
    /\ \A v, w \in Workers : Inserting(v) /\ Inserting(w) /\ parsing[v].key = parsing[w].key => v = w
    /\ \A w \in Workers : Inserting(w) => parsing[w].existing = (Xml!Stored(parsing[w].key) # {})

InvoicesOK ==
    /\ \A i, j \in invoices : i.key = j.key => i = j
    /\ \A i \in invoices : i = [key |-> i.key, lines |-> i.lines]
    /\ \A i \in invoices : \E e \in DOMAIN events :
          /\ Xml!Has(e) /\ Xml!Parses(Xml!DocOf(e)) /\ Xml!Fingerprint(Xml!DocOf(e)) = i.key
          /\ Xml!LinesOf(Xml!DocOf(e)) = i.lines

LedgerOK ==
    \A row \in ledger : enabled /\ row.status = "completed" =>
        row.event \in completed /\ \E i \in invoices : i.key = Xml!Fingerprint(Xml!DocOf(row.event))

XmlInv == JobsOK /\ InsertsOK /\ InvoicesOK /\ LedgerOK

\* A job that moves on without inserting.
LEMMA JobMoves ==
  ASSUME XmlInv, NEW w \in Workers, NEW r, parsing' = [parsing EXCEPT ![w] = r], JobOK(r), r.stage # "inserting",
         UNCHANGED <<events, enabled, invoices, completed>>, LedgerOK'
  PROVE  XmlInv'
<1>1. parsing'[w] = r /\ DOMAIN parsing' = Workers /\ \A v \in Workers \ {w} : parsing'[v] = parsing[v]
  BY DEF XmlInv, JobsOK
<1>2. JobsOK'
  BY <1>1 DEF XmlInv, JobsOK, JobOK
<1>3. InsertsOK'
  BY <1>1 DEF XmlInv, InsertsOK, Inserting, Xml!Stored
<1>4. InvoicesOK'
  BY DEF XmlInv, InvoicesOK, Xml!Has, Xml!DocOf
<1> QED
  BY <1>2, <1>3, <1>4 DEF XmlInv

\* A ledger that gets a row.
LEMMA LedgerKept ==
  ASSUME XmlInv, NEW w \in Workers, NEW status, Xml!Mark(w, status),
         UNCHANGED <<events, enabled, invoices, completed>>,
         status = "completed" => ~enabled \/ parsing[w].stage = "stored"
  PROVE  LedgerOK'
<1>1. enabled /\ status = "completed" =>
        /\ parsing[w].event \in completed
        /\ \E i \in invoices : i.key = Xml!Fingerprint(Xml!DocOf(parsing[w].event))
  BY DEF XmlInv, JobsOK, JobOK, Xml!DocOf
<1> DEFINE row == [event |-> parsing[w].event, status |-> status]
<1>2. ledger' = ledger \union {row} /\ row.event = parsing[w].event /\ row.status = status
  BY DEF Xml!Mark, Xml!Event
<1> HIDE DEF row
<1> QED
  BY <1>1, <1>2 DEF XmlInv, LedgerOK, Xml!DocOf

LEMMA LedgerStays ==
  ASSUME XmlInv, UNCHANGED <<events, enabled, invoices, completed, ledger>>
  PROVE  LedgerOK'
BY DEF XmlInv, LedgerOK, Xml!DocOf

\* A job that ends, or goes to a stage that promises nothing.
LEMMA StageMoves ==
  ASSUME XmlInv, NEW w \in Workers, parsing[w].stage # "none",
         NEW to \in {"marked", "skipping", "without", "caught"}, to = "skipping" => ~enabled
  PROVE  /\ JobOK([parsing[w] EXCEPT !.stage = to])
         /\ [parsing[w] EXCEPT !.stage = to].stage = to
         /\ JobOK(Xml!NoJob) /\ Xml!NoJob.stage = "none"
BY DEF XmlInv, JobsOK, JobOK, Xml!NoJob

LEMMA EndMoves ==
  ASSUME XmlInv, NEW w \in Workers, parsing[w].stage # "none",
         Xml!Leave(w) \/ (\E to \in {"marked", "skipping", "caught"} : Xml!Go(w, to) /\ (to = "skipping" => ~enabled)),
         UNCHANGED <<events, enabled, invoices, completed>>, LedgerOK'
  PROVE  XmlInv'
<1>1. CASE Xml!Leave(w)
  BY <1>1, StageMoves, JobMoves DEF Xml!Leave
<1>2. ASSUME NEW to \in {"marked", "skipping", "caught"}, Xml!Go(w, to), to = "skipping" => ~enabled
      PROVE  XmlInv'
  <2> DEFINE r == [parsing[w] EXCEPT !.stage = to]
  <2>1. parsing' = [parsing EXCEPT ![w] = r]
    BY <1>2 DEF Xml!Go
  <2>2. JobOK(r) /\ r.stage = to
    BY <1>2, StageMoves
  <2> HIDE DEF r
  <2> QED
    BY <2>1, <2>2, JobMoves
<1> QED
  BY <1>1, <1>2

LEMMA EasySteps ==
  ASSUME XmlInv, NEW w \in Workers,
         \/ Xml!Processing(w) \/ Xml!Skip(w) \/ Xml!NoAttachment(w) \/ Xml!Complete(w) \/ Xml!Caught(w) \/ Xml!Fault(w)
  PROVE  XmlInv'
<1>1. CASE Xml!Processing(w)
  <2>1. LedgerOK'
    BY <1>1, LedgerKept DEF Xml!Processing
  <2> QED
    BY <1>1, <2>1, EndMoves DEF Xml!Processing, Xml!At
<1>2. CASE Xml!Skip(w)
  <2>1. LedgerOK'
    BY <1>2, LedgerKept DEF Xml!Skip, Xml!At, XmlInv, JobsOK, JobOK
  <2> QED
    BY <1>2, <2>1, EndMoves DEF Xml!Skip, Xml!At
<1>3. CASE Xml!NoAttachment(w)
  <2>1. LedgerOK'
    BY <1>3, LedgerKept DEF Xml!NoAttachment
  <2> QED
    BY <1>3, <2>1, EndMoves DEF Xml!NoAttachment, Xml!At
<1>4. CASE Xml!Complete(w)
  <2>1. LedgerOK'
    BY <1>4, LedgerKept DEF Xml!Complete, Xml!At
  <2> QED
    BY <1>4, <2>1, EndMoves DEF Xml!Complete, Xml!At
<1>5. CASE Xml!Caught(w)
  <2>1. LedgerOK'
    BY <1>5, LedgerKept DEF Xml!Caught
  <2> QED
    BY <1>5, <2>1, EndMoves DEF Xml!Caught, Xml!At
<1>6. CASE Xml!Fault(w)
  <2>1. LedgerOK'
    BY <1>6, LedgerStays DEF Xml!Fault
  <2> QED
    BY <1>6, <2>1, EndMoves DEF Xml!Fault, Xml!At
<1> QED
  BY <1>1, <1>2, <1>3, <1>4, <1>5, <1>6

LEMMA ReadSteps ==
  ASSUME XmlInv, NEW w \in Workers,
         \/ \E e \in DOMAIN events : Xml!Take(w, e)
         \/ Xml!ReadEvent(w) \/ Xml!FetchAndParse(w)
  PROVE  XmlInv'
<1>1. ASSUME NEW e \in DOMAIN events, Xml!Take(w, e) PROVE XmlInv'
  <2>1. JobOK(Xml!NewJob(e)) /\ Xml!NewJob(e).stage = "taken"
    BY DEF JobOK, Xml!NewJob
  <2> QED
    BY <1>1, <2>1, JobMoves, LedgerStays DEF Xml!Take
<1>2. CASE Xml!ReadEvent(w)
  <2> DEFINE to == IF events[parsing[w].event] = Absent THEN "without" ELSE "fetching"
             r == [parsing[w] EXCEPT !.file = events[parsing[w].event], !.stage = to]
  <2>1. /\ parsing' = [parsing EXCEPT ![w] = r] /\ parsing[w].stage = "marked"
        /\ UNCHANGED <<events, enabled, invoices, completed, ledger>>
    BY <1>2 DEF Xml!ReadEvent, Xml!At, Xml!Event
  <2>2. JobOK(r) /\ r.stage # "inserting"
    BY <2>1 DEF XmlInv, JobsOK, JobOK
  <2> HIDE DEF r
  <2> QED
    BY <2>1, <2>2, JobMoves, LedgerStays
<1>3. CASE Xml!FetchAndParse(w)
  <2>1. parsing[w].stage = "fetching" /\ UNCHANGED <<events, enabled, invoices, completed, ledger>> /\ LedgerOK'
    BY <1>3, LedgerStays DEF Xml!FetchAndParse, Xml!At
  <2>2. CASE Xml!Go(w, "caught")
    BY <2>1, <2>2, EndMoves
  <2>3. CASE ~Xml!Go(w, "caught")
    <3> DEFINE r == [parsing[w] EXCEPT !.key = Xml!Fingerprint(parsing[w].file.doc), !.stage = "storing"]
    <3>1. parsing' = [parsing EXCEPT ![w] = r] /\ Xml!Parses(parsing[w].file.doc)
      BY <1>3, <2>3 DEF Xml!FetchAndParse
    <3>2. JobOK(r) /\ r.stage # "inserting"
      BY <2>1, <3>1 DEF XmlInv, JobsOK, JobOK
    <3> HIDE DEF r
    <3> QED
      BY <2>1, <3>1, <3>2, JobMoves
  <2> QED
    BY <2>2, <2>3
<1> QED
  BY <1>1, <1>2, <1>3

LEMMA InsertStep ==
  ASSUME XmlInv, NEW w \in Workers, Xml!Insert(w)
  PROVE  XmlInv'
<1> DEFINE r == [parsing[w] EXCEPT !.existing = (Xml!Stored(parsing[w].key) # {}), !.stage = "inserting"]
<1>1. /\ parsing' = [parsing EXCEPT ![w] = r] /\ parsing[w].stage = "storing"
      /\ \A v \in Workers \ {w} : ~(Inserting(v) /\ parsing[v].key = parsing[w].key)
      /\ UNCHANGED <<events, enabled, invoices, completed, ledger>>
  BY DEF Xml!Insert, Xml!KeyFree, Xml!At, Inserting
<1>2. {"stage", "event", "file", "key", "existing"} \subseteq DOMAIN parsing[w]
  BY <1>1 DEF XmlInv, JobsOK, JobOK
<1>3. /\ r.stage = "inserting" /\ r.existing = (Xml!Stored(parsing[w].key) # {})
      /\ r.key = parsing[w].key /\ r.file = parsing[w].file /\ r.event = parsing[w].event /\ DOMAIN r = DOMAIN parsing[w]
  BY <1>2
<1> HIDE DEF r
<1>4. parsing'[w] = r /\ DOMAIN parsing' = Workers /\ \A v \in Workers \ {w} : parsing'[v] = parsing[v]
  BY <1>1 DEF XmlInv, JobsOK
<1>5. JobsOK'
  BY <1>1, <1>2, <1>3, <1>4 DEF XmlInv, JobsOK, JobOK
<1>6. InsertsOK'
  BY <1>1, <1>3, <1>4 DEF XmlInv, InsertsOK, Inserting, Xml!Stored
<1>7. InvoicesOK'
  BY <1>1 DEF XmlInv, InvoicesOK, Xml!Has, Xml!DocOf
<1> QED
  BY <1>1, <1>5, <1>6, <1>7, LedgerStays DEF XmlInv

\* Documents with one fingerprint have the same line numbers.
LEMMA SameNumbers ==
  ASSUME NEW d, NEW e, Xml!Fingerprint(d) = Xml!Fingerprint(e)
  PROVE  \A l \in Xml!LinesOf(d) : \E k \in Xml!LinesOf(e) : k.no = l.no
<1>1. DOMAIN d.items = DOMAIN e.items
  BY DEF Xml!Fingerprint
<1>2. ASSUME NEW i \in DOMAIN d.items
      PROVE  \E k \in Xml!LinesOf(e) : k.no = i
  <2> DEFINE k == [no |-> i, name |-> e.items[i].name, unit |-> e.items[i].unit]
  <2>1. k \in Xml!LinesOf(e)
    BY <1>1 DEF Xml!LinesOf
  <2>2. k.no = i
    OBVIOUS
  <2> HIDE DEF k
  <2> QED
    BY <2>1, <2>2
<1>3. \A l \in Xml!LinesOf(d) : l.no \in DOMAIN d.items
  BY DEF Xml!LinesOf
<1> QED
  BY <1>2, <1>3

LEMMA CommitStep ==
  ASSUME XmlInv, NEW w \in Workers, Xml!Commit(w)
  PROVE  XmlInv'
<1> DEFINE key == parsing[w].key
           doc == parsing[w].file.doc
           r == [parsing[w] EXCEPT !.stage = "stored"]
<1>1. /\ parsing' = [parsing EXCEPT ![w] = r] /\ parsing[w].stage = "inserting"
      /\ completed' = completed \union {parsing[w].event}
      /\ UNCHANGED <<events, enabled, ledger>>
  BY DEF Xml!Commit, Xml!At, Xml!Go, Xml!Event
<1>2. /\ {"stage", "event", "file", "key", "existing"} \subseteq DOMAIN parsing[w]
      /\ parsing[w].event \in DOMAIN events /\ parsing[w].file = events[parsing[w].event] /\ parsing[w].file # Absent
      /\ Xml!Parses(doc) /\ key = Xml!Fingerprint(doc)
  BY <1>1 DEF XmlInv, JobsOK, JobOK
<1>3. \/ invoices' = invoices /\ \E i \in invoices : i.key = key
      \/ /\ \A i \in invoices : i.key # key
         /\ invoices' = invoices \union {[key |-> key, lines |-> Xml!LinesOf(doc)]}
  <2>1. CASE parsing[w].existing
    <3>1. Xml!Stored(key) # {}
      BY <1>1, <2>1 DEF XmlInv, InsertsOK, Inserting
    <3>2. PICK i \in invoices : i.key = key /\ Xml!Stored(key) = {i}
      BY <3>1 DEF Xml!Stored, XmlInv, InvoicesOK
    <3>3. (CHOOSE j \in Xml!Stored(key) : TRUE) = i
      BY <3>2
    <3>4. Xml!Added(w, i) = {}
      <4>1. PICK e \in DOMAIN events : Xml!Fingerprint(Xml!DocOf(e)) = i.key /\ Xml!LinesOf(Xml!DocOf(e)) = i.lines
        BY DEF XmlInv, InvoicesOK
      <4>2. \A l \in Xml!LinesOf(doc) : \E k \in i.lines : k.no = l.no
        <5> DEFINE other == Xml!DocOf(e)
        <5>1. Xml!Fingerprint(doc) = Xml!Fingerprint(other)
          BY <1>2, <3>2, <4>1
        <5>2. \A l \in Xml!LinesOf(doc) : \E k \in Xml!LinesOf(other) : k.no = l.no
          BY <5>1, SameNumbers
        <5> QED
          BY <4>1, <5>2
      <4> QED
        BY <4>2 DEF Xml!Added
    <3>5. invoices' = (invoices \ {i}) \union {[i EXCEPT !.lines = i.lines \union {}]}
      BY <2>1, <3>2, <3>3, <3>4 DEF Xml!Commit
    <3>6. [i EXCEPT !.lines = i.lines \union {}] = i
      <4>1. i = [key |-> i.key, lines |-> i.lines] /\ i.lines \union {} = i.lines
        BY DEF XmlInv, InvoicesOK
      <4> QED
        BY <4>1
    <3> QED
      BY <3>2, <3>5, <3>6
  <2>2. CASE ~parsing[w].existing
    <3>1. Xml!Stored(key) = {}
      BY <1>1, <2>2 DEF XmlInv, InsertsOK, Inserting
    <3> DEFINE row == [key |-> key, lines |-> {}]
    <3>2. invoices' = (invoices \ {}) \union {[row EXCEPT !.lines = row.lines \union Xml!Added(w, row)]}
      BY <2>2, <3>1 DEF Xml!Commit
    <3>3. Xml!Added(w, row) = Xml!LinesOf(doc)
      BY DEF Xml!Added
    <3>4. [row EXCEPT !.lines = row.lines \union Xml!LinesOf(doc)] = [key |-> key, lines |-> Xml!LinesOf(doc)]
      OBVIOUS
    <3> QED
      BY <3>1, <3>2, <3>3, <3>4 DEF Xml!Stored
  <2> QED
    BY <2>1, <2>2
<1>4. /\ invoices \subseteq invoices' /\ \E i \in invoices' : i.key = key
      /\ \A i \in invoices' : i \in invoices \/ i.key = key
  <2> DEFINE new == [key |-> key, lines |-> Xml!LinesOf(doc)]
  <2>1. new.key = key
    OBVIOUS
  <2>2. (invoices' = invoices /\ \E i \in invoices : i.key = key) \/ invoices' = invoices \union {new}
    BY <1>3
  <2> HIDE DEF new
  <2> QED
    BY <2>1, <2>2
<1>5. /\ r.stage = "stored" /\ r.key = key /\ r.file = parsing[w].file /\ r.event = parsing[w].event
      /\ DOMAIN r = DOMAIN parsing[w]
  BY <1>2
<1> HIDE DEF r
<1>6. parsing'[w] = r /\ DOMAIN parsing' = Workers /\ \A v \in Workers \ {w} : parsing'[v] = parsing[v]
  BY <1>1 DEF XmlInv, JobsOK
<1>7. JobsOK'
  <2>1. ASSUME NEW v \in Workers \ {w} PROVE JobOK(parsing[v])'
    BY <1>1, <1>4, <1>6 DEF XmlInv, JobsOK, JobOK
  <2>2. JobOK(parsing[w])'
    BY <1>1, <1>2, <1>4, <1>5, <1>6 DEF JobOK
  <2> QED
    BY <1>6, <2>1, <2>2 DEF JobsOK
<1>8. InsertsOK'
  <2>1. ASSUME NEW v \in Workers, Inserting(v)' PROVE v # w /\ Inserting(v) /\ parsing'[v] = parsing[v] /\ parsing[v].key # key
    BY <1>1, <1>5, <1>6, <2>1 DEF Inserting, XmlInv, InsertsOK
  <2>2. ASSUME NEW v \in Workers, Inserting(v)' PROVE Xml!Stored(parsing[v].key)' = Xml!Stored(parsing[v].key)
    BY <1>4, <2>1, <2>2 DEF Xml!Stored
  <2> QED
    BY <2>1, <2>2 DEF InsertsOK, XmlInv
<1>9. InvoicesOK'
  <2>1. CASE invoices' = invoices
    BY <1>1, <2>1 DEF XmlInv, InvoicesOK, Xml!Has, Xml!DocOf
  <2>2. CASE /\ \A i \in invoices : i.key # key
             /\ invoices' = invoices \union {[key |-> key, lines |-> Xml!LinesOf(doc)]}
    <3> DEFINE new == [key |-> key, lines |-> Xml!LinesOf(doc)]
    <3>1. new.key = key /\ new.lines = Xml!LinesOf(doc) /\ new = [key |-> new.key, lines |-> new.lines]
      OBVIOUS
    <3>2. invoices' = invoices \union {new}
      BY <2>2
    <3> HIDE DEF new
    <3>3. Xml!Has(parsing[w].event) /\ Xml!DocOf(parsing[w].event) = doc
      BY <1>2 DEF Xml!Has, Xml!DocOf
    <3> QED
      BY <1>1, <1>2, <2>2, <3>1, <3>2, <3>3 DEF XmlInv, InvoicesOK, Xml!Has, Xml!DocOf
  <2> QED
    BY <1>3, <2>1, <2>2
<1>10. LedgerOK'
  BY <1>1, <1>4 DEF XmlInv, LedgerOK, Xml!DocOf
<1> QED
  BY <1>7, <1>8, <1>9, <1>10 DEF XmlInv

LEMMA XmlBegins ==
  ASSUME Xml!XmlInit
  PROVE  XmlInv
<1>1. JobsOK /\ InsertsOK
  BY DEF Xml!XmlInit, Xml!NoJob, JobsOK, JobOK, InsertsOK, Inserting
<1>2. InvoicesOK /\ LedgerOK
  BY DEF Xml!XmlInit, InvoicesOK, LedgerOK
<1> QED
  BY <1>1, <1>2 DEF XmlInv

LEMMA XmlKept ==
  ASSUME XmlInv, Xml!XmlNext
  PROVE  XmlInv'
BY EasySteps, ReadSteps, InsertStep, CommitStep DEF Xml!XmlNext, Xml!XmlStep

LEMMA XmlStays ==
  ASSUME XmlInv, UNCHANGED xml
  PROVE  XmlInv'
<1>1. JobsOK'
  BY DEF xml, XmlInv, JobsOK, JobOK
<1>2. InsertsOK'
  BY DEF xml, XmlInv, InsertsOK, Inserting, Xml!Stored
<1>3. InvoicesOK' /\ LedgerOK'
  BY DEF xml, XmlInv, InvoicesOK, LedgerOK, Xml!Has, Xml!DocOf
<1> QED
  BY <1>1, <1>2, <1>3 DEF XmlInv

\* An XML invoice is stored once and whole, however its jobs are delivered,
\* overlap and fail, and before its job is completed (process-inbound.ts).
THEOREM XmlWhole == BackOfficeSpec => []XmlStoredWhole
<1> DEFINE Inv == part = "xml" => XmlInv
<1>1. BackOfficeInit => Inv
  BY XmlBegins DEF BackOfficeInit
<1>2. Inv /\ [BackOfficeNext]_backOffice => Inv'
  BY XmlKept, XmlStays DEF BackOfficeNext, backOffice, Notifies, Syncs, Parses, Administers, PlansOrders, Talks, Chats
<1>3. Inv => XmlStoredWhole
  BY DEF XmlStoredWhole, Xml!XmlStoredWhole, XmlInv, InvoicesOK, LedgerOK
<1> QED
  BY <1>1, <1>2, <1>3, PTL DEF BackOfficeSpec

-----------------------------------------------------------------------------
(* One yes, one order.                                                     *)

IsSequence(s) == \E S : s \in Seq(S)
Underway == {"begun", "asking", "calling", "called"}

\* A turn keeps the draft that was pending for its conversation when it began.
TurnOK(t) ==
    /\ DOMAIN turn[t] = DOMAIN Voice!Waiting
    /\ turn[t].stage = "new" => turn[t].held = 0
    /\ turn[t].stage \in Underway => turn[t].talk \in DOMAIN talk
    /\ turn[t].held # 0 =>
          /\ turn[t].held \in DOMAIN drafts /\ turn[t].held <= turn[t].before
          /\ drafts[turn[t].held].talk = turn[t].talk
    /\ turn[t].stage = "called" /\ turn[t].calls[1].tool = "create" =>
          turn[t].returned \in DOMAIN drafts /\ drafts[turn[t].returned].talk = turn[t].talk

TalkOK(c) ==
    /\ {"history", "pending"} \subseteq DOMAIN talk[c]
    /\ talk[c].pending # 0 => talk[c].pending \in DOMAIN drafts /\ drafts[talk[c].pending].talk = c

\* Only the draft that a turn held is confirmed by it, and only by a yes.
ConfirmedBy(t, d) == t \in Voice!Turns /\ Voice!IsAffirmative(script.words[t]) /\ d = turn[t].held

DraftOK(d) ==
    /\ {"talk", "status", "by"} \subseteq DOMAIN drafts[d]
    /\ drafts[d].by # 0 => ConfirmedBy(drafts[d].by, d)

VoiceInv ==
    /\ DOMAIN turn = Voice!Turns /\ IsSequence(drafts) /\ IsSequence(talk)
    /\ \A t \in Voice!Turns : TurnOK(t)
    /\ \A c \in DOMAIN talk : TalkOK(c)
    /\ \A d \in DOMAIN drafts : DraftOK(d)

\* Sequences of whatever elements.
LEMMA SequenceFacts ==
  ASSUME NEW s, IsSequence(s)
  PROVE  /\ Len(s) \in Nat /\ DOMAIN s = 1..Len(s)
         /\ \A x : /\ IsSequence(Append(s, x)) /\ Len(Append(s, x)) = Len(s) + 1
                   /\ Append(s, x)[Len(s) + 1] = x
                   /\ \A i \in DOMAIN s : Append(s, x)[i] = s[i]
         /\ \A i \in DOMAIN s : \A x : IsSequence([s EXCEPT ![i] = x])
<1>1. PICK S : s \in Seq(S)
  BY DEF IsSequence
<1>2. Len(s) \in Nat /\ DOMAIN s = 1..Len(s)
  BY <1>1, LenProperties
<1>3. ASSUME NEW x
      PROVE  /\ IsSequence(Append(s, x)) /\ Len(Append(s, x)) = Len(s) + 1
             /\ Append(s, x)[Len(s) + 1] = x /\ \A i \in DOMAIN s : Append(s, x)[i] = s[i]
  <2> DEFINE T == S \union {x}
  <2>1. s \in Seq(T) /\ x \in T
    BY <1>1
  <2>2. /\ Append(s, x) \in Seq(T) /\ Len(Append(s, x)) = Len(s) + 1
        /\ \A i \in 1..Len(s) : Append(s, x)[i] = s[i]
        /\ Append(s, x)[Len(s) + 1] = x
    BY <2>1, AppendProperties
  <2> QED
    BY <1>2, <2>2 DEF IsSequence
<1>4. ASSUME NEW i \in DOMAIN s, NEW x PROVE IsSequence([s EXCEPT ![i] = x])
  <2>1. s \in Seq(S \union {x}) /\ x \in S \union {x} /\ i \in 1..Len(s)
    BY <1>1, <1>2
  <2> QED
    BY <2>1, ExceptSeq DEF IsSequence
<1> QED
  BY <1>2, <1>3, <1>4

\* Drafts are added, and confirmed by one turn only.
Grown(before, after, t) ==
    /\ IsSequence(after) /\ DOMAIN before \subseteq DOMAIN after
    /\ \A d \in DOMAIN after : {"talk", "status", "by"} \subseteq DOMAIN after[d]
    /\ \A d \in DOMAIN before :
          /\ after[d].talk = before[d].talk
          /\ after[d].by = before[d].by \/ (after[d].by = t /\ ConfirmedBy(t, d))
    /\ \A d \in DOMAIN after \ DOMAIN before : after[d].by = 0

\* The turn goes on with what it held.
TurnMoves(t) ==
    /\ DOMAIN turn' = DOMAIN turn /\ \A u \in Voice!Turns \ {t} : turn'[u] = turn[u]
    /\ t \in Voice!Turns =>
          /\ DOMAIN turn'[t] = DOMAIN turn[t]
          /\ turn'[t].held = turn[t].held /\ turn'[t].before = turn[t].before /\ turn'[t].talk = turn[t].talk
          /\ turn'[t].stage = "new" => turn[t].stage = "new"
          /\ turn'[t].stage \in Underway => turn[t].stage \in Underway
          /\ turn'[t].stage = "called" /\ turn'[t].calls[1].tool = "create" =>
                turn'[t].returned \in DOMAIN drafts' /\ drafts'[turn'[t].returned].talk = turn[t].talk

\* Conversations keep their pending draft, drop it, or take one of their own.
TalkMoves ==
    /\ IsSequence(talk') /\ DOMAIN talk' = DOMAIN talk
    /\ \A c \in DOMAIN talk :
          /\ {"history", "pending"} \subseteq DOMAIN talk'[c]
          /\ \/ talk'[c].pending \in {0, talk[c].pending}
             \/ talk'[c].pending \in DOMAIN drafts' /\ drafts'[talk'[c].pending].talk = c

LEMMA VoiceMoves ==
  ASSUME VoiceInv, NEW t, UNCHANGED script, TurnMoves(t), TalkMoves, Grown(drafts, drafts', t)
  PROVE  VoiceInv'
<1>1. Voice!Turns' = Voice!Turns /\ \A u \in Voice!Turns : Voice!IsAffirmative(script.words[u])' = Voice!IsAffirmative(script.words[u])
  BY DEF Voice!Turns, Voice!IsAffirmative
<1>2. \A u \in Voice!Turns : turn'[u].held = turn[u].held
  BY DEF TurnMoves
<1>3. ASSUME NEW u \in Voice!Turns PROVE TurnOK(u)'
  <2>1. CASE u # t
    <3>1. turn'[u] = turn[u] /\ TurnOK(u)
      BY <2>1 DEF TurnMoves, VoiceInv
    <3> QED
      BY <3>1 DEF TurnOK, TalkMoves, Grown
  <2>2. CASE u = t
    <3>1. TurnOK(t) /\ t \in Voice!Turns /\ DOMAIN talk' = DOMAIN talk
      BY <1>3, <2>2 DEF VoiceInv, TalkMoves
    <3>2. /\ DOMAIN turn'[t] = DOMAIN turn[t]
          /\ turn'[t].held = turn[t].held /\ turn'[t].before = turn[t].before /\ turn'[t].talk = turn[t].talk
          /\ turn'[t].stage = "new" => turn[t].stage = "new"
          /\ turn'[t].stage \in Underway => turn[t].stage \in Underway
      BY <3>1 DEF TurnMoves
    <3>3. turn'[t].stage = "called" /\ turn'[t].calls[1].tool = "create" =>
             turn'[t].returned \in DOMAIN drafts' /\ drafts'[turn'[t].returned].talk = turn[t].talk
      BY <3>1 DEF TurnMoves
    <3>4. turn[t].held # 0 => turn[t].held \in DOMAIN drafts' /\ drafts'[turn[t].held].talk = drafts[turn[t].held].talk
      BY <3>1 DEF TurnOK, Grown
    <3> QED
      BY <2>2, <3>1, <3>2, <3>3, <3>4 DEF TurnOK
  <2> QED
    BY <2>1, <2>2
<1>4. ASSUME NEW c \in DOMAIN talk' PROVE TalkOK(c)'
  BY DEF VoiceInv, TalkOK, TalkMoves, Grown
<1>5. ASSUME NEW d \in DOMAIN drafts' PROVE DraftOK(d)'
  <2>1. {"talk", "status", "by"} \subseteq DOMAIN drafts'[d]
    BY DEF Grown
  <2>2. ASSUME NEW u, ConfirmedBy(u, d) PROVE ConfirmedBy(u, d)'
    BY <1>1, <1>2, <2>2 DEF ConfirmedBy
  <2>3. CASE d \in DOMAIN drafts
    <3>1. drafts[d].by # 0 => ConfirmedBy(drafts[d].by, d)
      BY <2>3 DEF VoiceInv, DraftOK
    <3>2. drafts'[d].by = drafts[d].by \/ (drafts'[d].by = t /\ ConfirmedBy(t, d))
      BY <2>3 DEF Grown
    <3>3. drafts'[d].by # 0 => ConfirmedBy(drafts'[d].by, d)
      BY <3>1, <3>2
    <3> QED
      BY <2>1, <2>2, <3>3 DEF DraftOK
  <2>4. CASE d \notin DOMAIN drafts
    <3>1. drafts'[d].by = 0
      BY <2>4 DEF Grown
    <3> QED
      BY <2>1, <3>1 DEF DraftOK
  <2> QED
    BY <2>3, <2>4
<1> QED
  BY <1>1, <1>3, <1>4, <1>5 DEF VoiceInv, TurnMoves, TalkMoves, Grown

LEMMA DraftsSame ==
  ASSUME VoiceInv, NEW t
  PROVE  Grown(drafts, drafts, t)
BY DEF VoiceInv, DraftOK, Grown

LEMMA TalkSame ==
  ASSUME VoiceInv, UNCHANGED talk
  PROVE  TalkMoves
BY DEF VoiceInv, TalkOK, TalkMoves

\* One conversation changes.
LEMMA TalkSet ==
  ASSUME VoiceInv, NEW c \in DOMAIN talk, NEW row, talk' = [talk EXCEPT ![c] = row],
         {"history", "pending"} \subseteq DOMAIN row,
         \/ row.pending \in {0, talk[c].pending}
         \/ row.pending \in DOMAIN drafts' /\ drafts'[row.pending].talk = c
  PROVE  TalkMoves
<1>1. IsSequence(talk')
  BY SequenceFacts DEF VoiceInv
<1> QED
  BY <1>1 DEF VoiceInv, TalkOK, TalkMoves

\* Nothing happens to the turns.
LEMMA TurnsSame ==
  ASSUME VoiceInv, UNCHANGED turn, NEW t, Grown(drafts, drafts', t)
  PROVE  TurnMoves(t)
BY DEF VoiceInv, TurnOK, TurnMoves, Grown

\* A turn changes nothing of what the invariant remembers of it.
LEMMA TurnSet ==
  ASSUME VoiceInv, NEW t \in Voice!Turns, NEW r, turn' = [turn EXCEPT ![t] = r],
         DOMAIN r = DOMAIN turn[t], r.held = turn[t].held, r.before = turn[t].before, r.talk = turn[t].talk,
         r.stage # "new", r.stage \in Underway => turn[t].stage \in Underway,
         r.stage = "called" /\ r.calls[1].tool = "create" =>
            r.returned \in DOMAIN drafts' /\ drafts'[r.returned].talk = turn[t].talk
  PROVE  TurnMoves(t)
BY DEF VoiceInv, TurnMoves

\* Drafts that a conversation may wait for.
Own(c, pending) ==
    \/ pending \in {0, talk[c].pending}
    \/ pending \in DOMAIN drafts' /\ drafts'[pending].talk = c

LEMMA SpeakMoves ==
  ASSUME VoiceInv, NEW t, turn[t].talk \in DOMAIN talk, NEW history, NEW pending, NEW cost,
         Own(turn[t].talk, pending), Voice!Speak(t, history, pending, cost)
  PROVE  TalkMoves
<1> DEFINE row == [history |-> Voice!TrimHistory(history), pending |-> pending]
<1>1. {"history", "pending"} \subseteq DOMAIN row /\ row.pending = pending
  OBVIOUS
<1>2. talk' = [talk EXCEPT ![turn[t].talk] = row]
  BY DEF Voice!Speak
<1> HIDE DEF row
<1> QED
  BY <1>1, <1>2, TalkSet DEF Own

LEMMA AnsweredMoves ==
  ASSUME VoiceInv, NEW t \in Voice!Turns, turn[t].stage = "asking", NEW brain, NEW calls, Voice!Answered(t, brain, calls)
  PROVE  TurnMoves(t) /\ TalkMoves
<1> DEFINE c == turn[t].talk
           history == Append(talk[c].history, Voice!Assistant)
           cost == turn[t].cost + (IF brain = "model" THEN 1 ELSE 0)
<1>1. TurnOK(t) /\ c \in DOMAIN talk /\ t \in DOMAIN turn
  BY DEF VoiceInv, TurnOK, Underway
<1>2. TalkOK(c)
  BY <1>1 DEF VoiceInv
<1>3. CASE calls = <<>>
  <2> DEFINE r == [turn[t] EXCEPT !.stage = "spoken", !.brain = brain]
  <2>1. turn' = [turn EXCEPT ![t] = r] /\ Voice!Speak(t, history, talk[c].pending, cost)
    BY <1>1, <1>3 DEF Voice!Answered
  <2>2. DOMAIN r = DOMAIN turn[t] /\ r.held = turn[t].held /\ r.before = turn[t].before /\ r.talk = turn[t].talk /\ r.stage = "spoken"
    BY <1>1 DEF TurnOK, Voice!Waiting
  <2> HIDE DEF r
  <2>3. TurnMoves(t)
    BY <2>1, <2>2, TurnSet DEF Underway
  <2>4. TalkMoves
    BY <1>1, <2>1, SpeakMoves DEF Own
  <2> QED
    BY <2>3, <2>4
<1>4. CASE calls # <<>>
  <2> DEFINE r == [turn[t] EXCEPT !.stage = "calling", !.brain = brain, !.calls = calls, !.round = @ + 1, !.cost = cost]
             row == [talk[c] EXCEPT !.history = history]
  <2>1. turn' = [turn EXCEPT ![t] = r] /\ talk' = [talk EXCEPT ![c] = row]
    BY <1>1, <1>4 DEF Voice!Answered
  <2>2. DOMAIN r = DOMAIN turn[t] /\ r.held = turn[t].held /\ r.before = turn[t].before /\ r.talk = turn[t].talk /\ r.stage = "calling"
    BY <1>1 DEF TurnOK, Voice!Waiting
  <2>3. {"history", "pending"} \subseteq DOMAIN row /\ row.pending = talk[c].pending
    BY <1>2 DEF TalkOK
  <2> HIDE DEF r, row
  <2>4. TurnMoves(t)
    BY <2>1, <2>2, TurnSet DEF Underway
  <2>5. TalkMoves
    BY <1>1, <2>1, <2>3, TalkSet
  <2> QED
    BY <2>4, <2>5
<1> QED
  BY <1>3, <1>4

LEMMA AddResultMoves ==
  ASSUME VoiceInv, NEW t \in Voice!Turns, turn[t].stage \in Underway, NEW event, NEW pending, NEW confirmed,
         Own(turn[t].talk, pending), Voice!AddResult(t, event, pending, confirmed)
  PROVE  TurnMoves(t) /\ TalkMoves
<1> DEFINE c == turn[t].talk
           results == Append(turn[t].results, event)
           history == Append(talk[c].history, Voice!Did(results))
           left == [turn[t] EXCEPT !.calls = Tail(@), !.returned = 0, !.confirmed = confirmed, !.results = <<>>]
           on == [left EXCEPT !.stage = "calling", !.results = results]
           asks == [left EXCEPT !.stage = "asking"]
           ends == [left EXCEPT !.stage = "spoken"]
           waits == [talk[c] EXCEPT !.pending = pending]
           tells == [history |-> history, pending |-> pending]
<1>1. TurnOK(t) /\ c \in DOMAIN talk /\ t \in DOMAIN turn
  BY DEF VoiceInv, TurnOK
<1>2. TalkOK(c)
  BY <1>1 DEF VoiceInv
<1>3. \/ turn' = [turn EXCEPT ![t] = on] /\ talk' = [talk EXCEPT ![c] = waits]
      \/ turn' = [turn EXCEPT ![t] = asks] /\ talk' = [talk EXCEPT ![c] = tells]
      \/ turn' = [turn EXCEPT ![t] = ends] /\ Voice!Speak(t, history, pending, turn[t].cost)
  BY DEF Voice!AddResult, Voice!None
<1>4. ASSUME NEW r \in {on, asks, ends}
      PROVE  /\ DOMAIN r = DOMAIN turn[t] /\ r.held = turn[t].held /\ r.before = turn[t].before /\ r.talk = turn[t].talk
             /\ r.stage \in {"calling", "asking", "spoken"}
  BY <1>1 DEF TurnOK, Voice!Waiting
<1>5. {"history", "pending"} \subseteq DOMAIN waits /\ waits.pending = pending
  BY <1>2 DEF TalkOK
<1>6. {"history", "pending"} \subseteq DOMAIN tells /\ tells.pending = pending
  OBVIOUS
<1> HIDE DEF on, asks, ends, waits, tells, history
<1>7. TurnMoves(t)
  <2>1. PICK r \in {on, asks, ends} : turn' = [turn EXCEPT ![t] = r]
    BY <1>3
  <2> QED
    BY <1>4, <2>1, TurnSet DEF Underway
<1>8. TalkMoves
  BY <1>1, <1>3, <1>5, <1>6, TalkSet, SpeakMoves DEF Own
<1> QED
  BY <1>7, <1>8

\* A call that is not blocked adds a draft, or confirms the one that was held.
LEMMA EffectGrows ==
  ASSUME VoiceInv, NEW t \in Voice!Turns, turn[t].stage = "calling", ~Voice!Blocked(t), NEW given, Grown(drafts, given, t)
  PROVE  /\ Grown(drafts, Voice!Effect(t, given), t)
         /\ turn[t].calls[1].tool = "create" =>
               LET after == Voice!Effect(t, given)
               IN Len(after) \in DOMAIN after /\ after[Len(after)].talk = turn[t].talk
<1> DEFINE new == Voice!NewDraft(t)
           held == turn[t].held
           confirmed == [given[held] EXCEPT !.status = "confirmed", !.by = t]
<1>1. {"talk", "status", "by"} \subseteq DOMAIN new /\ new.by = 0 /\ new.talk = turn[t].talk
  BY DEF Voice!NewDraft, Voice!None
<1>2. IsSequence(given) /\ DOMAIN drafts \subseteq DOMAIN given
  BY DEF Grown
<1>3. CASE turn[t].calls[1].tool = "create"
  <2>1. Voice!Effect(t, given) = Append(given, new)
    BY <1>3 DEF Voice!Effect
  <2>2. /\ IsSequence(Append(given, new)) /\ Len(given) \in Nat /\ DOMAIN given = 1..Len(given)
        /\ Len(Append(given, new)) = Len(given) + 1 /\ Append(given, new)[Len(given) + 1] = new
        /\ \A i \in DOMAIN given : Append(given, new)[i] = given[i]
    BY <1>2, SequenceFacts
  <2>3. DOMAIN Append(given, new) = 1..(Len(given) + 1)
    BY <2>2, SequenceFacts
  <2> HIDE DEF new
  <2>4. Grown(drafts, Append(given, new), t)
    BY <1>1, <1>2, <2>2, <2>3 DEF Grown
  <2> QED
    BY <1>1, <2>1, <2>2, <2>3, <2>4
<1>4. CASE turn[t].calls[1].tool = "confirm" /\ given[held].status = "draft"
  <2>1. held # 0 /\ Voice!IsAffirmative(script.words[t])
    BY <1>4 DEF Voice!Blocked, Voice!Held, Voice!None
  <2>2. held \in DOMAIN drafts
    BY <2>1 DEF VoiceInv, TurnOK
  <2>3. Voice!Effect(t, given) = [given EXCEPT ![held] = confirmed]
    BY <1>2, <1>4, <2>2 DEF Voice!Effect, Voice!Held
  <2>4. {"talk", "status", "by"} \subseteq DOMAIN given[held]
    BY <1>2, <2>2 DEF Grown
  <2>5. {"talk", "status", "by"} \subseteq DOMAIN confirmed /\ confirmed.by = t /\ confirmed.talk = given[held].talk
    BY <2>4
  <2>6. ConfirmedBy(t, held)
    BY <2>1 DEF ConfirmedBy
  <2>7. IsSequence([given EXCEPT ![held] = confirmed])
    BY <1>2, <2>2, SequenceFacts
  <2> HIDE DEF confirmed
  <2>8. Grown(drafts, [given EXCEPT ![held] = confirmed], t)
    BY <1>2, <2>2, <2>5, <2>6, <2>7 DEF Grown
  <2> QED
    BY <1>4, <2>3, <2>8
<1>5. CASE turn[t].calls[1].tool # "create" /\ ~(turn[t].calls[1].tool = "confirm" /\ given[held].status = "draft")
  BY <1>5 DEF Voice!Effect, Voice!Held
<1> QED
  BY <1>3, <1>4, <1>5

LEMMA CallSteps ==
  ASSUME VoiceInv, NEW t \in Voice!Turns, Voice!CallTool(t) \/ Voice!CallAgain(t)
  PROVE  VoiceInv'
<1> DEFINE r == [turn[t] EXCEPT !.stage = "called", !.returned = Voice!Answer(t, drafts')]
<1>1. /\ turn[t].stage = "calling" /\ ~Voice!Blocked(t) /\ turn' = [turn EXCEPT ![t] = r] /\ UNCHANGED <<script, talk>>
      /\ drafts' = Voice!Effect(t, drafts) \/ drafts' = Voice!Effect(t, Voice!Effect(t, drafts))
  BY DEF VoiceInv, Voice!CallTool, Voice!CallAgain
<1>2. /\ Grown(drafts, drafts', t)
      /\ turn[t].calls[1].tool = "create" => Len(drafts') \in DOMAIN drafts' /\ drafts'[Len(drafts')].talk = turn[t].talk
  BY <1>1, DraftsSame, EffectGrows
<1>3. TurnOK(t)
  BY DEF VoiceInv
<1>4. /\ DOMAIN r = DOMAIN turn[t] /\ r.held = turn[t].held /\ r.before = turn[t].before /\ r.talk = turn[t].talk
      /\ r.stage = "called" /\ r.calls = turn[t].calls /\ r.returned = Voice!Answer(t, drafts')
  BY <1>3 DEF TurnOK, Voice!Waiting
<1> HIDE DEF r
<1>5. turn[t].calls[1].tool = "create" => r.returned \in DOMAIN drafts' /\ drafts'[r.returned].talk = turn[t].talk
  BY <1>2, <1>4 DEF Voice!Answer
<1>6. TurnMoves(t)
  BY <1>1, <1>4, <1>5, TurnSet DEF Underway
<1> QED
  BY <1>1, <1>2, <1>6, TalkSame, VoiceMoves

\* A turn that is refused or fails.
LEMMA EndSteps ==
  ASSUME VoiceInv, NEW t \in Voice!Turns, Voice!Limited(t) \/ Voice!TurnFails(t)
  PROVE  VoiceInv'
<1>1. PICK end \in {"refused", "failed"} : turn' = [turn EXCEPT ![t].stage = end]
  BY DEF Voice!Limited, Voice!TurnFails
<1> DEFINE r == [turn[t] EXCEPT !.stage = end]
<1>2. UNCHANGED <<script, talk>>
  BY DEF Voice!Limited, Voice!TurnFails
<1>3. Grown(drafts, drafts', t)
  <2>1. \/ drafts' = drafts
        \/ turn[t].stage = "calling" /\ ~Voice!Blocked(t) /\ drafts' = Voice!Effect(t, drafts)
    BY DEF Voice!Limited, Voice!TurnFails
  <2> QED
    BY <2>1, DraftsSame, EffectGrows
<1>4. TurnOK(t) /\ t \in DOMAIN turn
  BY DEF VoiceInv
<1>5. turn' = [turn EXCEPT ![t] = r]
  BY <1>1, <1>4
<1>6. /\ DOMAIN r = DOMAIN turn[t] /\ r.held = turn[t].held /\ r.before = turn[t].before /\ r.talk = turn[t].talk
      /\ r.stage \in {"refused", "failed"}
  BY <1>4 DEF TurnOK, Voice!Waiting
<1> HIDE DEF r
<1>7. TurnMoves(t)
  BY <1>5, <1>6, TurnSet DEF Underway
<1> QED
  BY <1>2, <1>3, <1>7, TalkSame, VoiceMoves

\* Words come in, and brains answer.
LEMMA BrainSteps ==
  ASSUME VoiceInv, NEW t \in Voice!Turns,
         \/ \E calls \in script.proposals : Voice!Converse(t, calls)
         \/ Voice!ConverseByRules(t) \/ Voice!FallBack(t)
  PROVE  VoiceInv'
<1>1. PICK brain, calls : turn[t].stage = "asking" /\ Voice!Answered(t, brain, calls) /\ UNCHANGED <<script, drafts>>
  BY DEF Voice!Converse, Voice!ConverseByRules, Voice!FallBack
<1>2. TurnMoves(t) /\ TalkMoves
  BY <1>1, AnsweredMoves
<1>3. Grown(drafts, drafts', t)
  BY <1>1, DraftsSame
<1> QED
  BY <1>1, <1>2, <1>3, VoiceMoves

LEMMA ListStep ==
  ASSUME VoiceInv, NEW t \in Voice!Turns, Voice!ListTools(t)
  PROVE  VoiceInv'
<1> DEFINE c == turn[t].talk
           r == [turn[t] EXCEPT !.stage = "asking"]
           row == [talk[c] EXCEPT !.history = Append(@, Voice!Said(script.words[t]))]
<1>1. TurnOK(t) /\ t \in DOMAIN turn /\ c \in DOMAIN talk /\ turn[t].stage \in Underway
  BY DEF VoiceInv, TurnOK, Underway, Voice!ListTools
<1>2. turn' = [turn EXCEPT ![t] = r] /\ talk' = [talk EXCEPT ![c] = row] /\ UNCHANGED <<script, drafts>>
  BY <1>1 DEF Voice!ListTools
<1>3. DOMAIN r = DOMAIN turn[t] /\ r.held = turn[t].held /\ r.before = turn[t].before /\ r.talk = turn[t].talk /\ r.stage = "asking"
  BY <1>1 DEF TurnOK, Voice!Waiting
<1>4. TalkOK(c)
  BY <1>1 DEF VoiceInv
<1>5. {"history", "pending"} \subseteq DOMAIN row /\ row.pending = talk[c].pending
  BY <1>4 DEF TalkOK
<1> HIDE DEF r, row
<1>6. TurnMoves(t)
  BY <1>1, <1>2, <1>3, TurnSet DEF Underway
<1>7. TalkMoves
  BY <1>1, <1>2, <1>5, TalkSet
<1>8. Grown(drafts, drafts', t)
  BY <1>2, DraftsSame
<1> QED
  BY <1>2, <1>6, <1>7, <1>8, VoiceMoves

\* The results of calls.
LEMMA ResultSteps ==
  ASSUME VoiceInv, NEW t \in Voice!Turns, Voice!Block(t) \/ Voice!Returned(t)
  PROVE  VoiceInv'
<1> DEFINE c == turn[t].talk
           held == talk[c].pending
<1>1. UNCHANGED <<script, drafts>> /\ turn[t].stage \in Underway
  BY DEF Voice!Block, Voice!Returned, Underway
<1>2. PICK event, pending, confirmed : Own(c, pending) /\ Voice!AddResult(t, event, pending, confirmed)
  <2>1. CASE Voice!Block(t)
    BY <2>1 DEF Voice!Block, Own
  <2>2. CASE Voice!Returned(t) /\ turn[t].calls[1].tool = "create"
    <3>1. turn[t].stage = "called"
      BY <2>2 DEF Voice!Returned
    <3>2. turn[t].returned \in DOMAIN drafts /\ drafts[turn[t].returned].talk = c
      BY <2>2, <3>1 DEF VoiceInv, TurnOK
    <3>3. Own(c, turn[t].returned)
      BY <1>1, <3>2 DEF Own
    <3> QED
      BY <2>2, <3>3 DEF Voice!Returned
  <2>3. CASE Voice!Returned(t) /\ turn[t].calls[1].tool = "confirm"
    <3>1. PICK pending \in {0, held} : \E event : Voice!AddResult(t, event, pending, TRUE)
      BY <2>3 DEF Voice!Returned, Voice!None
    <3> QED
      BY <3>1 DEF Own
  <2>4. CASE Voice!Returned(t) /\ turn[t].calls[1].tool \notin {"create", "confirm"}
    <3>1. \E event : Voice!AddResult(t, event, held, turn[t].confirmed)
      BY <2>4 DEF Voice!Returned
    <3> QED
      BY <3>1 DEF Own
  <2> QED
    BY <2>1, <2>2, <2>3, <2>4
<1>3. TurnMoves(t) /\ TalkMoves
  BY <1>1, <1>2, AddResultMoves
<1>4. Grown(drafts, drafts', t)
  BY <1>1, DraftsSame
<1> QED
  BY <1>1, <1>3, <1>4, VoiceMoves

\* Time passes, drafts expire and conversations are forgotten.
LEMMA OtherSteps ==
  ASSUME VoiceInv,
         \/ \E d \in DOMAIN drafts : Voice!DraftExpires(d)
         \/ \E c \in DOMAIN talk : Voice!Reset(c)
         \/ Voice!Idles \/ Voice!Tick \/ UNCHANGED voice
  PROVE  VoiceInv'
<1>1. UNCHANGED <<script, turn, talk>>
  BY DEF Voice!DraftExpires, Voice!Reset, Voice!Idles, Voice!Tick, voice
<1>2. Grown(drafts, drafts', 0)
  <2>1. CASE \E d \in DOMAIN drafts : Voice!DraftExpires(d)
    <3>1. PICK d \in DOMAIN drafts : drafts' = [drafts EXCEPT ![d].status = "expired"]
      BY <2>1 DEF Voice!DraftExpires
    <3> DEFINE row == [drafts[d] EXCEPT !.status = "expired"]
    <3>2. drafts' = [drafts EXCEPT ![d] = row]
      BY <3>1
    <3>3. DraftOK(d) /\ IsSequence(drafts)
      BY DEF VoiceInv
    <3>4. {"talk", "status", "by"} \subseteq DOMAIN row /\ row.talk = drafts[d].talk /\ row.by = drafts[d].by
      BY <3>3 DEF DraftOK
    <3> HIDE DEF row
    <3>5. IsSequence(drafts')
      BY <3>2, <3>3, SequenceFacts
    <3> QED
      BY <3>2, <3>4, <3>5 DEF Grown, VoiceInv, DraftOK
  <2>2. CASE drafts' = drafts
    BY <2>2, DraftsSame
  <2> QED
    BY <2>1, <2>2 DEF Voice!Reset, Voice!Idles, Voice!Tick, voice
<1> QED
  BY <1>1, <1>2, TurnsSame, TalkSame, VoiceMoves

\* A turn begins: it holds what is pending, and has confirmed nothing yet.
LEMMA BeginStep ==
  ASSUME VoiceInv, NEW t \in Voice!Turns, NEW c \in 0..Len(talk), Voice!Begin(t, c)
  PROVE  VoiceInv'
<1>1. /\ UNCHANGED <<script, drafts>> /\ turn[t].stage = "new"
      /\ IsSequence(talk) /\ Len(talk) \in Nat /\ DOMAIN talk = 1..Len(talk)
      /\ IsSequence(drafts) /\ Len(drafts) \in Nat /\ DOMAIN drafts = 1..Len(drafts)
  BY SequenceFacts DEF VoiceInv, Voice!Begin
<1>2. PICK r, id, held :
         /\ turn' = [turn EXCEPT ![t] = r] /\ DOMAIN r = DOMAIN Voice!Waiting
         /\ r.stage = "begun" /\ r.talk = id /\ r.before = Len(drafts) /\ r.held = held
         /\ \/ talk' = talk /\ id \in DOMAIN talk /\ held = talk[id].pending
            \/ talk' = Append(talk, Voice!NewTalk) /\ id = Len(talk) + 1 /\ held = 0
  <2> DEFINE known == c # 0 /\ c \in Voice!ToSet(Voice!Awake)
             at == IF known THEN c ELSE Len(talk) + 1
             waits == IF known THEN talk[c].pending ELSE 0
             begun == [Voice!Waiting EXCEPT !.stage = "begun", !.talk = at, !.before = Len(drafts), !.held = waits,
                                            !.brain = IF Voice!UsesModel /\ Voice!MayStart THEN "model" ELSE "rules"]
  <2>1. turn' = [turn EXCEPT ![t] = begun] /\ talk' = IF known THEN talk ELSE Append(talk, Voice!NewTalk)
    BY DEF Voice!Begin, Voice!None
  <2>2. /\ DOMAIN begun = DOMAIN Voice!Waiting /\ begun.stage = "begun" /\ begun.talk = at
        /\ begun.before = Len(drafts) /\ begun.held = waits
    BY DEF Voice!Waiting
  <2>3. known => c \in DOMAIN talk
    BY <1>1
  <2> HIDE DEF known, begun
  <2> QED
    BY <2>1, <2>2, <2>3
<1>3. Voice!Turns' = Voice!Turns /\ \A u \in Voice!Turns : Voice!IsAffirmative(script.words[u])' = Voice!IsAffirmative(script.words[u])
  BY <1>1 DEF Voice!Turns, Voice!IsAffirmative
<1>4. /\ IsSequence(talk') /\ DOMAIN talk \subseteq DOMAIN talk' /\ id \in DOMAIN talk'
      /\ \A k \in DOMAIN talk : talk'[k] = talk[k]
      /\ \A k \in DOMAIN talk' \ DOMAIN talk : talk'[k] = Voice!NewTalk
  <2>1. CASE talk' = talk /\ id \in DOMAIN talk
    BY <1>1, <2>1
  <2>2. CASE talk' = Append(talk, Voice!NewTalk) /\ id = Len(talk) + 1
    <3>1. /\ IsSequence(talk') /\ Len(talk') = Len(talk) + 1 /\ talk'[Len(talk) + 1] = Voice!NewTalk
          /\ \A k \in DOMAIN talk : talk'[k] = talk[k]
      BY <1>1, <2>2, SequenceFacts
    <3>2. DOMAIN talk' = 1..(Len(talk) + 1)
      BY <3>1, SequenceFacts
    <3> QED
      BY <1>1, <2>2, <3>1, <3>2
  <2> QED
    BY <1>2, <2>1, <2>2
<1>5. ASSUME NEW k \in DOMAIN talk' PROVE TalkOK(k)'
  <2>1. CASE k \in DOMAIN talk
    BY <1>1, <1>4, <2>1 DEF VoiceInv, TalkOK
  <2>2. CASE k \notin DOMAIN talk
    BY <1>4, <2>2 DEF TalkOK, Voice!NewTalk, Voice!None
  <2> QED
    BY <2>1, <2>2
<1>6. turn'[t] = r /\ DOMAIN turn' = DOMAIN turn /\ \A u \in Voice!Turns \ {t} : turn'[u] = turn[u]
  BY <1>2 DEF VoiceInv
<1>7. ASSUME NEW u \in Voice!Turns PROVE TurnOK(u)'
  <2>1. CASE u # t
    <3>1. TurnOK(u) /\ turn'[u] = turn[u]
      BY <1>6, <2>1 DEF VoiceInv
    <3> QED
      BY <1>1, <1>4, <3>1 DEF TurnOK
  <2>2. CASE u = t
    <3>1. held # 0 => held \in DOMAIN drafts /\ drafts[held].talk = id
      BY <1>2 DEF VoiceInv, TalkOK
    <3>2. held # 0 => held <= r.before
      BY <1>1, <1>2, <3>1
    <3>3. DOMAIN turn'[t] = DOMAIN Voice!Waiting /\ turn'[t].stage = "begun" /\ turn'[t].talk = id /\ turn'[t].held = held
      BY <1>2, <1>6
    <3>4. TurnOK(t)'
      BY <1>1, <1>4, <1>6, <3>1, <3>2, <3>3 DEF TurnOK, Voice!Waiting
    <3> QED
      BY <2>2, <3>4
  <2> QED
    BY <2>1, <2>2
<1>8. ASSUME NEW d \in DOMAIN drafts' PROVE DraftOK(d)'
  <2>1. DraftOK(d) /\ d # 0
    BY <1>1 DEF VoiceInv
  <2>2. turn[t].held = 0
    BY <1>1 DEF VoiceInv, TurnOK
  <2>3. ASSUME NEW u, ConfirmedBy(u, d) PROVE ConfirmedBy(u, d)'
    <3>1. u # t
      BY <2>1, <2>2, <2>3 DEF ConfirmedBy
    <3> QED
      BY <1>3, <1>6, <2>3, <3>1 DEF ConfirmedBy
  <2> QED
    BY <1>1, <2>1, <2>3 DEF DraftOK
<1> QED
  BY <1>1, <1>3, <1>4, <1>5, <1>6, <1>7, <1>8 DEF VoiceInv

LEMMA VoiceBegins ==
  ASSUME Voice!SimInit
  PROVE  VoiceInv
<1>1. IsSequence(<<>>) /\ DOMAIN (<<>>) = {}
  BY DEF IsSequence
<1>2. ASSUME NEW t \in Voice!Turns PROVE TurnOK(t)
  <2>1. turn[t] = Voice!Waiting
    BY DEF Voice!SimInit, Voice!Turns
  <2> QED
    BY <2>1 DEF TurnOK, Voice!Waiting, Voice!None, Underway
<1> QED
  BY <1>1, <1>2 DEF Voice!SimInit, VoiceInv, Voice!Turns

LEMMA VoiceKept ==
  ASSUME VoiceInv, Voice!SimNext \/ UNCHANGED voice
  PROVE  VoiceInv'
<1>1. ASSUME NEW t \in Voice!Turns, Voice!Turn(t) PROVE VoiceInv'
  BY <1>1, CallSteps, EndSteps, BrainSteps, ListStep, ResultSteps, BeginStep DEF Voice!Turn
<1> QED
  BY <1>1, OtherSteps DEF Voice!SimNext

\* An order is only placed by a turn whose words were a yes, for a draft of
\* the same conversation that was there before the turn, and one yes places
\* at most one order (agent.ts).
THEOREM OneYes == BackOfficeSpec => []OneYesOneOrder
<1> DEFINE Inv == part = "voice" => VoiceInv
<1>1. BackOfficeInit => Inv
  BY VoiceBegins DEF BackOfficeInit
<1>2. Inv /\ [BackOfficeNext]_backOffice => Inv'
  BY VoiceKept DEF BackOfficeNext, backOffice, Notifies, Syncs, Parses, Administers, PlansOrders, Talks, Chats
<1>3. Inv => OneYesOneOrder
  <2> SUFFICES ASSUME VoiceInv PROVE Voice!OneYesOneOrder
    BY DEF OneYesOneOrder
  <2>1. ASSUME NEW d \in DOMAIN drafts, drafts[d].by # 0
        PROVE  /\ drafts[d].by \in Voice!Turns /\ Voice!IsAffirmative(script.words[drafts[d].by])
               /\ d = turn[drafts[d].by].held /\ d # 0
    BY <2>1, SequenceFacts DEF VoiceInv, DraftOK, ConfirmedBy
  <2>2. ASSUME NEW d \in DOMAIN drafts, drafts[d].by # 0
        PROVE  drafts[d].talk = turn[drafts[d].by].talk /\ d <= turn[drafts[d].by].before
    <3>1. TurnOK(drafts[d].by)
      BY <2>1, <2>2 DEF VoiceInv
    <3> QED
      BY <2>1, <2>2, <3>1 DEF TurnOK
  <2> QED
    BY <2>1, <2>2 DEF Voice!OneYesOneOrder, Voice!None
<1> QED
  BY <1>1, <1>2, <1>3, PTL DEF BackOfficeSpec

-----------------------------------------------------------------------------
(* Credentials of a shop.                                                  *)

Present(t, type, n) == \E s \in Admin!Versions(t, type) : s.version = n
Quiet(t, type) == \A s \in Admin!Versions(t, type) : s.status # "active"
Same(s, o) == s.tenant = o.tenant /\ s.type = o.type /\ s.version = o.version

\* Versions count up from one, and there is a newest.
RowsOK ==
    /\ \A s \in secrets :
          /\ {"tenant", "type", "version", "status"} \subseteq DOMAIN s
          /\ s.version \in Nat \ {0} /\ \A n \in 1..(s.version - 1) : Present(s.tenant, s.type, n)
    /\ \A s, o \in secrets : Same(s, o) => s = o

NewestOK ==
    \A t, type : \E m \in Nat :
        /\ m = 0 \/ Present(t, type, m)
        /\ \A s \in Admin!Versions(t, type) : s.version <= m

\* The version a handler is about to insert is the next, and nothing is
\* active, unless another handler inserted it first.
HandlerOK(c) ==
    /\ {"version", "stage"} \subseteq DOMAIN call[c]
    /\ \A t, type, n : t = Admin!Tenant(c) /\ type = Admin!SecretType(c) /\ n = call[c].version =>
          /\ call[c].stage \in {"rotate", "insert"} =>
                n \in Nat \ {0} /\ \A i \in 1..(n - 1) : Present(t, type, i)
          /\ call[c].stage = "insert" => Present(t, type, n) \/ Quiet(t, type)

AdminInv ==
    /\ RowsOK /\ NewestOK /\ Admin!OneActiveSecret
    /\ DOMAIN call = Admin!Calls /\ \A c \in Admin!Calls : HandlerOK(c)

\* What the versions that are there say of handlers stays true.
Monotone ==
    /\ \A t, type, n : Present(t, type, n) => Present(t, type, n)'
    /\ \A t, type : Quiet(t, type) => Quiet(t, type)'

LEMMA CallFacts ==
  ASSUME UNCHANGED situation
  PROVE  /\ Admin!Calls' = Admin!Calls
         /\ \A c : Admin!Tenant(c)' = Admin!Tenant(c) /\ Admin!SecretType(c)' = Admin!SecretType(c)
BY DEF Admin!Calls, Admin!Tenant, Admin!SecretType, Admin!Of

LEMMA HandlersMove ==
  ASSUME AdminInv, UNCHANGED situation, NEW c \in Admin!Calls, NEW r, call' = [call EXCEPT ![c] = r],
         Monotone, RowsOK', NewestOK', Admin!OneActiveSecret', HandlerOK(c)'
  PROVE  AdminInv'
<1>1. ASSUME NEW d \in Admin!Calls \ {c} PROVE HandlerOK(d)'
  <2>1. HandlerOK(d) /\ call'[d] = call[d] /\ Admin!Tenant(d)' = Admin!Tenant(d) /\ Admin!SecretType(d)' = Admin!SecretType(d)
    BY CallFacts DEF AdminInv
  <2> QED
    BY <2>1 DEF HandlerOK, Monotone
<1> QED
  BY <1>1, CallFacts DEF AdminInv

\* Rows that change their status, and are not active then.
LEMMA RowsRewritten ==
  ASSUME AdminInv, NEW old \in SUBSET secrets, NEW status, status # "active",
         secrets' = (secrets \ old) \union {[s EXCEPT !.status = status] : s \in old}
  PROVE  RowsOK' /\ NewestOK' /\ Admin!OneActiveSecret' /\ Monotone
<1> DEFINE now(s) == IF s \in old THEN [s EXCEPT !.status = status] ELSE s
<1>1. ASSUME NEW s \in secrets
      PROVE  /\ now(s) \in secrets' /\ Same(s, now(s))
             /\ {"tenant", "type", "version", "status"} \subseteq DOMAIN now(s)
             /\ now(s).status = "active" => now(s) = s
  BY DEF AdminInv, RowsOK, Same
<1>2. ASSUME NEW o \in secrets' PROVE \E s \in secrets : o = now(s)
  OBVIOUS
<1> HIDE DEF now
<1>3. \A t, type, n : Present(t, type, n) => Present(t, type, n)'
  BY <1>1 DEF Present, Admin!Versions, Same
<1>4. \A t, type : Quiet(t, type) => Quiet(t, type)'
  BY <1>1, <1>2 DEF Quiet, Admin!Versions, Same
<1>5. RowsOK'
  <2>1. ASSUME NEW o \in secrets'
        PROVE  /\ {"tenant", "type", "version", "status"} \subseteq DOMAIN o
               /\ o.version \in Nat \ {0} /\ \A n \in 1..(o.version - 1) : Present(o.tenant, o.type, n)'
    <3>1. PICK s \in secrets : o = now(s)
      BY <1>2
    <3>2. s.version \in Nat \ {0} /\ \A n \in 1..(s.version - 1) : Present(s.tenant, s.type, n)
      BY DEF AdminInv, RowsOK
    <3> QED
      BY <1>1, <1>3, <3>1, <3>2 DEF Same
  <2>2. ASSUME NEW o \in secrets', NEW p \in secrets', Same(o, p) PROVE o = p
    <3>1. PICK s \in secrets, r \in secrets : o = now(s) /\ p = now(r)
      BY <1>2
    <3>2. Same(s, r)
      BY <1>1, <2>2, <3>1 DEF Same
    <3> QED
      BY <3>1, <3>2 DEF AdminInv, RowsOK
  <2> QED
    BY <2>1, <2>2 DEF RowsOK
<1>6. NewestOK'
  <2> SUFFICES ASSUME NEW t, NEW type
               PROVE  \E m \in Nat : (m = 0 \/ Present(t, type, m)') /\ \A s \in Admin!Versions(t, type)' : s.version <= m
    BY DEF NewestOK
  <2>1. PICK m \in Nat : (m = 0 \/ Present(t, type, m)) /\ \A s \in Admin!Versions(t, type) : s.version <= m
    BY DEF AdminInv, NewestOK
  <2> QED
    BY <1>1, <1>2, <1>3, <2>1 DEF Admin!Versions, Same
<1>7. Admin!OneActiveSecret'
  BY <1>1, <1>2 DEF AdminInv, Admin!OneActiveSecret, Admin!Versions, Same
<1> QED
  BY <1>3, <1>4, <1>5, <1>6, <1>7 DEF Monotone

\* What the statement after another is.
LEMMA StatementFacts ==
  Admin!Statements[1] = "version" /\ Admin!After("version") = "rotate" /\ Admin!After("rotate") = "insert"
<1> DEFINE s == <<"version", "rotate", "insert">>
<1>1. DOMAIN s = {1, 2, 3} /\ s[1] = "version" /\ s[2] = "rotate" /\ s[3] = "insert"
  OBVIOUS
<1>2. (CHOOSE i \in DOMAIN s : s[i] = "version") = 1 /\ (CHOOSE i \in DOMAIN s : s[i] = "rotate") = 2
  BY <1>1
<1> QED
  BY <1>1, <1>2 DEF Admin!Statements, Admin!After

\* The newest version is there, and no other is newer.
LEMMA NewestFacts ==
  ASSUME AdminInv, NEW t, NEW type
  PROVE  /\ Admin!Newest(t, type) \in Nat
         /\ \A n \in 1..Admin!Newest(t, type) : Present(t, type, n)
<1> DEFINE S == {0} \union {s.version : s \in Admin!Versions(t, type)}
           new == Admin!Newest(t, type)
<1>1. PICK m \in Nat : (m = 0 \/ Present(t, type, m)) /\ \A s \in Admin!Versions(t, type) : s.version <= m
  BY DEF AdminInv, NewestOK
<1>2. \A x \in S : x \in Nat
  BY DEF AdminInv, RowsOK, Admin!Versions
<1>3. m \in S /\ \A x \in S : m >= x
  BY <1>1, <1>2 DEF Present
<1>4. new \in S
  BY <1>3 DEF Admin!Newest, Admin!Max
<1>5. ASSUME NEW n \in 1..new PROVE Present(t, type, n)
  <2>1. PICK s \in Admin!Versions(t, type) : s.version = new
    BY <1>2, <1>4
  <2>2. /\ s.version \in Nat \ {0} /\ s.tenant = t /\ s.type = type
        /\ \A i \in 1..(s.version - 1) : Present(t, type, i)
    BY DEF AdminInv, RowsOK, Admin!Versions
  <2> QED
    BY <2>1, <2>2 DEF Present
<1> QED
  BY <1>2, <1>4, <1>5

LEMMA SecretsSame ==
  ASSUME AdminInv, UNCHANGED secrets
  PROVE  RowsOK' /\ NewestOK' /\ Admin!OneActiveSecret' /\ Monotone
<1>1. \A t, type : Admin!Versions(t, type)' = Admin!Versions(t, type)
  BY DEF Admin!Versions
<1>2. Monotone
  BY <1>1 DEF Monotone, Present, Quiet
<1>3. RowsOK' /\ NewestOK'
  BY <1>1, <1>2 DEF AdminInv, RowsOK, NewestOK, Present
<1>4. Admin!OneActiveSecret'
  BY <1>1 DEF AdminInv, Admin!OneActiveSecret
<1> QED
  BY <1>2, <1>3, <1>4

\* Steps to stages at which a handler need not know anything.
LEMMA OtherStages ==
  ASSUME AdminInv, UNCHANGED situation, NEW c \in Admin!Calls, NEW r, call' = [call EXCEPT ![c] = r],
         {"version", "stage"} \subseteq DOMAIN r, r.stage \notin {"rotate", "insert"},
         Monotone, RowsOK', NewestOK', Admin!OneActiveSecret'
  PROVE  AdminInv'
<1>1. HandlerOK(c)'
  BY DEF AdminInv, HandlerOK
<1> QED
  BY <1>1, HandlersMove

Moves(c, at) ==
    \E r : /\ call' = [call EXCEPT ![c] = r] /\ {"version", "stage"} \subseteq DOMAIN r
           /\ r.stage = at /\ r.version = call[c].version

LEMMA MoveFacts ==
  ASSUME AdminInv, NEW c \in Admin!Calls
  PROVE  /\ \A x : Admin!Go(c, x) => Moves(c, x)
         /\ \A x : Admin!Answer(c, x) => Moves(c, "answered")
         /\ \A x : Admin!Listing(c, x) => Moves(c, "answered")
<1>1. c \in DOMAIN call /\ {"version", "stage"} \subseteq DOMAIN call[c]
  BY DEF AdminInv, HandlerOK
<1>2. ASSUME NEW x, Admin!Go(c, x) PROVE Moves(c, x)
  <2> DEFINE r == [call[c] EXCEPT !.stage = x]
  <2>1. {"version", "stage"} \subseteq DOMAIN r /\ r.stage = x /\ r.version = call[c].version
    BY <1>1
  <2>2. call' = [call EXCEPT ![c] = r]
    BY <1>1, <1>2 DEF Admin!Go
  <2> HIDE DEF r
  <2> QED
    BY <2>1, <2>2 DEF Moves
<1>3. ASSUME NEW x, Admin!Answer(c, x) PROVE Moves(c, "answered")
  <2> DEFINE r == [call[c] EXCEPT !.stage = "answered", !.status = x]
  <2>1. {"version", "stage"} \subseteq DOMAIN r /\ r.stage = "answered" /\ r.version = call[c].version
    BY <1>1
  <2>2. call' = [call EXCEPT ![c] = r]
    BY <1>1, <1>3 DEF Admin!Answer
  <2> HIDE DEF r
  <2> QED
    BY <2>1, <2>2 DEF Moves
<1>4. ASSUME NEW x, Admin!Listing(c, x) PROVE Moves(c, "answered")
  <2> DEFINE r == [call[c] EXCEPT !.stage = "answered", !.status = 200, !.items = x]
  <2>1. {"version", "stage"} \subseteq DOMAIN r /\ r.stage = "answered" /\ r.version = call[c].version
    BY <1>1
  <2>2. call' = [call EXCEPT ![c] = r]
    BY <1>1, <1>4 DEF Admin!Listing
  <2> HIDE DEF r
  <2> QED
    BY <2>1, <2>2 DEF Moves
<1> QED
  BY <1>2, <1>3, <1>4

\* Handlers of tenants, invites and permissions, and those that end.
LEMMA QuietSteps ==
  ASSUME AdminInv, NEW c \in Admin!Calls,
         \/ Admin!Receive(c) \/ Admin!Authorize(c) \/ Admin!Ping(c) \/ Admin!BadRequest(c)
         \/ Admin!CreateTenant(c) \/ Admin!GetTenant(c) \/ Admin!PatchTenant(c)
         \/ Admin!CreateInvite(c) \/ Admin!ListInvites(c)
         \/ Admin!BeginSetting(c) \/ Admin!SetRetailer(c) \/ Admin!ListSecrets(c)
         \/ Admin!Permit(c) \/ Admin!Unpermit(c) \/ Admin!ListPermissions(c) \/ Admin!Audit(c) \/ Admin!Fail(c)
  PROVE  AdminInv'
<1>1. UNCHANGED <<situation, secrets>>
  BY DEF Admin!Receive, Admin!Authorize, Admin!Ping, Admin!BadRequest, Admin!CreateTenant, Admin!GetTenant,
         Admin!PatchTenant, Admin!CreateInvite, Admin!ListInvites, Admin!BeginSetting, Admin!SetRetailer,
         Admin!ListSecrets, Admin!Permit, Admin!Unpermit, Admin!ListPermissions, Admin!Audit, Admin!Fail
<1>2. \E x \in {"authenticating", "allowed", "answered", "version", "auditing"} : Moves(c, x)
  <2>1. CASE Admin!Authorize(c)
    <3>1. c \in DOMAIN call /\ {"version", "stage"} \subseteq DOMAIN call[c]
      BY DEF AdminInv, HandlerOK
    <3> DEFINE known == IF Admin!Setup.auth /\ Admin!Of(c).by.how = "token" /\ ~keys.fresh THEN keys.published ELSE keys.cached
               role == Admin!PrincipalRole(Admin!Of(c).by, known)
               allowed == Admin!IsAllowedByRole(Admin!Of(c).kind, role)
               x == IF allowed THEN "allowed" ELSE "answered"
               r == [call[c] EXCEPT !.role = role, !.stage = x,
                       !.status = IF role = "none" THEN 401 ELSE IF allowed THEN @ ELSE 403]
    <3>2. call' = [call EXCEPT ![c] = r]
      BY <2>1 DEF Admin!Authorize
    <3> HIDE DEF role, allowed
    <3>3. {"version", "stage"} \subseteq DOMAIN r /\ r.stage = x /\ r.version = call[c].version
      BY <3>1
    <3> HIDE DEF r
    <3> QED
      BY <3>2, <3>3 DEF Moves
  <2>2. CASE ~Admin!Authorize(c)
    <3>1. \/ Admin!Go(c, "authenticating") \/ Admin!Go(c, "auditing") \/ Admin!Go(c, Admin!Statements[1])
          \/ \E x : Admin!Answer(c, x) \/ Admin!Listing(c, x)
      BY <2>2 DEF Admin!Receive, Admin!Ping, Admin!BadRequest, Admin!CreateTenant, Admin!GetTenant,
         Admin!PatchTenant, Admin!CreateInvite, Admin!ListInvites, Admin!BeginSetting, Admin!SetRetailer,
         Admin!ListSecrets, Admin!Permit, Admin!Unpermit, Admin!ListPermissions, Admin!Audit, Admin!Fail
    <3> QED
      BY <3>1, MoveFacts, StatementFacts
  <2> QED
    BY <2>1, <2>2
<1>3. PICK r : /\ call' = [call EXCEPT ![c] = r] /\ {"version", "stage"} \subseteq DOMAIN r
               /\ r.stage \notin {"rotate", "insert"}
  BY <1>2 DEF Moves
<1> QED
  BY <1>1, <1>3, SecretsSame, OtherStages

LEMMA RevokeStep ==
  ASSUME AdminInv, NEW c \in Admin!Calls, Admin!RevokeSecret(c)
  PROVE  AdminInv'
<1>1. UNCHANGED situation
  BY DEF Admin!RevokeSecret
<1>2. RowsOK' /\ NewestOK' /\ Admin!OneActiveSecret' /\ Monotone
  <2>1. CASE UNCHANGED secrets
    BY <2>1, SecretsSame
  <2>2. CASE ~UNCHANGED secrets
    <3>1. PICK old \in SUBSET secrets :
             secrets' = (secrets \ old) \union {[s EXCEPT !.status = "revoked"] : s \in old}
      BY <2>2 DEF Admin!RevokeSecret, Admin!Versions
    <3> QED
      BY <3>1, RowsRewritten
  <2> QED
    BY <2>1, <2>2
<1>3. Moves(c, "answered") \/ Moves(c, "auditing")
  BY MoveFacts DEF Admin!RevokeSecret
<1>4. PICK r : /\ call' = [call EXCEPT ![c] = r] /\ {"version", "stage"} \subseteq DOMAIN r
               /\ r.stage \notin {"rotate", "insert"}
  BY <1>3 DEF Moves
<1> QED
  BY <1>1, <1>2, <1>4, OtherStages

LEMMA ReadStep ==
  ASSUME AdminInv, NEW c \in Admin!Calls, Admin!ReadVersion(c)
  PROVE  AdminInv'
<1> DEFINE n == Admin!Newest(Admin!Tenant(c), Admin!SecretType(c)) + 1
           r == [call[c] EXCEPT !.version = n, !.stage = "rotate"]
<1>1. c \in DOMAIN call /\ {"version", "stage"} \subseteq DOMAIN call[c]
  BY DEF AdminInv, HandlerOK
<1>2. call' = [call EXCEPT ![c] = r] /\ UNCHANGED <<situation, secrets>>
  BY <1>1, StatementFacts DEF Admin!ReadVersion
<1>3. n \in Nat \ {0} /\ \A i \in 1..(n - 1) : Present(Admin!Tenant(c), Admin!SecretType(c), i)
  BY NewestFacts
<1>4. {"version", "stage"} \subseteq DOMAIN r /\ r.version = n /\ r.stage = "rotate"
  BY <1>1
<1> HIDE DEF n, r
<1>5. RowsOK' /\ NewestOK' /\ Admin!OneActiveSecret' /\ Monotone
  BY <1>2, SecretsSame
<1>6. HandlerOK(c)'
  <2>1. call'[c] = r
    BY <1>1, <1>2
  <2>2. Admin!Tenant(c)' = Admin!Tenant(c) /\ Admin!SecretType(c)' = Admin!SecretType(c)
    BY <1>2, CallFacts
  <2> QED
    BY <1>3, <1>4, <1>5, <2>1, <2>2 DEF HandlerOK, Monotone
<1> QED
  BY <1>2, <1>5, <1>6, HandlersMove

LEMMA RotateStep ==
  ASSUME AdminInv, NEW c \in Admin!Calls, Admin!RotateActive(c)
  PROVE  AdminInv'
<1> DEFINE old == {s \in Admin!Versions(Admin!Tenant(c), Admin!SecretType(c)) : s.status = "active"}
<1>1. /\ old \in SUBSET secrets
      /\ secrets' = (secrets \ old) \union {[s EXCEPT !.status = "rotated"] : s \in old}
      /\ UNCHANGED situation /\ call[c].stage = "rotate"
  BY DEF Admin!RotateActive, Admin!Versions, Admin!At
<1>2. RowsOK' /\ NewestOK' /\ Admin!OneActiveSecret' /\ Monotone
  BY <1>1, RowsRewritten
<1>3. \A t, type : t = Admin!Tenant(c) /\ type = Admin!SecretType(c) => Quiet(t, type)'
  <2>1. \A s \in secrets : {"tenant", "type", "version", "status"} \subseteq DOMAIN s
    BY DEF AdminInv, RowsOK
  <2> QED
    BY <1>1, <2>1 DEF Quiet, Admin!Versions
<1>4. Moves(c, "insert")
  BY MoveFacts, StatementFacts DEF Admin!RotateActive
<1>5. PICK r : /\ call' = [call EXCEPT ![c] = r] /\ {"version", "stage"} \subseteq DOMAIN r
               /\ r.stage = "insert" /\ r.version = call[c].version
  BY <1>4 DEF Moves
<1> HIDE DEF old
<1>6. HandlerOK(c)'
  <2>1. call'[c] = r /\ HandlerOK(c)
    BY <1>5 DEF AdminInv
  <2>2. Admin!Tenant(c)' = Admin!Tenant(c) /\ Admin!SecretType(c)' = Admin!SecretType(c)
    BY <1>1, CallFacts
  <2> QED
    BY <1>1, <1>2, <1>3, <1>5, <2>1, <2>2 DEF HandlerOK, Monotone
<1> QED
  BY <1>1, <1>2, <1>5, <1>6, HandlersMove

\* The next version is inserted, unless another handler was faster.
LEMMA InsertSecretStep ==
  ASSUME AdminInv, NEW c \in Admin!Calls, Admin!InsertSecret(c)
  PROVE  AdminInv'
<1> DEFINE tenant == Admin!Tenant(c)
           type == Admin!SecretType(c)
           n == call[c].version
           row == [tenant |-> tenant, type |-> type, version |-> n, status |-> "active"]
<1>1. UNCHANGED situation /\ call[c].stage = "insert" /\ HandlerOK(c)
  BY DEF Admin!InsertSecret, Admin!At, AdminInv
<1>2. n \in Nat \ {0} /\ (\A i \in 1..(n - 1) : Present(tenant, type, i)) /\ (Present(tenant, type, n) \/ Quiet(tenant, type))
  BY <1>1 DEF HandlerOK
<1>3. Moves(c, "answered") \/ Moves(c, "tenant") \/ Moves(c, "auditing")
  BY MoveFacts DEF Admin!InsertSecret
<1>4. PICK r : /\ call' = [call EXCEPT ![c] = r] /\ {"version", "stage"} \subseteq DOMAIN r
               /\ r.stage \notin {"rotate", "insert"}
  BY <1>3 DEF Moves
<1>5. CASE UNCHANGED secrets
  BY <1>1, <1>4, <1>5, SecretsSame, OtherStages
<1>6. CASE ~Present(tenant, type, n) /\ secrets' = secrets \union {row}
  <2>1. /\ {"tenant", "type", "version", "status"} \subseteq DOMAIN row
        /\ row.tenant = tenant /\ row.type = type /\ row.version = n /\ row.status = "active"
    OBVIOUS
  <2> HIDE DEF row, tenant, type, n
  <2>2. PICK t, y, v : t = tenant /\ y = type /\ v = n
    OBVIOUS
  <2>3. /\ v \in Nat \ {0} /\ (\A i \in 1..(v - 1) : Present(t, y, i)) /\ Quiet(t, y) /\ ~Present(t, y, v)
        /\ row.tenant = t /\ row.type = y /\ row.version = v
    BY <1>2, <1>6, <2>1, <2>2
  <2>4. ASSUME NEW s \in Admin!Versions(t, y) PROVE s \in secrets /\ s.version \in Nat /\ s.version < v /\ s.status # "active"
    <3>1. /\ s \in secrets /\ s.version \in Nat \ {0} /\ s.tenant = t /\ s.type = y
          /\ \A i \in 1..(s.version - 1) : Present(t, y, i)
      BY DEF AdminInv, RowsOK, Admin!Versions
    <3>2. s.version # v /\ s.status # "active"
      BY <2>3 DEF Present, Quiet
    <3>3. ~(v \in 1..(s.version - 1))
      BY <2>3, <3>1
    <3> QED
      BY <2>3, <3>1, <3>2, <3>3
  <2>5. \A a, b : Admin!Versions(a, b)' = IF a = t /\ b = y THEN Admin!Versions(a, b) \union {row} ELSE Admin!Versions(a, b)
    BY <1>6, <2>3 DEF Admin!Versions
  <2>6. /\ \A a, b, i : Present(a, b, i) => Present(a, b, i)'
        /\ Present(t, y, v)'
        /\ \A a, b : a # t \/ b # y => (Quiet(a, b) => Quiet(a, b)')
    BY <2>3, <2>5 DEF Present, Quiet
  <2>7. RowsOK'
    <3>1. ASSUME NEW s \in secrets'
          PROVE  /\ {"tenant", "type", "version", "status"} \subseteq DOMAIN s
                 /\ s.version \in Nat \ {0} /\ \A i \in 1..(s.version - 1) : Present(s.tenant, s.type, i)'
      BY <1>6, <2>1, <2>3, <2>6 DEF AdminInv, RowsOK
    <3>2. ASSUME NEW s \in secrets', NEW o \in secrets', Same(s, o) PROVE s = o
      <4>1. ASSUME NEW p \in secrets PROVE ~(p.tenant = t /\ p.type = y /\ p.version = v)
        BY <2>3 DEF Present, Admin!Versions
      <4> QED
        BY <1>6, <2>3, <3>2, <4>1 DEF AdminInv, RowsOK, Same
    <3> QED
      BY <3>1, <3>2 DEF RowsOK
  <2>8. NewestOK'
    <3> SUFFICES ASSUME NEW a, NEW b
                 PROVE  \E m \in Nat : (m = 0 \/ Present(a, b, m)') /\ \A s \in Admin!Versions(a, b)' : s.version <= m
      BY DEF NewestOK
    <3>1. CASE a = t /\ b = y
      <4>1. Present(a, b, v)' /\ v \in Nat
        BY <2>3, <2>6, <3>1
      <4>2. \A s \in Admin!Versions(a, b)' : s.version <= v
        BY <2>3, <2>4, <2>5, <3>1
      <4> QED
        BY <4>1, <4>2
    <3>2. CASE a # t \/ b # y
      <4>1. PICK m \in Nat : (m = 0 \/ Present(a, b, m)) /\ \A s \in Admin!Versions(a, b) : s.version <= m
        BY DEF AdminInv, NewestOK
      <4>2. (m = 0 \/ Present(a, b, m)') /\ \A s \in Admin!Versions(a, b)' : s.version <= m
        BY <2>5, <2>6, <3>2, <4>1
      <4> QED
        BY <4>2
    <3> QED
      BY <3>1, <3>2
  <2>9. Admin!OneActiveSecret'
    <3>1. ASSUME NEW s \in secrets', s.status = "active", NEW o \in Admin!Versions(s.tenant, s.type)'
          PROVE  o = s \/ (o.version < s.version /\ o.status # "active")
      <4>1. CASE s = row
        BY <2>3, <2>4, <2>5, <3>1, <4>1
      <4>2. CASE s # row
        <5>1. s \in secrets /\ s \in Admin!Versions(s.tenant, s.type)
          BY <1>6, <4>2 DEF Admin!Versions
        <5>2. s.tenant # t \/ s.type # y
          BY <2>4, <3>1, <5>1
        <5>3. o \in Admin!Versions(s.tenant, s.type)
          BY <2>5, <3>1, <5>2
        <5> QED
          BY <3>1, <5>1, <5>3 DEF AdminInv, Admin!OneActiveSecret
      <4> QED
        BY <4>1, <4>2
    <3> QED
      BY <3>1 DEF Admin!OneActiveSecret
  <2>10. ASSUME NEW d \in Admin!Calls PROVE HandlerOK(d)'
    <3>1. Admin!Tenant(d)' = Admin!Tenant(d) /\ Admin!SecretType(d)' = Admin!SecretType(d)
      BY <1>1, CallFacts
    <3>2. CASE d = c
      BY <1>4, <3>2 DEF AdminInv, HandlerOK
    <3>3. CASE d # c
      <4>1. call'[d] = call[d] /\ HandlerOK(d)
        BY <1>4, <3>3 DEF AdminInv
      <4>2. ASSUME NEW i \in Nat \ {0}, \A j \in 1..(i - 1) : Present(t, y, j), ~Present(t, y, i) PROVE i = v
        <5>1. ~(i \in 1..(v - 1)) /\ ~(v \in 1..(i - 1))
          BY <2>3, <4>2
        <5> QED
          BY <2>3, <5>1
      <4>3. ASSUME NEW a, NEW b, NEW i, a = Admin!Tenant(d), b = Admin!SecretType(d), i = call[d].version, call[d].stage \in {"rotate", "insert"}
            PROVE  /\ i \in Nat \ {0} /\ \A j \in 1..(i - 1) : Present(a, b, j)'
                   /\ call[d].stage = "insert" => Present(a, b, i)' \/ Quiet(a, b)'
        <5>1. /\ i \in Nat \ {0} /\ \A j \in 1..(i - 1) : Present(a, b, j)
              /\ call[d].stage = "insert" => Present(a, b, i) \/ Quiet(a, b)
          BY <4>1, <4>3 DEF HandlerOK
        <5>2. CASE a # t \/ b # y
          BY <2>6, <5>1, <5>2
        <5>3. CASE a = t /\ b = y
          BY <2>6, <4>2, <5>1, <5>3
        <5> QED
          BY <5>2, <5>3
      <4> QED
        BY <3>1, <4>1, <4>3 DEF HandlerOK
    <3> QED
      BY <3>2, <3>3
  <2> QED
    BY <1>1, <1>4, <2>7, <2>8, <2>9, <2>10, CallFacts DEF AdminInv
<1>7. UNCHANGED secrets \/ (~Present(tenant, type, n) /\ secrets' = secrets \union {row})
  BY DEF Admin!InsertSecret, Admin!Refused, Present
<1> QED
  BY <1>5, <1>6, <1>7

LEMMA AdminBegins ==
  ASSUME Admin!AdminInit
  PROVE  AdminInv
<1>1. \A t, type : Admin!Versions(t, type) = {}
  BY DEF Admin!AdminInit, Admin!Versions
<1>2. RowsOK /\ NewestOK /\ Admin!OneActiveSecret
  BY <1>1 DEF Admin!AdminInit, RowsOK, NewestOK, Admin!OneActiveSecret
<1>3. ASSUME NEW c \in Admin!Calls PROVE HandlerOK(c)
  <2>1. call[c] = Admin!Fresh
    BY DEF Admin!AdminInit, Admin!Calls
  <2> QED
    BY <2>1 DEF HandlerOK, Admin!Fresh
<1> QED
  BY <1>2, <1>3 DEF AdminInv, Admin!AdminInit, Admin!Calls

LEMMA AdminStays ==
  ASSUME AdminInv, UNCHANGED <<situation, call, secrets>>
  PROVE  AdminInv'
<1>1. ASSUME NEW c \in Admin!Calls PROVE HandlerOK(c)'
  <2>1. HandlerOK(c) /\ Admin!Tenant(c)' = Admin!Tenant(c) /\ Admin!SecretType(c)' = Admin!SecretType(c)
    BY CallFacts DEF AdminInv
  <2> QED
    BY <2>1, SecretsSame DEF HandlerOK, Monotone
<1> QED
  BY <1>1, CallFacts, SecretsSame DEF AdminInv

LEMMA AdminKept ==
  ASSUME AdminInv, Admin!AdminNext \/ UNCHANGED admin
  PROVE  AdminInv'
<1>1. ASSUME NEW c \in Admin!Calls, Admin!Handle(c) PROVE AdminInv'
  BY <1>1, QuietSteps, ReadStep, RotateStep, InsertSecretStep, RevokeStep DEF Admin!Handle
<1>2. CASE Admin!Rekey \/ Admin!KeysAge \/ UNCHANGED admin
  BY <1>2, AdminStays DEF Admin!Rekey, Admin!KeysAge, admin
<1> QED
  BY <1>1, <1>2 DEF Admin!AdminNext

\* A shop never has two active versions of its credentials, and the active
\* one is the newest, however the three statements that replace them
\* interleave and fail (server.ts of the admin service).
THEOREM OneActive == BackOfficeSpec => []OneActiveSecret
<1> DEFINE Inv == part = "admin" => AdminInv
<1>1. BackOfficeInit => Inv
  BY AdminBegins DEF BackOfficeInit
<1>2. Inv /\ [BackOfficeNext]_backOffice => Inv'
  BY AdminKept DEF BackOfficeNext, backOffice, Notifies, Syncs, Parses, Administers, PlansOrders, Talks, Chats
<1>3. Inv => OneActiveSecret
  BY DEF OneActiveSecret, AdminInv
<1> QED
  BY <1>1, <1>2, <1>3, PTL DEF BackOfficeSpec

-----------------------------------------------------------------------------
(* Polling and the chatbot.                                                *)

PollerSteps == {"wait", "read", "reply", "apologise", "sorry"}
JobSteps == {"begin", "off", "keyless", "look", "ask", "answer", "sorry"}
Contexts == {"", "matches", "sample", "none"}
Held(u) == handling.update = u /\ handling.at = "enqueue"
Enqueued(u) == \E q \in chatJobs : q.update = u
Worked(u) == chatJob.update = u
Live(u) == Held(u) \/ Enqueued(u) \/ Worked(u)

ChatTypes ==
    /\ inbox \in Inboxes
    /\ arrived \in 0..Len(inbox.updates) /\ offset \in Nat /\ chatSpent \in Nat /\ restarts \in Nat
    /\ stored \subseteq 1..arrived
    /\ told \in [1..Len(inbox.updates) -> [Chat!Messages -> Nat]]
    /\ handling = Chat!Idle \/ handling \in [update : 1..arrived, at : IF Chat!Gateway THEN {"store", "enqueue"} ELSE PollerSteps]
    /\ IF Chat!Gateway THEN /\ chatJobs \subseteq [update : 1..arrived, attempt : Nat]
                            /\ chatJob = Chat!Free \/ chatJob \in [update : 1..arrived, at : JobSteps, attempt : Nat, context : Contexts]
       ELSE chatJobs = {} /\ chatJob = Chat!Free

\* What was fetched and not handled yet, and what comes after it.
Polled ==
    /\ unread \subseteq 1..arrived /\ batch \subseteq unread
    /\ offset <= arrived + 1 /\ \A k \in batch : offset <= k
    /\ \A k \in unread \ batch : \A b \in batch : offset <= k => b < k

\* The gateway has a message stored before, and works on one job for it.
OneJob(u) ==
    Chat!Gateway =>
        /\ Live(u) => u \in stored
        /\ ~(Held(u) /\ Enqueued(u)) /\ ~(Held(u) /\ Worked(u)) /\ ~(Enqueued(u) /\ Worked(u))
        /\ \A p, q \in chatJobs : p.update = u /\ q.update = u => p = q

\* What was answered and what may still be, by what has been paid for it.
Due(u) ==
    IF ~Chat!Gateway THEN (IF handling.update = u THEN 1 ELSE 0)
    ELSE IF Worked(u) /\ chatJob.at = "sorry" THEN 2 ELSE IF Live(u) THEN 1 ELSE 0
Begun(u) ==
    IF Chat!Gateway THEN (IF u \in stored THEN 1 ELSE 0)
    ELSE restarts + (IF u < offset THEN 1 ELSE 0)
Accounted(u) == Chat!Answers(u) + Due(u) <= Begun(u) + 2 * chatSpent

\* As long as nothing fails, what the offset has passed is answered or about to be.
Passed(u) == u <= arrived /\ (u \notin unread \/ u < offset)
Reached(u) ==
    chatSpent = 0 /\ Chat!Answered(u) =>
        /\ Passed(u) => Chat!Answers(u) > 0 \/ Chat!Underway(u)
        /\ Chat!Gateway /\ u \in stored => Chat!Answers(u) > 0 \/ Live(u)

Bare == inbox.catalogue = "none" \/ chatSpent > 0
Grounded ==
    /\ chatJob.at \in {"ask", "answer"} /\ chatJob.context = "none" => Bare
    /\ \A u \in DOMAIN told : told[u]["groundless"] > 0 => Bare

ChatInv ==
    /\ ChatTypes /\ Polled /\ Grounded
    /\ \A u \in 1..Len(inbox.updates) : OneJob(u) /\ Accounted(u) /\ Reached(u)

LEMMA InboxFacts ==
  ASSUME ChatTypes
  PROVE  /\ Len(inbox.updates) \in Nat /\ DOMAIN inbox.updates = 1..Len(inbox.updates)
         /\ inbox.mode \in {"poller", "gateway"} /\ inbox.catalogue \in {"matching", "other", "none"}
BY InboxAssumption DEF ChatTypes

\* Telling somebody something counts as an answer unless it is the first notice.
LEMMA TellCounts ==
  ASSUME ChatTypes, NEW v \in 1..Len(inbox.updates), NEW m \in Chat!Messages, Chat!Tell(v, m), inbox' = inbox
  PROVE  /\ told' \in [1..Len(inbox.updates) -> [Chat!Messages -> Nat]]
         /\ \A u \in 1..Len(inbox.updates) :
               /\ Chat!Answers(u) \in Nat
               /\ Chat!Answers(u)' = Chat!Answers(u) + (IF u = v /\ m # "wait" THEN 1 ELSE 0)
               /\ m # "groundless" => told'[u]["groundless"] = told[u]["groundless"]
               /\ u # v => told'[u] = told[u]
<1>1. /\ told \in [1..Len(inbox.updates) -> [Chat!Messages -> Nat]]
      /\ told' = [told EXCEPT ![v][m] = @ + 1]
      /\ Chat!Messages = {"answer", "groundless", "sorry", "off", "wait"}
  BY DEF ChatTypes, Chat!Tell, Chat!Messages, Chat!Finals
<1>2. /\ told[v] \in [Chat!Messages -> Nat] /\ told[v][m] + 1 \in Nat
      /\ told' = [told EXCEPT ![v] = [told[v] EXCEPT ![m] = told[v][m] + 1]]
  BY <1>1
<1>3. told' \in [1..Len(inbox.updates) -> [Chat!Messages -> Nat]]
  BY <1>1, <1>2
<1>4. \A u \in 1..Len(inbox.updates), n \in Chat!Messages :
         told'[u][n] = told[u][n] + (IF u = v /\ n = m THEN 1 ELSE 0)
  <2>1. told'[v] = [told[v] EXCEPT ![m] = told[v][m] + 1]
    BY <1>1, <1>2
  <2>2. \A n \in Chat!Messages : told'[v][n] = told[v][n] + (IF n = m THEN 1 ELSE 0)
    BY <2>1, <1>2, <1>1
  <2>3. \A u \in 1..Len(inbox.updates) : u # v => told'[u] = told[u]
    BY <1>1, <1>2
  <2>4. \A u \in 1..Len(inbox.updates), n \in Chat!Messages : told[u][n] \in Nat
    BY <1>1
  <2> QED
    BY <2>2, <2>3, <2>4
<1>5. ASSUME NEW u \in 1..Len(inbox.updates)
      PROVE  /\ Chat!Answers(u) \in Nat
             /\ Chat!Answers(u)' = Chat!Answers(u) + (IF u = v /\ m # "wait" THEN 1 ELSE 0)
             /\ m # "groundless" => told'[u]["groundless"] = told[u]["groundless"]
             /\ u # v => told'[u] = told[u]
  <2>1. told[u] \in [Chat!Messages -> Nat] /\ told'[u] \in [Chat!Messages -> Nat]
    BY <1>1, <1>3
  <2>2. \A n \in Chat!Messages : told[u][n] \in Nat /\ told'[u][n] = told[u][n] + (IF u = v /\ n = m THEN 1 ELSE 0)
    BY <2>1, <1>4
  <2>3. u # v => told'[u] = told[u]
    BY <1>2, <1>1
  <2> QED
    <3> DEFINE old(n) == told[u][n]
               new(n) == told'[u][n]
               more(n) == IF u = v /\ n = m THEN 1 ELSE 0
    <3>1. /\ old("answer") \in Nat /\ new("answer") = old("answer") + more("answer")
          /\ old("groundless") \in Nat /\ new("groundless") = old("groundless") + more("groundless")
          /\ old("sorry") \in Nat /\ new("sorry") = old("sorry") + more("sorry")
          /\ old("off") \in Nat /\ new("off") = old("off") + more("off")
      BY <2>2, <1>1
    <3>2. m \in {"answer", "groundless", "sorry", "off", "wait"}
      BY <1>1
    <3>3. Chat!Answers(u) = old("answer") + old("groundless") + old("sorry") + old("off")
      BY DEF Chat!Answers
    <3>4. Chat!Answers(u)' = new("answer") + new("groundless") + new("sorry") + new("off")
      BY DEF Chat!Answers
    <3>5. more("answer") + more("groundless") + more("sorry") + more("off") = IF u = v /\ m # "wait" THEN 1 ELSE 0
      BY <3>2
    <3>6. m # "groundless" => new("groundless") = old("groundless")
      BY <3>1
    <3>7. Chat!Answers(u) \in Nat /\ Chat!Answers(u)' = Chat!Answers(u) + (IF u = v /\ m # "wait" THEN 1 ELSE 0)
      <4>1. more("answer") \in Nat /\ more("groundless") \in Nat /\ more("sorry") \in Nat /\ more("off") \in Nat
        OBVIOUS
      <4> DEFINE one == IF u = v /\ m # "wait" THEN 1 ELSE 0
      <4>2. more("answer") + more("groundless") + more("sorry") + more("off") = one
        BY <3>5
      <4> HIDE DEF old, new, more, one
      <4>3. old("answer") + old("groundless") + old("sorry") + old("off") \in Nat
            /\ new("answer") + new("groundless") + new("sorry") + new("off")
               = old("answer") + old("groundless") + old("sorry") + old("off") + one
        <5>1. PICK a, b, c, d \in Nat : a = old("answer") /\ b = old("groundless") /\ c = old("sorry") /\ d = old("off")
          BY <3>1
        <5>2. PICK e, f, g, h \in Nat : e = more("answer") /\ f = more("groundless") /\ g = more("sorry") /\ h = more("off")
          BY <4>1
        <5>3. new("answer") = a + e /\ new("groundless") = b + f /\ new("sorry") = c + g /\ new("off") = d + h
          BY <3>1, <5>1, <5>2
        <5>4. e + f + g + h = one
          BY <4>2, <5>2
        <5>5. (a + e) + (b + f) + (c + g) + (d + h) = (a + b + c + d) + (e + f + g + h) /\ a + b + c + d \in Nat
          OBVIOUS
        <5> QED
          BY <5>1, <5>3, <5>4, <5>5
      <4>4. Chat!Answers(u) \in Nat /\ Chat!Answers(u)' = Chat!Answers(u) + one
        BY <3>3, <3>4, <4>3
      <4> QED
        BY <4>4 DEF one
    <3> QED
      BY <3>6, <3>7, <2>3
<1> QED
  BY <1>3, <1>5

LEMMA SameTold ==
  ASSUME ChatTypes, UNCHANGED <<told, inbox>>
  PROVE  /\ told' \in [1..Len(inbox.updates) -> [Chat!Messages -> Nat]]
         /\ \A u \in 1..Len(inbox.updates) : Chat!Answers(u) \in Nat /\ Chat!Answers(u)' = Chat!Answers(u)
<1>1. told \in [1..Len(inbox.updates) -> [Chat!Messages -> Nat]]
      /\ Chat!Messages = {"answer", "groundless", "sorry", "off", "wait"}
  BY DEF ChatTypes, Chat!Messages, Chat!Finals
<1> QED
  BY <1>1 DEF Chat!Answers

Tells(t, v) == \A u \in 1..Len(inbox.updates) :
    Chat!Answers(u) \in Nat /\ Chat!Answers(u)' = Chat!Answers(u) + (IF u = v THEN t ELSE 0)

\* What a worker's step may do to its job.
WorkerStep(t, s) ==
    /\ chatSpent' = chatSpent + s
    /\ Tells(t, chatJob.update)
    /\ \/ chatJob' = Chat!Free /\ chatJobs' = chatJobs /\ (s = 1 \/ t = 1 \/ ~Chat!Answered(chatJob.update))
       \/ /\ chatJob' = Chat!Free /\ t <= 2 * s + (IF chatJob.at = "sorry" THEN 1 ELSE 0)
          /\ \E n \in Nat : chatJobs' = chatJobs \union {[update |-> chatJob.update, attempt |-> n]}
       \/ /\ chatJob' \in [update : {chatJob.update}, at : JobSteps, attempt : Nat, context : Contexts]
          /\ chatJobs' = chatJobs /\ t <= s /\ (chatJob'.at = "sorry" => chatJob.at = "sorry" \/ s = 1)

LEMMA WorkerMoves ==
  ASSUME ChatInv, chatJob # Chat!Free, UNCHANGED <<inbox, arrived, unread, offset, batch, handling, stored, restarts>>,
         NEW t \in {0, 1}, NEW s \in {0, 1}, WorkerStep(t, s), Grounded',
         told' \in [1..Len(inbox.updates) -> [Chat!Messages -> Nat]]
  PROVE  ChatInv'
<1> DEFINE v == chatJob.update
<1>1. Chat!Gateway /\ chatJob \in [update : 1..arrived, at : JobSteps, attempt : Nat, context : Contexts]
      /\ chatJobs \subseteq [update : 1..arrived, attempt : Nat] /\ v \in 1..arrived
      /\ arrived \in Nat /\ chatSpent \in Nat
  BY InboxFacts DEF ChatInv, ChatTypes
<1>2. ChatTypes'
  <2>1. chatJobs' \subseteq [update : 1..arrived, attempt : Nat]
    BY <1>1 DEF WorkerStep
  <2>2. chatJob' = Chat!Free \/ chatJob' \in [update : 1..arrived, at : JobSteps, attempt : Nat, context : Contexts]
    BY <1>1 DEF WorkerStep
  <2>3. chatSpent' \in Nat
    BY <1>1 DEF WorkerStep
  <2> QED
    BY <2>1, <2>2, <2>3, <1>1 DEF ChatInv, ChatTypes, Chat!Gateway, Chat!Idle, Chat!Free
<1>3. Polled'
  BY DEF ChatInv, Polled
<1>4. ASSUME NEW u \in 1..Len(inbox.updates)
      PROVE  OneJob(u)' /\ Accounted(u)' /\ Reached(u)'
  <2>0. OneJob(u) /\ Accounted(u) /\ Reached(u) /\ u # 0 /\ Chat!Gateway' /\ Begun(u)' = Begun(u)
    BY <1>4, InboxFacts, <1>1 DEF ChatInv, Chat!Gateway, Begun
  <2>00. /\ Chat!Answers(u) \in Nat
         /\ Chat!Answers(u)' = Chat!Answers(u) + (IF u = v THEN t ELSE 0)
         /\ chatSpent' = chatSpent + s /\ Begun(u) \in {0, 1}
    BY <1>1, <1>4 DEF WorkerStep, Tells, Begun
  <2>01. Held(u)' = Held(u) /\ Chat!Answered(u)' = Chat!Answered(u) /\ Passed(u)' = Passed(u)
    BY DEF Held, Chat!Answered, Chat!Kind, Chat!Gateway, Passed
  <2>1. CASE u # v
    <3>1. Enqueued(u)' = Enqueued(u) /\ ~Worked(u) /\ ~Worked(u)'
          /\ \A q \in chatJobs' : q.update = u => q \in chatJobs
      <4>1. chatJob'.update \in {v, 0}
        <5>1. Chat!Free.update = 0
          BY DEF Chat!Free
        <5> QED
          BY <5>1 DEF WorkerStep
      <4>2. chatJobs \subseteq chatJobs' /\ \A q \in chatJobs' \ chatJobs : q.update = v
        BY DEF WorkerStep
      <4> QED
        BY <4>1, <4>2, <2>0, <2>1 DEF Enqueued, Worked
    <3>2. OneJob(u)' /\ Due(u)' = Due(u)
      BY <3>1, <2>01, <2>0, <1>1 DEF OneJob, Live, Due
    <3>3. Live(u)' = Live(u) /\ Chat!Underway(u)' = Chat!Underway(u)
      BY <3>1, <2>01, <2>0 DEF Live, Chat!Underway, Enqueued, Worked
    <3>4. Accounted(u)'
      <4>1. Due(u) \in Nat
        BY DEF Due
      <4> QED
      BY <3>2, <2>0, <2>00, <2>1, <1>1, <4>1 DEF Accounted
    <3>5. Reached(u)'
      BY <3>3, <2>0, <2>00, <2>01, <2>1, <1>1 DEF Reached
    <3> QED
      BY <3>2, <3>4, <3>5
  <2>2. CASE u = v
    <3>1. Worked(u) /\ ~Held(u) /\ ~Enqueued(u) /\ u \in stored /\ Due(u) = (IF chatJob.at = "sorry" THEN 2 ELSE 1)
      BY <2>0, <2>2, <1>1 DEF OneJob, Live, Worked, Due
    <3>2. CASE chatJob' = Chat!Free /\ chatJobs' = chatJobs /\ (s = 1 \/ t = 1 \/ ~Chat!Answered(v))
      <4>1. ~Worked(u)' /\ ~Enqueued(u)' /\ ~Live(u)' /\ Due(u)' = 0
        BY <3>1, <3>2, <2>0, <2>01 DEF Worked, Enqueued, Live, Due, Chat!Free
      <4>2. OneJob(u)'
        BY <4>1, <3>1, <3>2, <2>01 DEF OneJob, Enqueued
      <4>3. Accounted(u)'
        BY <4>1, <3>1, <2>0, <2>00, <2>2, <1>1 DEF Accounted
      <4>4. Reached(u)'
        BY <3>2, <2>0, <2>00, <2>01, <2>2, <1>1 DEF Reached
      <4> QED
        BY <4>2, <4>3, <4>4
    <3>3. CASE chatJob' = Chat!Free /\ t <= 2 * s + (IF chatJob.at = "sorry" THEN 1 ELSE 0)
               /\ \E n \in Nat : chatJobs' = chatJobs \union {[update |-> chatJob.update, attempt |-> n]}
      <4>0. PICK n \in Nat : chatJobs' = chatJobs \union {[update |-> v, attempt |-> n]}
        BY <3>3
      <4>1. ~Worked(u)' /\ Enqueued(u)' /\ Live(u)' /\ Due(u)' = 1
        <5>1. chatJob'.update = 0 /\ [update |-> v, attempt |-> n] \in chatJobs' /\ [update |-> v, attempt |-> n].update = v
          BY <3>3, <4>0 DEF Chat!Free
        <5>2. ~Worked(u)' /\ Enqueued(u)'
          BY <5>1, <2>0, <2>2 DEF Worked, Enqueued
        <5> QED
          BY <5>2, <2>0 DEF Live, Due
      <4>2. OneJob(u)'
        BY <4>0, <4>1, <3>1, <2>01 DEF OneJob, Enqueued
      <4>3. Accounted(u)'
        BY <4>1, <3>1, <3>3, <2>0, <2>00, <2>2, <1>1 DEF Accounted
      <4>4. Reached(u)'
        BY <4>1 DEF Reached, Live, Enqueued, Chat!Underway, Held, Worked
      <4> QED
        BY <4>2, <4>3, <4>4
    <3>4. CASE chatJob' \in [update : {v}, at : JobSteps, attempt : Nat, context : Contexts]
               /\ chatJobs' = chatJobs /\ t <= s /\ (chatJob'.at = "sorry" => chatJob.at = "sorry" \/ s = 1)
      <4>1. Worked(u)' /\ ~Enqueued(u)' /\ Live(u)' /\ Due(u)' = IF chatJob'.at = "sorry" THEN 2 ELSE 1
        BY <3>1, <3>4, <2>0, <2>01, <2>2 DEF Worked, Enqueued, Live, Due
      <4>2. OneJob(u)'
        BY <4>1, <3>1, <3>4, <2>01 DEF OneJob, Enqueued
      <4>3. Accounted(u)'
        BY <4>1, <3>1, <3>4, <2>0, <2>00, <2>2, <1>1 DEF Accounted
      <4>4. Reached(u)'
        BY <4>1 DEF Reached, Live, Enqueued, Chat!Underway, Held, Worked
      <4> QED
        BY <4>2, <4>3, <4>4
    <3> QED
      BY <3>2, <3>3, <3>4 DEF WorkerStep
  <2> QED
    BY <2>1, <2>2
<1> QED
  BY <1>2, <1>3, <1>4 DEF ChatInv

\* What a step of telegram-poller.ts may do to the update it handles.
PollerStep(t, s) ==
    /\ chatSpent' = chatSpent + s
    /\ Tells(t, handling.update)
    /\ \/ handling' = Chat!Idle /\ (s = 1 \/ t = 1)
       \/ handling' \in [update : {handling.update}, at : PollerSteps] /\ t <= s

LEMMA PollerMoves ==
  ASSUME ChatInv, handling # Chat!Idle, handling.at \in PollerSteps,
         UNCHANGED <<inbox, arrived, unread, offset, batch, stored, chatJobs, chatJob, restarts>>,
         NEW t \in {0, 1}, NEW s \in {0, 1}, PollerStep(t, s), Grounded',
         told' \in [1..Len(inbox.updates) -> [Chat!Messages -> Nat]]
  PROVE  ChatInv'
<1> DEFINE v == handling.update
<1>1. ~Chat!Gateway /\ v \in 1..arrived /\ arrived \in Nat /\ chatSpent \in Nat /\ restarts \in Nat
  BY InboxFacts DEF ChatInv, ChatTypes, PollerSteps
<1>2. ChatTypes'
  <2>1. handling' = Chat!Idle \/ handling' \in [update : 1..arrived, at : PollerSteps]
    BY <1>1 DEF PollerStep
  <2>2. chatSpent' \in Nat
    BY <1>1 DEF PollerStep
  <2> QED
    BY <2>1, <2>2, <1>1 DEF ChatInv, ChatTypes, Chat!Gateway, Chat!Idle, Chat!Free
<1>3. Polled'
  BY DEF ChatInv, Polled
<1>4. ASSUME NEW u \in 1..Len(inbox.updates)
      PROVE  OneJob(u)' /\ Accounted(u)' /\ Reached(u)'
  <2>0. Accounted(u) /\ Reached(u) /\ u # 0 /\ ~Chat!Gateway' /\ Begun(u)' = Begun(u) /\ Begun(u) \in Nat
    BY <1>4, InboxFacts, <1>1 DEF ChatInv, Chat!Gateway, Begun
  <2>1. /\ Chat!Answers(u) \in Nat
        /\ Chat!Answers(u)' = Chat!Answers(u) + (IF u = v THEN t ELSE 0)
        /\ chatSpent' = chatSpent + s
    BY <1>4 DEF PollerStep, Tells
  <2>2. Chat!Answered(u)' = Chat!Answered(u) /\ Passed(u)' = Passed(u)
    BY DEF Chat!Answered, Chat!Kind, Chat!Gateway, Passed
  <2>3. OneJob(u)'
    BY <2>0 DEF OneJob
  <2>4. CASE u # v
    <3>1. handling'.update # u
      BY <2>0, <2>4 DEF PollerStep, Chat!Idle
    <3>2. Accounted(u)'
      BY <3>1, <2>4, <2>0, <2>1, <1>1 DEF Accounted, Due
    <3>3. Chat!Underway(u)' = Chat!Underway(u)
      BY <3>1, <2>4 DEF Chat!Underway
    <3>4. Reached(u)'
      BY <3>3, <2>0, <2>1, <2>2, <2>4, <1>1 DEF Reached
    <3> QED
      BY <2>3, <3>2, <3>4
  <2>5. CASE u = v
    <3>1. CASE handling' = Chat!Idle /\ (s = 1 \/ t = 1)
      <4>1. handling'.update # u
        BY <2>0, <3>1 DEF Chat!Idle
      <4>2. Accounted(u)'
        BY <4>1, <2>5, <2>0, <2>1, <1>1 DEF Accounted, Due
      <4>3. Reached(u)'
        BY <3>1, <2>0, <2>1, <2>5, <1>1 DEF Reached
      <4> QED
        BY <2>3, <4>2, <4>3
    <3>2. CASE handling' \in [update : {v}, at : PollerSteps] /\ t <= s
      <4>1. handling'.update = u
        BY <3>2, <2>5
      <4>2. Accounted(u)'
        BY <4>1, <3>2, <2>5, <2>0, <2>1, <1>1 DEF Accounted, Due
      <4>3. Reached(u)'
        BY <4>1, <2>0 DEF Reached, Chat!Underway
      <4> QED
        BY <2>3, <4>2, <4>3
    <3> QED
      BY <3>1, <3>2 DEF PollerStep
  <2> QED
    BY <2>4, <2>5
<1> QED
  BY <1>2, <1>3, <1>4 DEF ChatInv

\* What a step of a loop does to an update: a new look at it is paid for.
LoopStep(u) ==
    /\ ~Chat!Gateway => (IF handling'.update = u THEN 1 ELSE 0) + Begun(u) + 2 * chatSpent
                          <= (IF handling.update = u THEN 1 ELSE 0) + Begun(u)' + 2 * chatSpent'
    /\ chatSpent' = 0 => /\ handling.update = u => handling'.update = u
                         /\ Held(u) => Held(u)'
                         /\ Chat!Answered(u) /\ Passed(u)' => Passed(u) \/ handling'.update = u

LoopTakes(s, r) ==
    /\ arrived' \in arrived..Len(inbox.updates) /\ offset' \in Nat
    /\ restarts' = restarts + r /\ chatSpent' = chatSpent + s
    /\ \/ handling' = Chat!Idle \/ handling' = handling
       \/ handling' \in [update : 1..arrived, at : IF Chat!Gateway THEN {"store"} ELSE PollerSteps]

\* The steps of the loops leave what was said, stored and enqueued alone.
LEMMA LoopMoves ==
  ASSUME ChatInv, UNCHANGED <<inbox, stored, chatJobs, chatJob, told>>, Polled',
         NEW s \in {0, 1}, NEW r \in {0, 1}, LoopTakes(s, r),
         \A u \in 1..Len(inbox.updates) : LoopStep(u)
  PROVE  ChatInv'
<1>0. /\ chatSpent \in Nat /\ restarts \in Nat
      /\ chatSpent' = chatSpent + s /\ restarts' = restarts + r
  BY DEF ChatInv, ChatTypes, LoopTakes
<1>1. (Chat!Gateway' <=> Chat!Gateway) /\ arrived \in Nat /\ arrived' \in Nat /\ arrived <= arrived' /\ chatSpent \in Nat
      /\ offset' \in Nat /\ arrived' \in 0..Len(inbox.updates)
  BY InboxFacts DEF ChatInv, ChatTypes, Chat!Gateway, LoopTakes
<1>2. ChatTypes'
  <2>1. 1..arrived \subseteq 1..arrived'
    BY <1>1
  <2>2. /\ stored' \subseteq 1..arrived' /\ arrived' \in 0..Len(inbox.updates)
        /\ chatSpent' \in Nat /\ restarts' \in Nat
    BY <2>1, <1>0, <1>1, InboxFacts DEF ChatInv, ChatTypes
  <2>3. handling' = Chat!Idle \/ handling' \in [update : 1..arrived', at : IF Chat!Gateway THEN {"store", "enqueue"} ELSE PollerSteps]
    BY <2>1 DEF ChatInv, ChatTypes, LoopTakes
  <2>4. CASE Chat!Gateway
    <3>1. chatJobs' \subseteq [update : 1..arrived', attempt : Nat]
      BY <2>1, <2>4 DEF ChatInv, ChatTypes
    <3>2. chatJob' = Chat!Free \/ chatJob' \in [update : 1..arrived', at : JobSteps, attempt : Nat, context : Contexts]
      BY <2>1, <2>4 DEF ChatInv, ChatTypes
    <3> QED
      BY <3>1, <3>2, <2>2, <2>3, <2>4, <1>1 DEF ChatInv, ChatTypes, Chat!Idle, Chat!Free
  <2>5. CASE ~Chat!Gateway
    BY <2>2, <2>3, <2>5, <1>1 DEF ChatInv, ChatTypes, Chat!Idle, Chat!Free
  <2> QED
    BY <2>4, <2>5
<1>3. Grounded'
  BY <1>0 DEF ChatInv, Grounded, Bare
<1>4. ASSUME NEW u \in 1..Len(inbox.updates)
      PROVE  OneJob(u)' /\ Accounted(u)' /\ Reached(u)'
  <2>0. OneJob(u) /\ Accounted(u) /\ Reached(u) /\ u # 0
    BY <1>4, InboxFacts DEF ChatInv
  <2>1. Chat!Answers(u) \in Nat /\ Chat!Answers(u)' = Chat!Answers(u)
    BY SameTold DEF ChatInv
  <2>2. Enqueued(u)' = Enqueued(u) /\ Worked(u)' = Worked(u) /\ (Held(u)' => Held(u) \/ ~Chat!Gateway)
    BY <2>0 DEF Enqueued, Worked, Held, Chat!Idle, LoopTakes
  <2>3. OneJob(u)'
    BY <2>2, <2>0, <1>1 DEF OneJob, Live
  <2>4. Accounted(u)'
    <3>1. CASE Chat!Gateway
      <4>1. Due(u)' <= Due(u) /\ Begun(u)' = Begun(u) /\ Due(u)' \in Nat /\ Due(u) \in Nat /\ Begun(u) \in Nat
        <5>1. Live(u)' => Live(u)
          BY <3>1, <2>2 DEF Live
        <5>2. (Worked(u) /\ chatJob.at = "sorry")' <=> (Worked(u) /\ chatJob.at = "sorry")
          BY <2>2
        <5>3. Worked(u) => Live(u)
          BY DEF Live
        <5> QED
          BY <5>1, <5>2, <5>3, <3>1, <1>1 DEF Due, Begun
      <4> QED
        BY <4>1, <2>0, <2>1, <1>0 DEF Accounted
    <3>2. CASE ~Chat!Gateway
      <4>1. /\ Due(u) = (IF handling.update = u THEN 1 ELSE 0)
            /\ Due(u)' = (IF handling'.update = u THEN 1 ELSE 0)
        BY <3>2, <1>1 DEF Due
      <4>12. Begun(u) \in Nat /\ Begun(u)' \in Nat
        <5>1. Begun(u) = restarts + (IF u < offset THEN 1 ELSE 0)
          BY <3>2 DEF Begun
        <5>2. Begun(u)' = restarts' + (IF u < offset' THEN 1 ELSE 0)
          BY <3>2, <1>1 DEF Begun
        <5> QED
          BY <5>1, <5>2, <1>0
      <4>2. Due(u)' + Begun(u) + 2 * chatSpent <= Due(u) + Begun(u)' + 2 * chatSpent'
        BY <4>1, <3>2, <1>4 DEF LoopStep
      <4>3. Due(u) \in Nat /\ Due(u)' \in Nat
        BY <4>1
      <4> QED
        <5>1. PICK a, b, c, d, e \in Nat : a = Due(u) /\ b = Due(u)' /\ c = Begun(u) /\ d = Begun(u)' /\ e = Chat!Answers(u)
          BY <4>12, <4>3, <2>1
        <5>2. b + c + 2 * chatSpent <= a + d + 2 * chatSpent' /\ e + a <= c + 2 * chatSpent
          BY <5>1, <4>2, <2>0 DEF Accounted
        <5>3. e + b <= d + 2 * chatSpent'
          BY <5>2, <1>0
        <5> QED
          BY <5>1, <5>3, <2>1 DEF Accounted
    <3> QED
      BY <3>1, <3>2
  <2>5. Reached(u)'
    <3> SUFFICES ASSUME chatSpent' = 0, Chat!Answered(u)'
                 PROVE  /\ Passed(u)' => Chat!Answers(u)' > 0 \/ Chat!Underway(u)'
                        /\ Chat!Gateway' /\ u \in stored' => Chat!Answers(u)' > 0 \/ Live(u)'
      BY DEF Reached
    <3>1. chatSpent = 0 /\ Chat!Answered(u)
      BY <1>0 DEF Chat!Answered, Chat!Kind, Chat!Gateway
    <3>2. Chat!Underway(u) => Chat!Underway(u)'
      BY <1>4 DEF Chat!Underway, LoopStep
    <3>3. Live(u) => Live(u)'
      BY <2>2, <1>4 DEF Live, LoopStep
    <3>4. Passed(u)' => Passed(u) \/ Chat!Underway(u)'
      BY <3>1, <1>4 DEF Chat!Underway, LoopStep
    <3> QED
      BY <3>1, <3>2, <3>3, <3>4, <2>0, <2>1, <1>1 DEF Reached
  <2> QED
    BY <2>3, <2>4, <2>5
<1> QED
  BY <1>2, <1>3, <1>4 DEF ChatInv

\* What the loops know of each update.
LEMMA LoopFacts ==
  ASSUME ChatInv
  PROVE  /\ arrived \in 0..Len(inbox.updates) /\ arrived \in Nat /\ offset \in Nat /\ Len(inbox.updates) \in Nat
         /\ offset <= arrived + 1
         /\ unread \subseteq 1..arrived /\ batch \subseteq unread
         /\ handling = Chat!Idle \/ handling.update \in 1..arrived
BY InboxFacts DEF ChatInv, ChatTypes, Polled

LEMMA ArrivalsMove ==
  ASSUME ChatInv, Chat!Arrive
  PROVE  ChatInv'
<1>1. /\ arrived < Len(inbox.updates) /\ arrived' = arrived + 1 /\ unread' = unread \union {arrived + 1}
      /\ UNCHANGED <<inbox, offset, batch, handling, stored, chatJobs, chatJob, told, chatSpent, restarts>>
  BY DEF Chat!Arrive, Chat!poller, Chat!worker
<1>2. Polled'
  <2>1. unread' \subseteq 1..arrived' /\ batch' \subseteq unread' /\ offset' <= arrived' + 1
    BY <1>1, LoopFacts
  <2>2. \A k \in batch' : offset' <= k
    BY <1>1 DEF ChatInv, Polled
  <2>3. ASSUME NEW k \in unread' \ batch', NEW b \in batch', offset' <= k
        PROVE  b < k
    <3>1. b \in 1..arrived
      BY <1>1, LoopFacts
    <3>2. k \in unread => b < k
      BY <1>1, <2>3 DEF ChatInv, Polled
    <3> QED
      BY <1>1, <3>1, <3>2, <2>3, LoopFacts
  <2> QED
    BY <2>1, <2>2, <2>3 DEF Polled
<1>3. LoopTakes(0, 0)
  BY <1>1, LoopFacts DEF LoopTakes, ChatInv, ChatTypes
<1>4. ASSUME NEW u \in 1..Len(inbox.updates)
      PROVE  LoopStep(u)
  <2>1. Begun(u)' = Begun(u) /\ Held(u)' = Held(u)
    BY <1>1 DEF Begun, Held, Chat!Gateway
  <2>2. Passed(u)' => Passed(u)
    BY <1>1, LoopFacts DEF Passed
  <2>3. Begun(u) \in Nat /\ chatSpent \in Nat
    BY <1>4 DEF Begun, ChatInv, ChatTypes
  <2> QED
    BY <1>1, <2>1, <2>2, <2>3 DEF LoopStep
<1> QED
  BY <1>1, <1>2, <1>3, <1>4, LoopMoves

LEMMA FetchesMove ==
  ASSUME ChatInv, Chat!GetUpdates \/ Chat!GetUpdatesFails
  PROVE  ChatInv'
<1>1. /\ batch = {} /\ handling = Chat!Idle
      /\ unread' \in {unread, Chat!Unconfirmed} /\ Chat!Unconfirmed = {u \in unread : u >= offset}
      /\ UNCHANGED <<inbox, arrived, offset, handling, stored, chatJobs, chatJob, told, restarts>>
      /\ \/ batch' = unread' /\ unread' = Chat!Unconfirmed /\ chatSpent' = chatSpent + 0
         \/ batch' = batch /\ chatSpent' = chatSpent + 1
  <2>1. chatSpent \in Nat
    BY DEF ChatInv, ChatTypes
  <2> QED
    BY <2>1 DEF Chat!GetUpdates, Chat!GetUpdatesFails, Chat!Asking, Chat!Unconfirmed, Chat!Spend, Chat!poller, Chat!worker
<1>2. Polled'
  BY <1>1, LoopFacts DEF ChatInv, Polled
<1>3. PICK s \in {0, 1} : chatSpent' = chatSpent + s
  BY <1>1
<1>4. LoopTakes(s, 0)
  <2>1. restarts' = restarts + 0
    BY <1>1 DEF ChatInv, ChatTypes
  <2> QED
    BY <1>1, <1>3, <2>1, LoopFacts DEF LoopTakes
<1>5. ASSUME NEW u \in 1..Len(inbox.updates)
      PROVE  LoopStep(u)
  <2>1. Begun(u)' = Begun(u) /\ Held(u)' = Held(u)
    BY <1>1 DEF Begun, Held, Chat!Gateway
  <2>2. Passed(u)' => Passed(u)
    BY <1>1, <1>5, LoopFacts DEF Passed
  <2>3. Begun(u) \in Nat /\ chatSpent \in Nat
    BY <1>5 DEF Begun, ChatInv, ChatTypes
  <2> QED
    BY <1>1, <1>3, <2>1, <2>2, <2>3 DEF LoopStep
<1> QED
  BY <1>1, <1>2, <1>4, <1>5, LoopMoves

LEMMA TakesMove ==
  ASSUME ChatInv, Chat!Take
  PROVE  ChatInv'
<1>1. PICK v \in batch :
         /\ handling = Chat!Idle /\ \A k \in batch : v <= k
         /\ offset' = v + 1 /\ batch' = batch \ {v}
         /\ handling' = IF Chat!Kind(v) = "invalid" THEN Chat!Idle
                        ELSE [update |-> v, at |-> IF Chat!Gateway THEN "store" ELSE Chat!FirstStep(Chat!Kind(v))]
         /\ UNCHANGED <<inbox, arrived, unread, stored, chatJobs, chatJob, told, chatSpent, restarts>>
  BY DEF Chat!Take, Chat!NextOffset, Chat!worker
<1>2. v \in 1..arrived /\ v \in unread /\ offset <= v
  BY LoopFacts DEF ChatInv, Polled
<1>3. Polled'
  BY <1>1, <1>2, LoopFacts DEF ChatInv, Polled
<1>4. LoopTakes(0, 0)
  <2>1. restarts' = restarts + 0 /\ chatSpent' = chatSpent + 0
    BY <1>1 DEF ChatInv, ChatTypes
  <2>2. Chat!FirstStep(Chat!Kind(v)) \in PollerSteps
    BY DEF Chat!FirstStep, PollerSteps
  <2>3. handling' = Chat!Idle
        \/ handling' \in [update : 1..arrived, at : IF Chat!Gateway THEN {"store"} ELSE PollerSteps]
    BY <1>1, <1>2, <2>2
  <2> QED
    BY <1>1, <1>2, <2>1, <2>3, LoopFacts DEF LoopTakes
<1>5. ASSUME NEW u \in 1..Len(inbox.updates)
      PROVE  LoopStep(u)
  <2>1. handling.update # u /\ ~Held(u)
    BY <1>1 DEF Held, Chat!Idle
  <2>2. handling'.update = u => u = v
    BY <1>1 DEF Chat!Idle
  <2>3. restarts \in Nat /\ chatSpent \in Nat /\ offset \in Nat
    BY DEF ChatInv, ChatTypes
  <2>4. ~Chat!Gateway => (IF handling'.update = u THEN 1 ELSE 0) + Begun(u) + 2 * chatSpent
                          <= (IF handling.update = u THEN 1 ELSE 0) + Begun(u)' + 2 * chatSpent'
    <3> SUFFICES ASSUME ~Chat!Gateway
                 PROVE  (IF handling'.update = u THEN 1 ELSE 0) + Begun(u) + 2 * chatSpent
                          <= (IF handling.update = u THEN 1 ELSE 0) + Begun(u)' + 2 * chatSpent'
      OBVIOUS
    <3>1. Begun(u) = restarts + (IF u < offset THEN 1 ELSE 0)
      BY DEF Begun
    <3>2. Begun(u)' = restarts + (IF u < v + 1 THEN 1 ELSE 0)
      BY <1>1 DEF Begun, Chat!Gateway
    <3>3. (IF handling'.update = u THEN 1 ELSE 0) + (IF u < offset THEN 1 ELSE 0) <= (IF u < v + 1 THEN 1 ELSE 0)
      BY <1>2, <2>2, <2>3
    <3>4. PICK a, b, c \in {0, 1} : /\ a = (IF handling'.update = u THEN 1 ELSE 0)
                                    /\ b = (IF u < offset THEN 1 ELSE 0) /\ c = (IF u < v + 1 THEN 1 ELSE 0)
      OBVIOUS
    <3>5. a + (restarts + b) + 2 * chatSpent <= 0 + (restarts + c) + 2 * chatSpent
      BY <3>3, <3>4, <2>3
    <3> QED
      BY <3>1, <3>2, <3>4, <3>5, <2>1, <1>1
  <2>5. Chat!Answered(u) /\ Passed(u)' => Passed(u) \/ handling'.update = u
    <3> SUFFICES ASSUME Chat!Answered(u), u <= arrived, u \notin unread \/ u < v + 1, ~Passed(u)
                 PROVE  handling'.update = u
      BY <1>1 DEF Passed
    <3>1. u \in unread /\ offset <= u /\ u <= v
      BY <1>2, <2>3, LoopFacts DEF Passed
    <3>2. u = v
      BY <1>1, <1>2, <3>1, LoopFacts DEF ChatInv, Polled
    <3> QED
      BY <1>1, <3>2 DEF Chat!Answered
  <2> QED
    BY <2>1, <2>4, <2>5 DEF LoopStep
<1> QED
  BY <1>1, <1>3, <1>4, <1>5, LoopMoves

\* The offset goes back to nothing: what is taken again costs a restart or a fault.
LEMMA RestartsMove ==
  ASSUME ChatInv, Chat!Restart \/ Chat!Crash
  PROVE  ChatInv'
<1>0. restarts \in Nat /\ chatSpent \in Nat /\ offset \in Nat
  BY DEF ChatInv, ChatTypes
<1>1. PICK s, r \in {0, 1} :
         /\ offset' = 0 /\ batch' = {} /\ handling' = Chat!Idle
         /\ UNCHANGED <<inbox, arrived, unread, stored, chatJobs, chatJob, told>>
         /\ chatSpent' = chatSpent + s /\ restarts' = restarts + r
         /\ \/ s = 0 /\ r = 1 /\ handling = Chat!Idle
            \/ s = 1 /\ r = 0
  <2>1. CASE Chat!Restart
    <3>1. /\ offset' = 0 /\ batch' = {} /\ handling' = Chat!Idle /\ handling = Chat!Idle
          /\ UNCHANGED <<inbox, arrived, unread, stored, chatJobs, chatJob, told>>
          /\ chatSpent' = chatSpent + 0 /\ restarts' = restarts + 1
      BY <1>0, <2>1 DEF Chat!Restart, Chat!worker
    <3> QED
      BY <3>1
  <2>2. CASE Chat!Crash
    <3>1. /\ offset' = 0 /\ batch' = {} /\ handling' = Chat!Idle
          /\ UNCHANGED <<inbox, arrived, unread, stored, chatJobs, chatJob, told>>
          /\ chatSpent' = chatSpent + 1 /\ restarts' = restarts + 0
      BY <1>0, <2>2 DEF Chat!Crash, Chat!worker, Chat!Spend
    <3> QED
      BY <3>1
  <2> QED
    BY <2>1, <2>2
<1>2. Polled'
  BY <1>1, LoopFacts DEF ChatInv, Polled
<1>3. LoopTakes(s, r)
  BY <1>1, LoopFacts DEF LoopTakes
<1>4. ASSUME NEW u \in 1..Len(inbox.updates)
      PROVE  LoopStep(u)
  <2>1. ~Chat!Gateway => (IF handling'.update = u THEN 1 ELSE 0) + Begun(u) + 2 * chatSpent
                          <= (IF handling.update = u THEN 1 ELSE 0) + Begun(u)' + 2 * chatSpent'
    <3> SUFFICES ASSUME ~Chat!Gateway
                 PROVE  (IF handling'.update = u THEN 1 ELSE 0) + Begun(u) + 2 * chatSpent
                          <= (IF handling.update = u THEN 1 ELSE 0) + Begun(u)' + 2 * chatSpent'
      OBVIOUS
    <3>1. Begun(u) = restarts + (IF u < offset THEN 1 ELSE 0)
      BY DEF Begun
    <3>2. Begun(u)' = restarts + r
      BY <1>1, <1>0 DEF Begun, Chat!Gateway
    <3>3. handling'.update # u
      BY <1>1 DEF Chat!Idle
    <3>4. PICK a, b \in {0, 1} : a = (IF handling.update = u THEN 1 ELSE 0) /\ b = (IF u < offset THEN 1 ELSE 0)
      OBVIOUS
    <3>5. 0 + (restarts + b) + 2 * chatSpent <= a + (restarts + r) + 2 * (chatSpent + s)
      BY <1>0, <1>1
    <3> QED
      BY <3>1, <3>2, <3>3, <3>4, <3>5, <1>1
  <2>2. chatSpent' = 0 => s = 0 /\ handling = Chat!Idle
    BY <1>0, <1>1
  <2>3. Passed(u)' => Passed(u)
    BY <1>1 DEF Passed
  <2> QED
    BY <1>1, <2>1, <2>2, <2>3 DEF LoopStep, Held, Chat!Idle
<1> QED
  BY <1>1, <1>2, <1>3, <1>4, LoopMoves

\* An answer without the shop's products is given only when there are none.
LEMMA StillGrounded ==
  ASSUME ChatInv, inbox' = inbox, chatSpent' \in {chatSpent, chatSpent + 1}, DOMAIN told' = DOMAIN told,
         \A u \in DOMAIN told : told'[u]["groundless"] = told[u]["groundless"] \/ Bare,
         chatJob' = chatJob \/ ~(chatJob'.at \in {"ask", "answer"} /\ chatJob'.context = "none") \/ Bare \/ chatSpent' = chatSpent + 1
  PROVE  Grounded'
<1>1. chatSpent \in Nat
  BY DEF ChatInv, ChatTypes
<1>2. Bare => Bare'
  BY <1>1 DEF Bare
<1>3. chatSpent' = chatSpent + 1 => Bare'
  BY <1>1 DEF Bare
<1> QED
  BY <1>2, <1>3 DEF ChatInv, Grounded

LEMMA PollerSpeaks ==
  ASSUME ChatInv, Chat!SendMessage \/ Chat!SendMessageFails
  PROVE  ChatInv'
<1> DEFINE v == handling.update
           m == Chat!Sends[handling.at]
<1>1. /\ handling.at \in {"wait", "reply", "apologise", "sorry"} /\ handling.at \in PollerSteps
      /\ m = IF handling.at = "wait" THEN "wait" ELSE IF handling.at = "reply" THEN "answer" ELSE "sorry"
      /\ UNCHANGED <<inbox, arrived, unread, offset, batch, stored, chatJobs, chatJob, restarts>>
      /\ chatSpent \in Nat
  BY DEF Chat!SendMessage, Chat!SendMessageFails, Chat!Sends, Chat!poller, Chat!worker, PollerSteps, ChatInv, ChatTypes
<1>2. handling # Chat!Idle /\ v \in 1..arrived /\ v \in 1..Len(inbox.updates)
  BY <1>1, LoopFacts DEF Chat!Idle
<1>3. PICK t \in {0, 1} :
         /\ Tells(t, v)
         /\ told' \in [1..Len(inbox.updates) -> [Chat!Messages -> Nat]]
         /\ \A u \in DOMAIN told : told'[u]["groundless"] = told[u]["groundless"]
         /\ t = 1 => m # "wait"
         /\ Chat!Tell(v, m) /\ m # "wait" => t = 1
  <2>1. CASE Chat!Tell(v, m)
    <3>1. m \in Chat!Messages /\ m # "groundless"
      BY <1>1 DEF Chat!Messages, Chat!Finals
    <3>2. PICK t \in {0, 1} : t = IF m # "wait" THEN 1 ELSE 0
      OBVIOUS
    <3>3. Tells(t, v)
      BY <1>1, <1>2, <2>1, <3>1, <3>2, TellCounts DEF ChatInv, Tells
    <3>4. DOMAIN told = 1..Len(inbox.updates)
      BY DEF ChatInv, ChatTypes
    <3> QED
      BY <1>1, <1>2, <2>1, <3>1, <3>2, <3>3, <3>4, TellCounts DEF ChatInv
  <2>2. CASE ~Chat!Tell(v, m)
    <3>1. told' = told
      BY <2>2 DEF Chat!SendMessage, Chat!SendMessageFails
    <3>2. Tells(0, v)
      BY <1>1, <3>1, SameTold DEF ChatInv, Tells
    <3> QED
      BY <1>1, <2>2, <3>1, <3>2, SameTold DEF ChatInv
  <2> QED
    BY <2>1, <2>2
<1>4. PICK s \in {0, 1} : PollerStep(t, s)
  <2>1. CASE Chat!SendMessage
    <3>1. chatSpent' = chatSpent + 0 /\ Chat!Tell(v, m)
      BY <1>1, <2>1 DEF Chat!SendMessage
    <3>2. CASE handling.at = "wait"
      <4>1. handling' = [handling EXCEPT !.at = "read"] /\ t = 0
        BY <1>1, <1>3, <2>1, <3>2 DEF Chat!SendMessage, Chat!AfterSend, Chat!GoTo, Chat!At
      <4>2. handling' \in [update : {v}, at : PollerSteps]
        BY <4>1, <1>1, <1>2 DEF PollerSteps, ChatInv, ChatTypes
      <4> QED
        BY <4>1, <4>2, <3>1, <1>3 DEF PollerStep
    <3>3. CASE handling.at # "wait"
      <4>1. handling' = Chat!Idle /\ t = 1
        BY <1>1, <1>3, <2>1, <3>1, <3>3 DEF Chat!SendMessage, Chat!AfterSend, Chat!GoTo, Chat!At
      <4> QED
        BY <4>1, <3>1, <1>3 DEF PollerStep
    <3> QED
      BY <3>2, <3>3
  <2>2. CASE Chat!SendMessageFails
    <3>1. chatSpent' = chatSpent + 1
      BY <2>2 DEF Chat!SendMessageFails, Chat!Spend
    <3>2. handling' = Chat!Idle \/ handling' = [handling EXCEPT !.at = "sorry"]
      BY <2>2 DEF Chat!SendMessageFails, Chat!AfterFailure, Chat!GoTo
    <3>3. handling' = Chat!Idle \/ handling' \in [update : {v}, at : PollerSteps]
      BY <3>2, <1>1, <1>2 DEF PollerSteps, ChatInv, ChatTypes
    <3> QED
      BY <3>1, <3>3, <1>3 DEF PollerStep
  <2> QED
    BY <2>1, <2>2
<1>5. Grounded'
  <2>1. DOMAIN told' = DOMAIN told
    BY <1>3 DEF ChatInv, ChatTypes
  <2>2. chatSpent' \in {chatSpent, chatSpent + 1}
    BY <1>1, <1>4 DEF PollerStep
  <2> QED
    BY <1>1, <1>3, <2>1, <2>2, StillGrounded
<1> QED
  BY <1>1, <1>2, <1>3, <1>4, <1>5, PollerMoves

LEMMA PollerReads ==
  ASSUME ChatInv, Chat!ReadSheet \/ Chat!ReadSheetFails
  PROVE  ChatInv'
<1> DEFINE v == handling.update
<1>1. /\ handling.at = "read" /\ handling.at \in PollerSteps
      /\ UNCHANGED <<inbox, arrived, unread, offset, batch, stored, chatJobs, chatJob, restarts, told>>
      /\ chatSpent \in Nat
  BY DEF Chat!ReadSheet, Chat!ReadSheetFails, Chat!At, Chat!poller, Chat!worker, PollerSteps, ChatInv, ChatTypes
<1>2. handling # Chat!Idle /\ v \in 1..arrived
  BY <1>1, LoopFacts DEF Chat!Idle
<1>3. PICK s \in {0, 1} : chatSpent' = chatSpent + s
  <2>1. chatSpent' = chatSpent + 0 \/ chatSpent' = chatSpent + 1
    BY <1>1 DEF Chat!ReadSheet, Chat!ReadSheetFails, Chat!Spend
  <2> QED
    BY <2>1
<1>4. \E to \in {"reply", "apologise", "sorry"} : handling' = [handling EXCEPT !.at = to]
  <2>1. CASE Chat!ReadSheet
    BY <2>1 DEF Chat!ReadSheet, Chat!GoTo
  <2>2. CASE Chat!ReadSheetFails
    BY <2>2 DEF Chat!ReadSheetFails, Chat!GoTo
  <2> QED
    BY <2>1, <2>2
<1>5. handling' \in [update : {v}, at : PollerSteps]
  BY <1>4, <1>1, <1>2 DEF PollerSteps, ChatInv, ChatTypes
<1>6. PollerStep(0, s)
  <2>1. Tells(0, v)
    BY <1>1, SameTold DEF ChatInv, Tells
  <2> QED
    BY <1>3, <1>5, <2>1 DEF PollerStep
<1>7. Grounded'
  BY <1>1, <1>3, StillGrounded
<1> QED
  BY <1>1, <1>2, <1>6, <1>7, SameTold, PollerMoves DEF ChatInv

\* What a step of the gateway may do to the message it handles.
Stores == stored' = stored \union {handling.update}
Enqueues == chatJobs' = chatJobs \union {Chat!NewJob(handling.update)}

GatewayStep(s) ==
    /\ chatSpent' = chatSpent + s
    /\ \/ /\ handling.at = "store" /\ chatJobs' = chatJobs
          /\ \/ handling.update \in stored /\ handling' = Chat!Idle /\ stored' = stored
             \/ handling.update \notin stored /\ handling' = [handling EXCEPT !.at = "enqueue"] /\ Stores
             \/ s = 1 /\ handling' = Chat!Idle /\ (stored' = stored \/ Stores)
       \/ /\ handling.at = "enqueue" /\ handling' = Chat!Idle /\ stored' = stored
          /\ Enqueues \/ (s = 1 /\ chatJobs' = chatJobs)

LEMMA GatewayMoves ==
  ASSUME ChatInv, UNCHANGED <<inbox, arrived, unread, offset, batch, chatJob, told, restarts>>,
         NEW s \in {0, 1}, GatewayStep(s)
  PROVE  ChatInv'
<1> DEFINE v == handling.update
           new == Chat!NewJob(v)
<1>1. /\ Chat!Gateway /\ v \in 1..arrived /\ arrived \in 0..Len(inbox.updates) /\ chatSpent \in Nat
      /\ handling \in [update : 1..arrived, at : {"store", "enqueue"}]
      /\ chatSpent' = chatSpent + s
  BY LoopFacts DEF GatewayStep, ChatInv, ChatTypes, PollerSteps, Chat!Idle
<1>2. new = [update |-> v, attempt |-> 1] /\ new \in [update : 1..arrived, attempt : Nat] /\ new.update = v
  BY <1>1 DEF Chat!NewJob
<1>3. ChatTypes'
  <2>1. handling' = Chat!Idle \/ handling' \in [update : 1..arrived, at : {"store", "enqueue"}]
    BY <1>1 DEF GatewayStep
  <2>2. stored' \subseteq 1..arrived
    BY <1>1 DEF GatewayStep, Stores, ChatInv, ChatTypes
  <2>3. chatJobs' \subseteq [update : 1..arrived, attempt : Nat]
    BY <1>1, <1>2 DEF GatewayStep, Enqueues, ChatInv, ChatTypes
  <2>4. chatSpent' \in Nat
    BY <1>1
  <2> QED
    BY <2>1, <2>2, <2>3, <2>4, <1>1 DEF ChatInv, ChatTypes, Chat!Gateway, Chat!Idle, Chat!Free
<1>4. Polled'
  BY DEF ChatInv, Polled
<1>5. Grounded'
  BY <1>1, StillGrounded
<1>6. ASSUME NEW u \in 1..Len(inbox.updates)
      PROVE  OneJob(u)' /\ Accounted(u)' /\ Reached(u)'
  <2>0. OneJob(u) /\ Accounted(u) /\ Reached(u) /\ u # 0 /\ Chat!Gateway'
    BY <1>6, InboxFacts, <1>1 DEF ChatInv, Chat!Gateway
  <2>1. Chat!Answers(u) \in Nat /\ Chat!Answers(u)' = Chat!Answers(u)
    BY SameTold DEF ChatInv
  <2>2. Worked(u)' = Worked(u) /\ Passed(u)' = Passed(u) /\ Chat!Answered(u)' = Chat!Answered(u)
    BY DEF Worked, Passed, Chat!Answered, Chat!Kind, Chat!Gateway
  <2>3. stored \subseteq stored' /\ stored' \subseteq stored \union {v}
        /\ chatJobs \subseteq chatJobs' /\ chatJobs' \subseteq chatJobs \union {new}
    BY DEF GatewayStep, Stores, Enqueues
  <2>4. CASE u # v
    <3>1. handling.update # u /\ handling'.update # u
      <4>1. Chat!Idle.update = 0
        BY DEF Chat!Idle
      <4>2. handling' = Chat!Idle \/ handling' = [handling EXCEPT !.at = "enqueue"]
        BY DEF GatewayStep
      <4> QED
        BY <4>1, <4>2, <2>0, <2>4, <1>1
    <3>2. (u \in stored' <=> u \in stored) /\ (Enqueued(u)' <=> Enqueued(u)) /\ (Held(u)' <=> Held(u))
          /\ \A q \in chatJobs' : q.update = u => q \in chatJobs
      <4>1. u \in stored' <=> u \in stored
        BY <2>3, <2>4
      <4>2. \A q \in chatJobs' : q.update = u => q \in chatJobs
        BY <2>3, <2>4, <1>2
      <4>3. Enqueued(u)' <=> Enqueued(u)
        BY <2>3, <4>2 DEF Enqueued
      <4> QED
        BY <4>1, <4>2, <4>3, <3>1 DEF Held
    <3>3. Live(u)' = Live(u) /\ Chat!Underway(u)' = Chat!Underway(u)
      BY <3>1, <3>2, <2>2 DEF Live, Chat!Underway, Enqueued
    <3>4. OneJob(u)' /\ Due(u)' = Due(u) /\ Begun(u)' = Begun(u)
      BY <3>2, <3>3, <2>2, <2>0, <1>1 DEF OneJob, Due, Begun
    <3>5. Due(u) \in Nat /\ Begun(u) \in Nat
      BY <1>1 DEF Due, Begun
    <3> QED
      BY <3>2, <3>3, <3>4, <3>5, <2>0, <2>1, <2>2, <1>1 DEF Accounted, Reached
  <2>5. CASE u = v
    <3>1. handling.update = u /\ Chat!Underway(u)
      BY <2>5 DEF Chat!Underway
    <3>2. handling' = Chat!Idle => ~Held(u)'
      BY <2>0 DEF Chat!Idle, Held
    <3>3. CASE handling.at = "store" /\ chatJobs' = chatJobs /\ handling' = Chat!Idle
               /\ ((stored' = stored /\ u \in stored) \/ s = 1)
      <4>1. ~Held(u) /\ ~Held(u)' /\ Enqueued(u)' = Enqueued(u)
        BY <3>2, <3>3 DEF Held, Enqueued
      <4>2. Live(u)' = Live(u) /\ OneJob(u)' /\ Due(u)' = Due(u)
        BY <4>1, <2>0, <2>2, <2>3, <3>3, <1>1 DEF Live, OneJob, Due
      <4>3. Due(u) \in Nat /\ Begun(u) \in Nat /\ Begun(u)' \in Nat /\ Begun(u) <= Begun(u)'
        BY <2>0, <2>3, <1>1 DEF Due, Begun
      <4>4. Accounted(u)'
        BY <4>2, <4>3, <2>0, <2>1, <1>1 DEF Accounted
      <4>5. Reached(u)'
        <5>1. Live(u) => Chat!Underway(u)'
          BY <4>2 DEF Live, Chat!Underway, Held, Enqueued, Worked
        <5> QED
          BY <5>1, <4>2, <3>3, <2>0, <2>1, <2>2, <1>1 DEF Reached
      <4> QED
        BY <4>2, <4>4, <4>5
    <3>4. CASE handling.at = "store" /\ chatJobs' = chatJobs /\ u \notin stored
               /\ handling' = [handling EXCEPT !.at = "enqueue"] /\ Stores
      <4>1. Held(u)' /\ ~Held(u) /\ ~Enqueued(u) /\ ~Enqueued(u)' /\ ~Worked(u) /\ ~Live(u) /\ u \in stored'
        <5>1. handling' = [update |-> u, at |-> "enqueue"]
          BY <3>4, <1>1, <2>5
        <5>2. Held(u)' /\ ~Held(u)
          BY <5>1, <3>4 DEF Held
        <5>3. ~Live(u) /\ ~Enqueued(u) /\ ~Worked(u)
          BY <3>4, <2>0, <1>1 DEF OneJob, Live
        <5>4. ~Enqueued(u)' /\ u \in stored'
          BY <5>3, <3>4, <2>5 DEF Enqueued, Stores
        <5> QED
          BY <5>2, <5>3, <5>4
      <4>2. OneJob(u)' /\ Live(u)' /\ Chat!Underway(u)'
        BY <4>1, <2>2, <3>4 DEF OneJob, Live, Enqueued, Chat!Underway, Held
      <4>3. Due(u) = 0 /\ Due(u)' = 1 /\ Begun(u) = 0 /\ Begun(u)' = 1
        BY <4>1, <4>2, <2>0, <2>2, <3>4, <1>1 DEF Due, Begun, Live
      <4>4. Accounted(u)'
        BY <4>3, <2>0, <2>1, <1>1 DEF Accounted
      <4> QED
        BY <4>2, <4>4 DEF Reached
    <3>5. CASE handling.at = "enqueue" /\ handling' = Chat!Idle /\ stored' = stored /\ Enqueues
      <4>1. Held(u) /\ ~Held(u)' /\ ~Enqueued(u) /\ Enqueued(u)' /\ ~Worked(u) /\ Live(u) /\ u \in stored
        <5>1. Held(u) /\ ~Held(u)'
          BY <3>1, <3>2, <3>5 DEF Held
        <5>2. new \in chatJobs' /\ new.update = u
          BY <3>5, <2>5, <1>2 DEF Enqueues
        <5>3. Live(u) /\ ~Enqueued(u) /\ ~Worked(u) /\ u \in stored
          BY <5>1, <2>0, <1>1 DEF OneJob, Live
        <5>4. Enqueued(u)'
          BY <5>2 DEF Enqueued
        <5> QED
          BY <5>1, <5>3, <5>4
      <4>2. \A q \in chatJobs' : q.update = u => q = new
        BY <4>1, <2>3 DEF Enqueued
      <4>3. OneJob(u)' /\ Live(u)' /\ Chat!Underway(u)'
        BY <4>1, <4>2, <2>2, <3>5 DEF OneJob, Live, Enqueued, Chat!Underway
      <4>4. Due(u) = 1 /\ Due(u)' = 1 /\ Begun(u) = 1 /\ Begun(u)' = 1
        BY <4>1, <4>3, <2>0, <2>2, <3>5, <1>1 DEF Due, Begun
      <4>5. Accounted(u)'
        BY <4>4, <2>0, <2>1, <1>1 DEF Accounted
      <4> QED
        BY <4>3, <4>5 DEF Reached
    <3>6. CASE handling.at = "enqueue" /\ handling' = Chat!Idle /\ stored' = stored /\ s = 1 /\ chatJobs' = chatJobs
      <4>1. Held(u) /\ ~Held(u)' /\ ~Enqueued(u) /\ ~Enqueued(u)' /\ ~Worked(u) /\ u \in stored
        <5>1. Held(u) /\ ~Held(u)'
          BY <3>1, <3>2, <3>6 DEF Held
        <5>2. ~Enqueued(u) /\ ~Worked(u) /\ u \in stored
          BY <5>1, <2>0, <1>1 DEF OneJob, Live
        <5>3. ~Enqueued(u)'
          BY <5>2, <3>6 DEF Enqueued
        <5> QED
          BY <5>1, <5>2, <5>3
      <4>2. OneJob(u)' /\ ~Live(u)'
        BY <4>1, <2>2 DEF OneJob, Live, Enqueued
      <4>3. Due(u)' = 0 /\ Due(u) = 1 /\ Begun(u) = 1 /\ Begun(u)' = 1
        BY <4>1, <4>2, <2>0, <2>2, <3>6, <1>1 DEF Due, Begun, Live
      <4>4. Accounted(u)'
        BY <4>3, <2>0, <2>1, <1>1 DEF Accounted
      <4>5. Reached(u)'
        BY <3>6, <1>1 DEF Reached
      <4> QED
        BY <4>2, <4>4, <4>5
    <3> QED
      BY <3>3, <3>4, <3>5, <3>6, <2>5 DEF GatewayStep
  <2> QED
    BY <2>4, <2>5
<1> QED
  BY <1>3, <1>4, <1>5, <1>6 DEF ChatInv

LEMMA GatewaySteps ==
  ASSUME ChatInv, Chat!StoreEvent \/ Chat!EnqueueReply \/ Chat!HandlerFails
  PROVE  ChatInv'
<1>0. chatSpent \in Nat /\ (chatSpent' = chatSpent => chatSpent' = chatSpent + 0)
  BY DEF ChatInv, ChatTypes
<1>1. UNCHANGED <<inbox, arrived, unread, offset, batch, chatJob, told, restarts>>
  BY DEF Chat!StoreEvent, Chat!EnqueueReply, Chat!HandlerFails, Chat!poller, Chat!worker
<1>2. CASE Chat!StoreEvent
  <2>1. GatewayStep(0)
    <3>1. CASE handling.update \in stored
      BY <1>0, <1>2, <3>1 DEF Chat!StoreEvent, Chat!GoTo, Chat!At, Chat!worker, GatewayStep
    <3>2. CASE handling.update \notin stored
      BY <1>0, <1>2, <3>2 DEF Chat!StoreEvent, Chat!GoTo, Chat!At, Chat!worker, GatewayStep, Stores
    <3> QED
      BY <3>1, <3>2
  <2> QED
    BY <1>1, <2>1, GatewayMoves
<1>3. CASE Chat!EnqueueReply
  <2>1. handling.at = "enqueue" /\ handling' = Chat!Idle /\ stored' = stored /\ chatSpent' = chatSpent + 0
    BY <1>0, <1>3 DEF Chat!EnqueueReply, Chat!GoTo, Chat!At
  <2>2. Enqueues
    BY <1>3 DEF Chat!EnqueueReply, Enqueues
  <2>3. GatewayStep(0)
    BY <2>1, <2>2 DEF GatewayStep
  <2> QED
    BY <1>1, <2>3, GatewayMoves
<1>4. CASE Chat!HandlerFails
  <2>1. handling.at \in {"store", "enqueue"} /\ handling' = Chat!Idle /\ chatSpent' = chatSpent + 1
    BY <1>4 DEF Chat!HandlerFails, Chat!Spend, Chat!GoTo
  <2>2. handling.at = "store" => chatJobs' = chatJobs /\ (stored' = stored \/ Stores)
    BY <1>4 DEF Chat!HandlerFails, Chat!At, Stores
  <2>3. handling.at = "enqueue" => stored' = stored /\ (chatJobs' = chatJobs \/ Enqueues)
    BY <1>4 DEF Chat!HandlerFails, Chat!At, Enqueues
  <2>4. GatewayStep(1)
    <3>1. CASE handling.at = "store"
      BY <2>1, <2>2, <3>1 DEF GatewayStep
    <3>2. CASE handling.at = "enqueue"
      BY <2>1, <2>3, <3>2 DEF GatewayStep
    <3> QED
      BY <2>1, <3>1, <3>2
  <2> QED
    BY <1>1, <2>4, GatewayMoves
<1> QED
  BY <1>2, <1>3, <1>4

\* A worker takes a waiting question up.
LEMMA PopMoves ==
  ASSUME ChatInv, NEW q \in chatJobs, Chat!Pop(q)
  PROVE  ChatInv'
<1>1. /\ chatJob = Chat!Free /\ chatJobs' = chatJobs \ {q}
      /\ chatJob' = [update |-> q.update, at |-> "begin", attempt |-> q.attempt, context |-> ""]
      /\ UNCHANGED <<inbox, arrived, unread, offset, batch, handling, stored, told, chatSpent, restarts>>
  BY DEF Chat!Pop, Chat!poller
<1>11. inbox' = inbox /\ told' = told
  BY <1>1
<1>2. Chat!Gateway /\ chatJobs \subseteq [update : 1..arrived, attempt : Nat] /\ chatSpent \in Nat
  BY DEF ChatInv, ChatTypes
<1>3. chatJob' \in [update : 1..arrived, at : JobSteps, attempt : Nat, context : Contexts] /\ chatJob'.update = q.update
      /\ chatJob'.at = "begin"
  <2>1. "begin" \in JobSteps /\ "" \in Contexts /\ q.update \in 1..arrived /\ q.attempt \in Nat
    BY <1>2 DEF JobSteps, Contexts
  <2> QED
    BY <1>1, <2>1
<1>4. ChatTypes'
  BY <1>1, <1>2, <1>3 DEF ChatInv, ChatTypes, Chat!Gateway, Chat!Idle, Chat!Free
<1>5. Polled'
  BY <1>1 DEF ChatInv, Polled
<1>6. Grounded'
  BY <1>1, <1>3 DEF ChatInv, Grounded, Bare
<1>7. ASSUME NEW u \in 1..Len(inbox.updates)
      PROVE  OneJob(u)' /\ Accounted(u)' /\ Reached(u)'
  <2>0. OneJob(u) /\ Accounted(u) /\ Reached(u) /\ u # 0 /\ Chat!Gateway'
    <3>1. OneJob(u) /\ Accounted(u) /\ Reached(u)
      BY DEF ChatInv
    <3>2. u # 0 /\ Chat!Gateway'
      BY <1>11, InboxFacts, <1>2 DEF ChatInv, Chat!Gateway
    <3> QED
      BY <3>1, <3>2
  <2>1. Chat!Answers(u) \in Nat /\ Chat!Answers(u)' = Chat!Answers(u)
    BY <1>11, SameTold DEF ChatInv
  <2>2. Held(u)' = Held(u) /\ Passed(u)' = Passed(u) /\ Chat!Answered(u)' = Chat!Answered(u) /\ Begun(u)' = Begun(u)
    BY <1>1 DEF Held, Passed, Chat!Answered, Chat!Kind, Chat!Gateway, Begun
  <2>3. ~Worked(u)
    BY <1>1, <2>0 DEF Worked, Chat!Free
  <2>4. CASE u = q.update
    <3>1. Enqueued(u) /\ Live(u) /\ ~Held(u) /\ Worked(u)'
      BY <2>4, <2>0, <1>2, <1>3 DEF Enqueued, Live, OneJob, Worked
    <3>2. ~Enqueued(u)'
      BY <1>1, <2>4, <2>0, <1>2 DEF Enqueued, OneJob
    <3>3. OneJob(u)' /\ Live(u)' /\ Chat!Underway(u)'
      BY <1>1, <3>1, <3>2, <2>0, <2>2, <1>2 DEF OneJob, Live, Enqueued, Worked, Chat!Underway
    <3>4. Due(u) = 1 /\ Due(u)' = 1
      BY <3>1, <3>3, <2>0, <2>3, <1>2, <1>3 DEF Due, Worked
    <3>5. Accounted(u)'
      BY <3>4, <2>0, <2>1, <2>2, <1>1 DEF Accounted
    <3> QED
      BY <3>3, <3>5 DEF Reached
  <2>5. CASE u # q.update
    <3>1. ~Worked(u)' /\ (Enqueued(u)' <=> Enqueued(u)) /\ chatJobs' \subseteq chatJobs
      BY <1>1, <1>3, <2>5 DEF Worked, Enqueued
    <3>2. OneJob(u)' /\ (Live(u)' <=> Live(u))
      BY <1>1, <3>1, <2>0, <2>2, <2>3, <1>2 DEF OneJob, Live
    <3>3. Due(u)' = Due(u) /\ Due(u) \in Nat
      BY <3>1, <3>2, <2>3, <2>0, <1>2 DEF Due
    <3>4. Chat!Underway(u)' <=> Chat!Underway(u)
      BY <1>1, <3>1, <2>3 DEF Chat!Underway, Enqueued, Worked
    <3> QED
      BY <3>2, <3>3, <3>4, <2>0, <2>1, <2>2, <1>1, <1>2 DEF Accounted, Reached
  <2> QED
    BY <2>4, <2>5
<1> QED
  BY <1>11, <1>4, <1>5, <1>6, <1>7 DEF ChatInv

LEMMA JobGoes ==
  ASSUME chatJob \in [update : 1..arrived, at : JobSteps, attempt : Nat, context : Contexts],
         NEW to \in JobSteps, NEW c \in Contexts, chatJob' = [chatJob EXCEPT !.at = to, !.context = c]
  PROVE  /\ chatJob' \in [update : {chatJob.update}, at : JobSteps, attempt : Nat, context : Contexts]
         /\ chatJob'.at = to /\ chatJob'.context = c
OBVIOUS

\* What a worker without a chat job holds.
LEMMA FreeHands ==
  Chat!Free.at = "idle" /\ Chat!Free.update = 0
BY DEF Chat!Free

\* The steps of an answer that say nothing.
LEMMA JobSteppings ==
  ASSUME ChatInv, \/ Chat!BeginReply \/ Chat!LookUp \/ Chat!LookUpFails \/ Chat!AskModel \/ Chat!AskModelFails
  PROVE  ChatInv'
<1> DEFINE v == chatJob.update
<1>1. UNCHANGED <<inbox, arrived, unread, offset, batch, handling, stored, chatJobs, restarts, told>> /\ chatSpent \in Nat
      /\ chatJob.at \in {"begin", "look", "ask"}
  <2>1. chatSpent \in Nat
    BY DEF ChatInv, ChatTypes
  <2>2. CASE Chat!BeginReply
    BY <2>1, <2>2 DEF Chat!BeginReply, Chat!Working, Chat!poller
  <2>3. CASE Chat!LookUp
    BY <2>1, <2>3 DEF Chat!LookUp, Chat!Working, Chat!poller
  <2>4. CASE Chat!LookUpFails
    BY <2>1, <2>4 DEF Chat!LookUpFails, Chat!Working, Chat!poller
  <2>5. CASE Chat!AskModel
    BY <2>1, <2>5 DEF Chat!AskModel, Chat!Working, Chat!poller
  <2>6. CASE Chat!AskModelFails
    BY <2>1, <2>6 DEF Chat!AskModelFails, Chat!Working, Chat!poller
  <2> QED
    BY <2>2, <2>3, <2>4, <2>5, <2>6
<1>2. chatJob # Chat!Free /\ chatJob \in [update : 1..arrived, at : JobSteps, attempt : Nat, context : Contexts] /\ Chat!Gateway
  <2>1. chatJob # Chat!Free
    BY <1>1, FreeHands
  <2> QED
    BY <2>1 DEF ChatInv, ChatTypes
<1>3. Tells(0, v)
  BY <1>1, SameTold DEF ChatInv, Tells
<1>4. told' \in [1..Len(inbox.updates) -> [Chat!Messages -> Nat]]
  BY <1>1, SameTold DEF ChatInv
<1>5. CASE Chat!BeginReply
  <2>0. chatSpent' = chatSpent + 0
    BY <1>1, <1>5 DEF Chat!BeginReply
  <2>1. CASE Chat!Kind(v) = "other"
    <3>1. chatJob' = Chat!Free /\ ~Chat!Answered(v)
      <4>1. Chat!Leave
        BY <1>5, <2>1, Zenon DEF Chat!BeginReply
      <4> QED
        BY <4>1, <1>2, <2>1 DEF Chat!Leave, Chat!Answered
    <3>2. WorkerStep(0, 0)
      BY <3>1, <2>0, <1>1, <1>3 DEF WorkerStep
    <3>3. Grounded'
      <4>1. ~(chatJob'.at \in {"ask", "answer"} /\ chatJob'.context = "none")
        BY <3>1 DEF Chat!Free
      <4>2. chatSpent' \in {chatSpent, chatSpent + 1}
        BY <2>0, <1>1
      <4> QED
        BY <4>1, <4>2, <1>1, StillGrounded
    <3> QED
      BY <3>2, <3>3, <1>1, <1>2, <1>4, WorkerMoves
  <2>2. CASE Chat!Kind(v) # "other"
    <3>0. chatJob = [chatJob EXCEPT !.context = chatJob.context] /\ chatJob.context \in Contexts
      BY <1>2
    <3>1. PICK to \in {"off", "keyless", "look"} : chatJob' = [chatJob EXCEPT !.at = to]
      <4>1. \E to \in {"off", "keyless", "look"} : Chat!JobTo(to)
        BY <1>5, <2>2, Zenon DEF Chat!BeginReply
      <4> QED
        BY <4>1 DEF Chat!JobTo
    <3>2. chatJob' \in [update : {v}, at : JobSteps, attempt : Nat, context : Contexts] /\ chatJob'.at = to
      <4>1. to \in JobSteps
        BY DEF JobSteps
      <4> QED
        BY <3>1, <4>1, <1>2
    <3>3. WorkerStep(0, 0)
      BY <3>2, <2>0, <1>1, <1>3 DEF WorkerStep
    <3>4. Grounded'
      BY <3>2, <2>0, <1>1, StillGrounded
    <3> QED
      BY <3>3, <3>4, <1>1, <1>2, <1>4, WorkerMoves
  <2> QED
    BY <2>1, <2>2
<1>6. CASE Chat!LookUp
  <2>1. chatSpent' = chatSpent + 0 /\ chatJob' = [chatJob EXCEPT !.at = "ask", !.context = Chat!LooksUp(inbox.catalogue)]
    BY <1>1, <1>6 DEF Chat!LookUp
  <2>2. Chat!LooksUp(inbox.catalogue) \in {"matches", "sample", "none"}
        /\ (Chat!LooksUp(inbox.catalogue) = "none" => Bare)
    BY InboxFacts DEF Chat!LooksUp, ChatInv, Bare
  <2>3. chatJob' \in [update : {v}, at : JobSteps, attempt : Nat, context : Contexts] /\ chatJob'.at = "ask"
        /\ chatJob'.context = Chat!LooksUp(inbox.catalogue)
    <3>1. "ask" \in JobSteps /\ Chat!LooksUp(inbox.catalogue) \in Contexts
      BY <2>2 DEF JobSteps, Contexts
    <3> QED
      BY <2>1, <3>1, <1>2, JobGoes
  <2>4. WorkerStep(0, 0)
    BY <2>1, <2>3, <1>1, <1>3 DEF WorkerStep
  <2>5. Grounded'
    BY <2>1, <2>2, <2>3, <1>1, StillGrounded
  <2> QED
    BY <2>4, <2>5, <1>1, <1>2, <1>4, WorkerMoves
<1>7. CASE Chat!LookUpFails \/ Chat!AskModelFails
  <2>1. chatSpent' = chatSpent + 1
    BY <1>7 DEF Chat!LookUpFails, Chat!AskModelFails, Chat!Spend
  <2>2. chatJob' \in [update : {v}, at : JobSteps, attempt : Nat, context : Contexts]
    <3>1. CASE Chat!LookUpFails
      <4>1. PICK c \in {"none", "sample"} : chatJob' = [chatJob EXCEPT !.at = "ask", !.context = c]
        BY <3>1 DEF Chat!LookUpFails
      <4>2. "ask" \in JobSteps /\ c \in Contexts
        BY DEF JobSteps, Contexts
      <4> QED
        BY <4>1, <4>2, <1>2, JobGoes
    <3>2. CASE Chat!AskModelFails
      <4>1. chatJob' = [chatJob EXCEPT !.at = "sorry"] /\ "sorry" \in JobSteps
        BY <3>2 DEF Chat!AskModelFails, Chat!JobTo, JobSteps
      <4> QED
        BY <4>1, <1>2
    <3> QED
      BY <3>1, <3>2, <1>7
  <2>3. WorkerStep(0, 1)
    BY <2>1, <2>2, <1>1, <1>3 DEF WorkerStep
  <2>4. Grounded'
    BY <2>1, <1>1, StillGrounded
  <2> QED
    BY <2>3, <2>4, <1>1, <1>2, <1>4, WorkerMoves
<1>8. CASE Chat!AskModel
  <2>1. chatSpent' = chatSpent + 0 /\ chatJob' = [chatJob EXCEPT !.at = "answer"] /\ chatJob.at = "ask"
    BY <1>1, <1>8 DEF Chat!AskModel, Chat!JobTo, Chat!Working
  <2>2. chatJob' \in [update : {v}, at : JobSteps, attempt : Nat, context : Contexts] /\ chatJob'.at = "answer"
        /\ chatJob'.context = chatJob.context
    <3>1. "answer" \in JobSteps
      BY DEF JobSteps
    <3> QED
      BY <2>1, <3>1, <1>2
  <2>3. WorkerStep(0, 0)
    BY <2>1, <2>2, <1>1, <1>3 DEF WorkerStep
  <2>4. chatJob.context = "none" => Bare
    BY <2>1 DEF ChatInv, Grounded
  <2>5. Grounded'
    BY <2>1, <2>2, <2>4, <1>1, StillGrounded
  <2> QED
    BY <2>3, <2>5, <1>1, <1>2, <1>4, WorkerMoves
<1> QED
  BY <1>5, <1>6, <1>7, <1>8

\* A worker tells the user: the answer, that the chatbot is off, or that it is sorry.
LEMMA JobSays ==
  ASSUME ChatInv, Chat!Notify \/ Chat!NotifyFails \/ Chat!Apologise \/ Chat!ApologyFails \/ Chat!WorkerDies
  PROVE  ChatInv'
<1> DEFINE v == chatJob.update
           m == Chat!Notice
<1>1. /\ UNCHANGED <<inbox, arrived, unread, offset, batch, handling, stored, restarts>> /\ chatSpent \in Nat
      /\ chatJob # Chat!Free
  <2>1. chatSpent \in Nat
    BY DEF ChatInv, ChatTypes
  <2>2. CASE Chat!Notify
    BY <2>1, <2>2, FreeHands DEF Chat!Notify, Chat!poller
  <2>3. CASE Chat!NotifyFails
    BY <2>1, <2>3, FreeHands DEF Chat!NotifyFails, Chat!poller
  <2>4. CASE Chat!Apologise
    BY <2>1, <2>4, FreeHands DEF Chat!Apologise, Chat!Working, Chat!poller
  <2>5. CASE Chat!ApologyFails
    BY <2>1, <2>5, FreeHands DEF Chat!ApologyFails, Chat!Working, Chat!poller
  <2>6. CASE Chat!WorkerDies
    BY <2>1, <2>6 DEF Chat!WorkerDies, Chat!poller, Chat!worker
  <2> QED
    BY <2>2, <2>3, <2>4, <2>5, <2>6
<1>2. chatJob \in [update : 1..arrived, at : JobSteps, attempt : Nat, context : Contexts] /\ Chat!Gateway
      /\ v \in 1..Len(inbox.updates)
  <2>1. chatJob \in [update : 1..arrived, at : JobSteps, attempt : Nat, context : Contexts] /\ Chat!Gateway
    BY <1>1 DEF ChatInv, ChatTypes
  <2> QED
    BY <2>1, LoopFacts
<1>3. m \in Chat!Messages /\ m # "wait" /\ "sorry" \in Chat!Messages /\ (m = "groundless" => Bare)
  <2>1. m \in {"answer", "groundless", "sorry", "off"}
    BY DEF Chat!Notice
  <2>2. m = "groundless" => chatJob.at = "answer" /\ chatJob.context = "none"
    BY DEF Chat!Notice, Chat!Working
  <2>3. m = "groundless" => Bare
    BY <2>2 DEF ChatInv, Grounded
  <2> QED
    BY <2>1, <2>3 DEF Chat!Messages, Chat!Finals
<1>4. ASSUME NEW n \in Chat!Messages, n # "wait", n = "groundless" => Bare, Chat!Tell(v, n)
      PROVE  /\ Tells(1, v) /\ told' \in [1..Len(inbox.updates) -> [Chat!Messages -> Nat]]
             /\ DOMAIN told' = DOMAIN told
             /\ \A u \in DOMAIN told : told'[u]["groundless"] = told[u]["groundless"] \/ Bare
  <2>1. DOMAIN told = 1..Len(inbox.updates)
    BY DEF ChatInv, ChatTypes
  <2>2. ChatTypes
    BY DEF ChatInv
  <2>3. Tells(1, v)
    BY <1>1, <1>2, <1>4, <2>2, TellCounts DEF Tells
  <2> QED
    BY <1>1, <1>2, <1>4, <2>1, <2>2, <2>3, TellCounts
<1>5. ASSUME told' = told
      PROVE  /\ Tells(0, v) /\ told' \in [1..Len(inbox.updates) -> [Chat!Messages -> Nat]]
             /\ DOMAIN told' = DOMAIN told
             /\ \A u \in DOMAIN told : told'[u]["groundless"] = told[u]["groundless"] \/ Bare
  BY <1>1, <1>5, SameTold DEF ChatInv, Tells
<1>6. PICK t \in {0, 1} :
         /\ Tells(t, v) /\ told' \in [1..Len(inbox.updates) -> [Chat!Messages -> Nat]]
         /\ DOMAIN told' = DOMAIN told
         /\ \A u \in DOMAIN told : told'[u]["groundless"] = told[u]["groundless"] \/ Bare
         /\ Chat!Notify \/ Chat!Apologise => t = 1
         /\ Chat!ApologyFails => t = 0
  <2>1. CASE Chat!Notify
    BY <1>3, <1>4, <2>1 DEF Chat!Notify, Chat!ApologyFails, Chat!Working
  <2>2. CASE Chat!NotifyFails
    <3>1. Chat!Tell(v, m) \/ told' = told
      BY <2>2 DEF Chat!NotifyFails
    <3>2. ~Chat!ApologyFails
      BY <2>2 DEF Chat!NotifyFails, Chat!ApologyFails, Chat!Working
    <3>3. ~Chat!Notify /\ ~Chat!Apologise
      BY <1>1, <2>2 DEF Chat!NotifyFails, Chat!Notify, Chat!Apologise, Chat!Spend, Chat!Working
    <3> QED
      BY <1>3, <1>4, <1>5, <3>1, <3>2, <3>3
  <2>3. CASE Chat!Apologise
    <3>1. Chat!Tell(v, "sorry") /\ ~Chat!ApologyFails
      BY <1>1, <2>3 DEF Chat!Apologise, Chat!ApologyFails, Chat!Spend
    <3> QED
      BY <1>3, <1>4, <3>1
  <2>4. CASE Chat!ApologyFails \/ Chat!WorkerDies
    <3>1. told' = told /\ ~Chat!Notify /\ ~Chat!Apologise
      BY <1>1, <2>4 DEF Chat!ApologyFails, Chat!WorkerDies, Chat!Notify, Chat!Apologise, Chat!Spend
    <3> QED
      BY <1>5, <3>1
  <2> QED
    BY <2>1, <2>2, <2>3, <2>4
<1>7. PICK s \in {0, 1} :
         /\ chatSpent' = chatSpent + s
         /\ Chat!NotifyFails \/ Chat!ApologyFails \/ Chat!WorkerDies => s = 1
  <2>1. CASE Chat!Notify \/ Chat!Apologise
    <3>1. chatSpent' = chatSpent + 0
      BY <1>1, <2>1 DEF Chat!Notify, Chat!Apologise
    <3>2. ~Chat!NotifyFails /\ ~Chat!ApologyFails /\ ~Chat!WorkerDies
      BY <1>1, <3>1 DEF Chat!NotifyFails, Chat!ApologyFails, Chat!WorkerDies, Chat!Spend
    <3> QED
      BY <3>1, <3>2
  <2>2. CASE Chat!NotifyFails \/ Chat!ApologyFails \/ Chat!WorkerDies
    <3>1. chatSpent' = chatSpent + 1
      BY <2>2 DEF Chat!NotifyFails, Chat!ApologyFails, Chat!WorkerDies, Chat!Spend
    <3> QED
      BY <3>1
  <2> QED
    BY <2>1, <2>2
<1>8. Chat!Retry => chatJobs' = chatJobs \/ \E n \in Nat : chatJobs' = chatJobs \union {[update |-> v, attempt |-> n]}
  <2>1. chatJob.attempt + 1 \in Nat
    BY <1>2
  <2> QED
    BY <2>1 DEF Chat!Retry
<1>9. WorkerStep(t, s) /\ (chatJob' = Chat!Free \/ chatSpent' = chatSpent + 1)
  <2>1. CASE Chat!Notify
    <3>1. chatJob' = Chat!Free /\ chatJobs' = chatJobs
      BY <2>1 DEF Chat!Notify, Chat!Leave
    <3> QED
      BY <3>1, <2>1, <1>6, <1>7 DEF WorkerStep
  <2>2. CASE Chat!NotifyFails
    <3>1. CASE chatJob.at = "answer"
      <4>1. chatJob' = [chatJob EXCEPT !.at = "sorry"] /\ chatJobs' = chatJobs
        BY <2>2, <3>1 DEF Chat!NotifyFails, Chat!Working, Chat!JobTo
      <4>2. "sorry" \in JobSteps
        BY DEF JobSteps
      <4>3. chatJob' \in [update : {v}, at : JobSteps, attempt : Nat, context : Contexts]
        BY <4>1, <4>2, <1>2
      <4> QED
        BY <4>1, <4>3, <2>2, <1>6, <1>7 DEF WorkerStep
    <3>2. CASE chatJob.at # "answer"
      <4>1. chatJob' = Chat!Free /\ Chat!Retry
        BY <2>2, <3>2 DEF Chat!NotifyFails, Chat!Working, Chat!Leave
      <4> QED
        BY <4>1, <2>2, <1>6, <1>7, <1>8 DEF WorkerStep
    <3> QED
      BY <3>1, <3>2
  <2>3. CASE Chat!Apologise
    <3>1. chatJob' = Chat!Free /\ Chat!Retry /\ chatJob.at = "sorry"
      BY <2>3 DEF Chat!Apologise, Chat!Working, Chat!Leave
    <3> QED
      BY <3>1, <2>3, <1>6, <1>7, <1>8 DEF WorkerStep
  <2>4. CASE Chat!ApologyFails
    <3>1. chatJob' = Chat!Free /\ Chat!Retry
      BY <2>4 DEF Chat!ApologyFails, Chat!Leave
    <3> QED
      BY <3>1, <2>4, <1>6, <1>7, <1>8 DEF WorkerStep
  <2>5. CASE Chat!WorkerDies
    <3>1. chatJob' = Chat!Free /\ chatJobs' = chatJobs
      BY <2>5 DEF Chat!WorkerDies, Chat!Leave
    <3> QED
      BY <3>1, <2>5, <1>6, <1>7 DEF WorkerStep
  <2> QED
    BY <2>1, <2>2, <2>3, <2>4, <2>5
<1>10. Grounded'
  <2>1. chatJob' = Chat!Free => ~(chatJob'.at \in {"ask", "answer"} /\ chatJob'.context = "none")
    BY FreeHands
  <2>2. chatSpent' \in {chatSpent, chatSpent + 1}
    BY <1>1, <1>7
  <2> QED
    BY <2>1, <2>2, <1>1, <1>6, <1>9, StillGrounded
<1> QED
  BY <1>1, <1>6, <1>9, <1>10, WorkerMoves

LEMMA ChatBegins ==
  ASSUME Chat!ChatInit
  PROVE  ChatInv
<1>1. /\ inbox \in Inboxes /\ arrived = 0 /\ unread = {} /\ offset = 0 /\ batch = {} /\ handling = Chat!Idle
      /\ stored = {} /\ chatJobs = {} /\ chatJob = Chat!Free /\ chatSpent = 0 /\ restarts = 0
      /\ Len(inbox.updates) \in Nat /\ DOMAIN inbox.updates = 1..Len(inbox.updates)
      /\ told = [u \in DOMAIN inbox.updates |-> [m \in Chat!Messages |-> 0]]
  BY InboxAssumption DEF Chat!ChatInit
<1>2. Chat!Messages = {"answer", "groundless", "sorry", "off", "wait"}
  BY DEF Chat!Messages, Chat!Finals
<1>3. ChatTypes
  BY <1>1 DEF ChatTypes
<1>4. Polled
  BY <1>1 DEF Polled
<1>5. ASSUME NEW u \in 1..Len(inbox.updates)
      PROVE  told[u]["groundless"] = 0 /\ Chat!Answers(u) = 0
  <2>1. told[u] = [m \in Chat!Messages |-> 0]
    BY <1>1
  <2>2. \A m \in {"answer", "groundless", "sorry", "off", "wait"} : told[u][m] = 0
    BY <2>1, <1>2
  <2> QED
    BY <2>2 DEF Chat!Answers
<1>6. Grounded
  <2>1. ~(chatJob.at \in {"ask", "answer"})
    BY <1>1, FreeHands
  <2>2. DOMAIN told = 1..Len(inbox.updates)
    BY <1>1
  <2>3. \A u \in DOMAIN told : ~(told[u]["groundless"] > 0)
    BY <2>2, <1>5
  <2> QED
    BY <2>1, <2>3 DEF Grounded
<1>7. ASSUME NEW u \in 1..Len(inbox.updates)
      PROVE  OneJob(u) /\ Accounted(u) /\ Reached(u)
  <2>1. ~Live(u) /\ handling.update # u /\ ~Worked(u) /\ ~Held(u)
    <3>1. Chat!Idle.update = 0 /\ u # 0
      BY <1>1 DEF Chat!Idle
    <3>2. handling.update # u /\ ~Worked(u) /\ ~Enqueued(u)
      BY <3>1, <1>1, FreeHands DEF Worked, Enqueued
    <3> QED
      BY <3>2 DEF Live, Held
  <2>2. OneJob(u)
    BY <2>1, <1>1 DEF OneJob
  <2>3. Due(u) = 0 /\ Begun(u) = 0
    BY <2>1, <1>1 DEF Due, Begun
  <2>4. Accounted(u)
    BY <2>3, <1>1, <1>5 DEF Accounted
  <2>5. Reached(u)
    BY <1>1 DEF Reached, Passed
  <2> QED
    BY <2>2, <2>4, <2>5
<1> QED
  BY <1>3, <1>4, <1>6, <1>7 DEF ChatInv

LEMMA ChatKept ==
  ASSUME ChatInv, Chat!ChatNext
  PROVE  ChatInv'
BY ArrivalsMove, FetchesMove, TakesMove, RestartsMove, PollerSpeaks, PollerReads, GatewaySteps, PopMoves, JobSteppings, JobSays
   DEF Chat!ChatNext

LEMMA ChatStays ==
  ASSUME ChatInv, UNCHANGED chats
  PROVE  ChatInv'
<1>1. UNCHANGED <<inbox, arrived, unread, offset, batch, handling, stored, chatJobs, chatJob, told, chatSpent, restarts>>
  BY DEF chats
<1>2. ChatTypes' /\ Polled' /\ Grounded'
  BY <1>1 DEF ChatInv, ChatTypes, Polled, Grounded, Bare, Chat!Gateway
<1>3. ASSUME NEW u \in 1..Len(inbox.updates)
      PROVE  OneJob(u)' /\ Accounted(u)' /\ Reached(u)'
  <2>1. OneJob(u) /\ Accounted(u) /\ Reached(u)
    BY DEF ChatInv
  <2>2. OneJob(u)'
    BY <1>1, <2>1 DEF OneJob, Live, Held, Enqueued, Worked, Chat!Gateway
  <2>3. Accounted(u)'
    BY <1>1, <2>1 DEF Accounted, Due, Begun, Live, Held, Enqueued, Worked, Chat!Gateway, Chat!Answers
  <2>4. Reached(u)'
    BY <1>1, <2>1 DEF Reached, Passed, Live, Held, Enqueued, Worked, Chat!Gateway, Chat!Answers, Chat!Answered, Chat!Underway,
                      Chat!Kind
  <2> QED
    BY <2>2, <2>3, <2>4
<1> QED
  BY <1>1, <1>2, <1>3 DEF ChatInv

\* What Telegram has forgotten was answered or will be, answers beyond the
\* first are paid for by failures or restarts, and one without the shop's
\* products by their absence (telegram-poller.ts, server.ts, process-chatbot.ts).
THEOREM AnswersPaidFor == BackOfficeSpec => []AnswersCostFaults
<1> DEFINE Inv == part = "chats" => ChatInv
<1>1. BackOfficeInit => Inv
  BY ChatBegins DEF BackOfficeInit
<1>2. Inv /\ [BackOfficeNext]_backOffice => Inv'
  BY ChatKept, ChatStays DEF BackOfficeNext, backOffice, Notifies, Syncs, Parses, Administers, PlansOrders, Talks, Chats
<1>3. Inv => AnswersCostFaults
  <2> SUFFICES ASSUME ChatInv
               PROVE  Chat!AnswersCostFaults
    BY DEF AnswersCostFaults
  <2>1. ASSUME NEW u \in DOMAIN inbox.updates
        PROVE  /\ Chat!Answered(u) /\ Chat!Forgotten(u) /\ chatSpent = 0 => Chat!Answers(u) > 0 \/ Chat!Underway(u)
               /\ Chat!Answers(u) <= 1 + 2 * chatSpent + (IF Chat!Gateway THEN 0 ELSE restarts)
               /\ told[u]["groundless"] > 0 => inbox.catalogue = "none" \/ chatSpent > 0
    <3>0. u \in 1..Len(inbox.updates) /\ chatSpent \in Nat /\ restarts \in Nat /\ u \in DOMAIN told
      BY InboxFacts DEF ChatInv, ChatTypes
    <3>1. Accounted(u) /\ Reached(u)
      BY <3>0 DEF ChatInv
    <3>2. Chat!Forgotten(u) => Passed(u)
      BY DEF Chat!Forgotten, Passed
    <3>3. Chat!Answers(u) \in Nat /\ Due(u) \in Nat
      <4>1. Chat!Answers(u) \in Nat
        <5>1. told \in [1..Len(inbox.updates) -> [Chat!Messages -> Nat]]
              /\ Chat!Messages = {"answer", "groundless", "sorry", "off", "wait"}
          BY DEF ChatInv, ChatTypes, Chat!Messages, Chat!Finals
        <5> QED
          BY <5>1, <3>0 DEF Chat!Answers
      <4> QED
        BY <4>1 DEF Due
    <3>4. Chat!Answers(u) <= 1 + 2 * chatSpent + (IF Chat!Gateway THEN 0 ELSE restarts)
      <4>1. Begun(u) <= 1 + (IF Chat!Gateway THEN 0 ELSE restarts) /\ Begun(u) \in Nat
        BY <3>0 DEF Begun
      <4> QED
        BY <4>1, <3>0, <3>1, <3>3 DEF Accounted
    <3>5. told[u]["groundless"] > 0 => inbox.catalogue = "none" \/ chatSpent > 0
      BY <3>0 DEF ChatInv, Grounded, Bare
    <3> QED
      BY <3>1, <3>2, <3>4, <3>5 DEF Reached
  <2> QED
    BY <2>1 DEF Chat!AnswersCostFaults
<1> QED
  BY <1>1, <1>2, <1>3, PTL DEF BackOfficeSpec

-----------------------------------------------------------------------------
(* The planning of reorders.                                               *)

LEMMA Division ==
  ASSUME NEW a \in Nat, NEW d \in Nat \ {0}
  PROVE  a \div d \in Nat /\ d * (a \div d) <= a /\ a < d * (a \div d) + d
OBVIOUS

LEMMA Multiples ==
  ASSUME NEW k \in Nat, NEW s \in Nat \ {0}
  PROVE  k * s \in Nat /\ k <= k * s /\ 10 * (k * s) = (10 * s) * k /\ 10 * (k * s - s) = (10 * s) * k - 10 * s
OBVIOUS

\* A quantity in packs is a natural number.
LEMMA PacksAreNat ==
  ASSUME NEW qty \in Nat, NEW pack \in Nat
  PROVE  Plans!RoundUpToPack(qty, pack) \in Nat
<1>1. PICK s \in Nat \ {0} : s = IF pack > 0 THEN pack ELSE 1
  OBVIOUS
<1>2. qty + s - 1 \in Nat
  BY <1>1
<1>3. (qty + s - 1) \div s \in Nat
  BY <1>1, <1>2, Division
<1>4. ((qty + s - 1) \div s) * s \in Nat
  BY <1>1, <1>3, Multiples
<1> QED
  BY <1>1, <1>4 DEF Plans!RoundUpToPack, Plans!CeilDiv

\* What is suggested is the smallest number of whole packs that lasts.
LEMMA SuggestedLasts ==
  ASSUME NEW row \in Plans!RowOf
  PROVE  /\ Plans!SuggestedQty(row) \in Nat
         /\ Plans!NeededTenths(row) > 0 => Plans!SuggestedQty(row) > 0 /\ Plans!LastsPackwise(row, Plans!SuggestedQty(row))
<1>1. row.onHand \in Nat /\ row.reorder \in Nat /\ row.pack \in Nat /\ row.avg \in Nat /\ row.lead \in Nat
  BY DEF Plans!RowOf
<1>2. PICK d \in Nat : d = (row.lead + 7) * row.avg
  <2>1. \A x, y \in Nat : x * y \in Nat
    OBVIOUS
  <2> QED
    BY <1>1, <2>1
<1>3. PICK needed \in Int : needed = Plans!NeededTenths(row) /\ needed = d - 10 * row.onHand
  BY <1>1, <1>2 DEF Plans!NeededTenths, Plans!BufferDays
<1>4. PICK s \in Nat \ {0} : s = IF row.pack > 0 THEN row.pack ELSE 1
  BY <1>1
<1>5. CASE needed > 0
  <2>1. PICK k : k = (needed + 10 * s - 1) \div (10 * s)
    OBVIOUS
  <2>2. needed + 10 * s - 1 \in Nat /\ 10 * s \in Nat \ {0}
    BY <1>4, <1>5
  <2>3. k \in Nat /\ (10 * s) * k <= needed + 10 * s - 1 /\ needed + 10 * s - 1 < (10 * s) * k + 10 * s
    BY <2>1, <2>2, Division
  <2>4. Plans!SuggestedQty(row) = k * s
    BY <1>3, <1>4, <1>5, <2>1 DEF Plans!SuggestedQty, Plans!CeilDiv
  <2>5. PICK q \in Nat, t \in Int : q = k * s /\ t = (10 * s) * k
    BY <1>4, <2>3, Multiples
  <2>6. k <= q /\ 10 * q = t /\ 10 * (q - s) = t - 10 * s
    BY <1>4, <2>3, <2>5, Multiples
  <2>7. t <= needed + 10 * s - 1 /\ needed + 10 * s - 1 < t + 10 * s
    BY <2>3, <2>5
  <2>8. q > 0
    BY <1>5, <2>6, <2>7
  <2>9. 10 * (row.onHand + q) >= d
    BY <1>1, <1>3, <2>6, <2>7
  <2>10. 10 * (row.onHand + q - s) < d
    BY <1>1, <1>3, <2>6, <2>7
  <2>11. k \in 0..q
    BY <2>3, <2>6
  <2>12. Plans!LastsPackwise(row, q)
    BY <1>2, <1>4, <2>5, <2>9, <2>10, <2>11 DEF Plans!LastsPackwise, Plans!BufferDays
  <2> QED
    BY <2>4, <2>5, <2>8, <2>12
<1>6. CASE ~(needed > 0)
  <2>1. Plans!RoundUpToPack(row.reorder, row.pack) \in Nat
    BY <1>1, PacksAreNat
  <2> QED
    BY <1>3, <1>6, <2>1 DEF Plans!SuggestedQty
<1> QED
  BY <1>5, <1>6

\* What a plan is made from.
Vague == \E i \in DOMAIN request.wish : Plans!Resolved(request.wish[i].tied) = {}
Made == IF request.wish # <<>>
        THEN [i \in DOMAIN request.wish |-> Plans!WishLine(request.wish[i])]
        ELSE [p \in Plans!Needed |-> Plans!Line(p, Plans!SuggestedQty(Plans!Stock(p)), FALSE)]
Ruled(l) == [l EXCEPT !.supplier = Plans!PreferredSupplier(l), !.qty = Plans!CappedQty(l)]

PlanInv ==
    /\ request \in Requests
    /\ stage \in {"lined", "ruled", "planned"} => ~Vague
    /\ stage = "lined" => lines = Made
    /\ stage \in {"ruled", "planned"} => lines = [i \in {j \in DOMAIN Made : ~Plans!Skipped(Made[j])} |-> Ruled(Made[i])]
    /\ stage = "planned" =>
          orders = [s \in {lines[i].supplier : i \in Plans!Wanted} |->
                       [i \in {j \in Plans!Wanted : lines[j].supplier = s} |-> lines[i]]]

LEMMA PlanBegins ==
  ASSUME Plans!PlanningInit
  PROVE  PlanInv
BY DEF Plans!PlanningInit, PlanInv

LEMMA PlanKept ==
  ASSUME PlanInv, Plans!PlanningNext
  PROVE  PlanInv'
<1>1. UNCHANGED request
  BY DEF Plans!PlanningNext, Plans!MakeLines, Plans!ApplyPreferences, Plans!PlanBySupplier
<1>2. Vague' = Vague /\ Made' = Made /\ (\A l : Ruled(l)' = Ruled(l) /\ Plans!Skipped(l)' = Plans!Skipped(l))
  BY <1>1 DEF Vague, Made, Ruled, Plans!Resolved, Plans!WishLine, Plans!Needed, Plans!Line, Plans!Stock, Plans!Products,
              Plans!Skipped, Plans!Matching, Plans!PreferredSupplier, Plans!CappedQty, Plans!First
<1>3. CASE Plans!MakeLines
  <2>1. CASE Vague
    BY <1>1, <1>3, <2>1 DEF Plans!MakeLines, Vague, PlanInv
  <2>2. CASE ~Vague
    <3>1. stage' = "lined" /\ lines' = Made
      BY <1>3, <2>2 DEF Plans!MakeLines, Vague, Made
    <3> QED
      BY <1>1, <1>2, <2>2, <3>1 DEF PlanInv
  <2> QED
    BY <2>1, <2>2
<1>4. CASE Plans!ApplyPreferences
  <2>1. stage = "lined" /\ stage' = "ruled" /\ lines = Made /\ ~Vague
    BY <1>4 DEF Plans!ApplyPreferences, PlanInv
  <2>2. lines' = [i \in {j \in DOMAIN Made : ~Plans!Skipped(Made[j])} |-> Ruled(Made[i])]
    BY <1>4, <2>1 DEF Plans!ApplyPreferences, Ruled
  <2>3. lines' = [i \in {j \in DOMAIN Made' : ~Plans!Skipped(Made[j])'} |-> Ruled(Made[i])']
    BY <1>2, <2>2
  <2> QED
    BY <1>1, <1>2, <2>1, <2>3 DEF PlanInv
<1>5. CASE Plans!PlanBySupplier
  <2>1. stage = "ruled" /\ stage' = "planned" /\ lines' = lines /\ ~Vague
    BY <1>5 DEF Plans!PlanBySupplier, PlanInv
  <2>2. Plans!Wanted' = Plans!Wanted
    BY <2>1 DEF Plans!Wanted
  <2>3. orders' = [s \in {lines'[i].supplier : i \in Plans!Wanted'} |->
                       [i \in {j \in Plans!Wanted' : lines'[j].supplier = s} |-> lines'[i]]]
    BY <1>5, <2>1, <2>2 DEF Plans!PlanBySupplier
  <2>4. lines' = [i \in {j \in DOMAIN Made' : ~Plans!Skipped(Made[j])'} |-> Ruled(Made[i])']
    BY <1>2, <2>1 DEF PlanInv
  <2> QED
    BY <1>1, <1>2, <2>1, <2>3, <2>4 DEF PlanInv
<1> QED
  BY <1>3, <1>4, <1>5 DEF Plans!PlanningNext

LEMMA SmallestOf ==
  ASSUME NEW T, T \subseteq Nat, T # {}
  PROVE  \E m \in T : \A x \in T : m <= x
<1>1. PICK m \in T : \A x \in T : ~(<<x, m>> \in OpToRel(<, Nat))
  BY NatLessThanWellFounded, WFMin
<1>2. ASSUME NEW x \in T
      PROVE  ~(x < m)
  <2>1. <<x, m>> \in Nat \X Nat /\ <<x, m>>[1] = x /\ <<x, m>>[2] = m
    OBVIOUS
  <2>2. x < m => <<x, m>> \in OpToRel(<, Nat)
    BY <2>1, Zenon DEF OpToRel
  <2> QED
    BY <2>2, <1>1, Zenon
<1>3. \A x \in T : m <= x
  <2> HIDE <1>1
  <2> QED
    BY <1>2
<1> QED
  BY <1>3

\* The request, as the store and the owner give it.
LEMMA RequestFacts ==
  ASSUME request \in Requests
  PROVE  /\ \A p \in Plans!Products : Plans!Stock(p) \in Plans!RowOf
         /\ \A i \in DOMAIN request.wish : request.wish[i].qty \in Nat /\ request.wish[i].tied \subseteq Plans!Products
         /\ DOMAIN request.rules \subseteq Nat
         /\ \A i \in DOMAIN request.rules : request.rules[i].kind = "max_order_qty" => request.rules[i].max \in Nat
         /\ request.wish # <<>> <=> DOMAIN request.wish # {}
<1>1. Plans!IsRequest(request)
  BY RequestsAssumption
<1>2. \A p \in Plans!Products : Plans!Stock(p) \in Plans!RowOf
  BY <1>1 DEF Plans!IsRequest, Plans!Products, Plans!Stock
<1>3. request.wish \in Seq(Plans!WishOf(Plans!Products)) /\ request.rules \in Seq(Plans!RuleOf(Plans!Products))
  BY <1>1 DEF Plans!IsRequest, Plans!Products
<1>4. /\ DOMAIN request.wish = 1..Len(request.wish) /\ Len(request.wish) \in Nat
      /\ DOMAIN request.rules = 1..Len(request.rules) /\ Len(request.rules) \in Nat
  BY <1>3, LenProperties
<1>5. \A i \in DOMAIN request.wish : request.wish[i] \in Plans!WishOf(Plans!Products)
  BY <1>3, <1>4, ElementOfSeq
<1>6. \A i \in DOMAIN request.rules : request.rules[i] \in Plans!RuleOf(Plans!Products)
  BY <1>3, <1>4, ElementOfSeq
<1>7. \A i \in DOMAIN request.wish : request.wish[i].qty \in Nat /\ request.wish[i].tied \subseteq Plans!Products
  BY <1>5 DEF Plans!WishOf
<1>8. \A i \in DOMAIN request.rules : request.rules[i].kind = "max_order_qty" => request.rules[i].max \in Nat
  BY <1>6 DEF Plans!RuleOf
<1>9. request.wish # <<>> <=> DOMAIN request.wish # {}
  <2>1. request.wish # <<>> => Len(request.wish) # 0
    BY <1>3, EmptySeq
  <2>2. Len(request.wish) # 0 => 1 \in DOMAIN request.wish
    BY <1>4
  <2>3. DOMAIN <<>> = {}
    OBVIOUS
  <2> QED
    BY <2>1, <2>2, <2>3
<1> QED
  BY <1>2, <1>4, <1>7, <1>8, <1>9

\* The lines before the rules.
LEMMA MadeFacts ==
  ASSUME request \in Requests, ~Vague, NEW i \in DOMAIN Made
  PROVE  /\ Made[i].product \in Plans!Products /\ Made[i].qty \in Nat
         /\ Made[i] = [product |-> Made[i].product, qty |-> Made[i].qty, explicit |-> Made[i].explicit,
                       supplier |-> Made[i].supplier]
         /\ request.wish = <<>> => /\ i \in Plans!Needed /\ Made[i].product = i /\ ~Made[i].explicit
                                   /\ Made[i].qty = Plans!SuggestedQty(Plans!Stock(i))
         /\ request.wish # <<>> => /\ i \in DOMAIN request.wish /\ Made[i].product \in request.wish[i].tied
                                   /\ request.wish[i].qty # 0 => Made[i].explicit /\ Made[i].qty = request.wish[i].qty
<1>1. CASE request.wish = <<>>
  <2>1. i \in Plans!Needed /\ Made[i] = Plans!Line(i, Plans!SuggestedQty(Plans!Stock(i)), FALSE)
    BY <1>1 DEF Made
  <2>2. i \in Plans!Products
    BY <2>1 DEF Plans!Needed
  <2>3. Plans!SuggestedQty(Plans!Stock(i)) \in Nat
    BY <2>2, RequestFacts, SuggestedLasts
  <2> QED
    BY <1>1, <2>1, <2>2, <2>3 DEF Plans!Line
<1>2. CASE request.wish # <<>>
  <2>1. i \in DOMAIN request.wish /\ Made[i] = Plans!WishLine(request.wish[i])
    BY <1>2 DEF Made
  <2>2. request.wish[i].qty \in Nat /\ request.wish[i].tied \subseteq Plans!Products
    BY <2>1, RequestFacts
  <2>3. PICK p : p = CHOOSE x \in Plans!Resolved(request.wish[i].tied) : TRUE
    OBVIOUS
  <2>4. p \in Plans!Resolved(request.wish[i].tied)
    BY <2>1, <2>3 DEF Vague
  <2>5. p \in request.wish[i].tied
    BY <2>4 DEF Plans!Resolved
  <2>6. Plans!Stock(p) \in Plans!RowOf
    BY <2>2, <2>5, RequestFacts
  <2>7. PICK n : n = Plans!Either(Plans!SuggestedQty(Plans!Stock(p)),
                                  Plans!RoundUpToPack(Plans!Either(Plans!Stock(p).reorder, Plans!Stock(p).pack), Plans!Stock(p).pack))
    OBVIOUS
  <2>8. n \in Nat
    <3>1. Plans!Stock(p).reorder \in Nat /\ Plans!Stock(p).pack \in Nat
      BY <2>6 DEF Plans!RowOf
    <3>2. Plans!Either(Plans!Stock(p).reorder, Plans!Stock(p).pack) \in Nat
      BY <3>1 DEF Plans!Either
    <3>3. Plans!RoundUpToPack(Plans!Either(Plans!Stock(p).reorder, Plans!Stock(p).pack), Plans!Stock(p).pack) \in Nat
      BY <3>1, <3>2, PacksAreNat
    <3>4. Plans!SuggestedQty(Plans!Stock(p)) \in Nat
      BY <2>6, SuggestedLasts
    <3> QED
      BY <2>7, <3>3, <3>4 DEF Plans!Either
  <2>9. Made[i] = IF request.wish[i].qty # 0 THEN Plans!Line(p, request.wish[i].qty, TRUE) ELSE Plans!Line(p, n, FALSE)
    BY <2>1, <2>3, <2>7 DEF Plans!WishLine
  <2>10. CASE request.wish[i].qty # 0
    <3>1. Made[i] = Plans!Line(p, request.wish[i].qty, TRUE)
      BY <2>9, <2>10
    <3>2. Made[i].product = p /\ Made[i].qty = request.wish[i].qty /\ Made[i].explicit
      BY <3>1 DEF Plans!Line
    <3> QED
      BY <1>2, <2>1, <2>2, <2>5, <3>1, <3>2 DEF Plans!Line
  <2>11. CASE request.wish[i].qty = 0
    <3>1. Made[i] = Plans!Line(p, n, FALSE)
      BY <2>9, <2>11
    <3>2. Made[i].product = p /\ Made[i].qty = n
      BY <3>1 DEF Plans!Line
    <3> QED
      BY <1>2, <2>1, <2>2, <2>5, <2>8, <2>11, <3>1, <3>2 DEF Plans!Line
  <2> QED
    BY <2>10, <2>11
<1> QED
  BY <1>1, <1>2

\* A cap is the smallest of those that apply.
LEMMA CapFacts ==
  ASSUME request \in Requests, NEW l, l.qty \in Nat
  PROVE  /\ Plans!CappedQty(l) \in Nat
         /\ l.explicit => Plans!CappedQty(l) = l.qty
         /\ ~l.explicit => \A r \in Plans!RulesFor(l.product, "max_order_qty") : Plans!CappedQty(l) <= r.max
         /\ Plans!RulesFor(l.product, "max_order_qty") = {} => Plans!CappedQty(l) = l.qty
<1> DEFINE M == {l.qty} \union {request.rules[i].max : i \in Plans!Matching(l.product, "max_order_qty")}
<1>1. M \subseteq Nat
  BY RequestFacts DEF Plans!Matching
<1>2. \E q \in M : \A other \in M : q <= other
  BY <1>1, SmallestOf
<1>3. Plans!CappedQty(l) = IF l.explicit THEN l.qty ELSE CHOOSE q \in M : \A other \in M : q <= other
  BY DEF Plans!CappedQty
<1>4. \A r \in Plans!RulesFor(l.product, "max_order_qty") : r.max \in M
  BY DEF Plans!RulesFor
<1>5. Plans!RulesFor(l.product, "max_order_qty") = {} => M = {l.qty}
  BY DEF Plans!RulesFor
<1> HIDE DEF M
<1> QED
  BY <1>1, <1>2, <1>3, <1>4, <1>5

\* The preferred supplier is that of the oldest rule, if it is still there.
LEMMA SupplierFacts ==
  ASSUME request \in Requests, NEW l, NEW r \in Plans!RulesFor(l.product, "preferred_supplier"),
         Plans!RulesFor(l.product, "preferred_supplier") = {r}, r.supplier \in Suppliers
  PROVE  Plans!PreferredSupplier(l) = r.supplier
<1> DEFINE M == Plans!Matching(l.product, "preferred_supplier")
<1>1. M \subseteq Nat /\ M # {}
  BY RequestFacts DEF Plans!Matching, Plans!RulesFor
<1>2. \E i \in M : \A j \in M : i <= j
  BY <1>1, SmallestOf
<1>3. Plans!First(M) \in Plans!RulesFor(l.product, "preferred_supplier")
  BY <1>2 DEF Plans!First, Plans!RulesFor
<1> QED
  BY <1>1, <1>3 DEF Plans!PreferredSupplier

LEMMA RuledFacts ==
  ASSUME request \in Requests, ~Vague, NEW i \in DOMAIN Made
  PROVE  /\ Ruled(Made[i]).product = Made[i].product /\ Ruled(Made[i]).explicit = Made[i].explicit
         /\ Ruled(Made[i]).qty = Plans!CappedQty(Made[i]) /\ Ruled(Made[i]).supplier = Plans!PreferredSupplier(Made[i])
BY MadeFacts DEF Ruled

\* What is ordered: the lines that the rules left, with their quantities.
LEMMA OrderedFacts ==
  ASSUME PlanInv, stage = "planned"
  PROVE  /\ ~Vague /\ request \in Requests
         /\ \A l \in Plans!Ordered : \E i \in DOMAIN Made : l = Ruled(Made[i]) /\ ~Plans!Skipped(Made[i])
         /\ \A i \in DOMAIN Made : ~Plans!Skipped(Made[i]) /\ Plans!CappedQty(Made[i]) > 0 => Ruled(Made[i]) \in Plans!Ordered
         /\ \A s \in DOMAIN orders : \A i \in DOMAIN orders[s] :
               i \in DOMAIN Made /\ orders[s][i] = Ruled(Made[i]) /\ orders[s][i].supplier = s
<1>1. /\ request \in Requests /\ ~Vague
      /\ lines = [i \in {j \in DOMAIN Made : ~Plans!Skipped(Made[j])} |-> Ruled(Made[i])]
      /\ orders = [s \in {lines[i].supplier : i \in Plans!Wanted} |->
                       [i \in {j \in Plans!Wanted : lines[j].supplier = s} |-> lines[i]]]
  BY DEF PlanInv
<1>2. \A i \in Plans!Wanted : i \in DOMAIN Made /\ ~Plans!Skipped(Made[i]) /\ lines[i] = Ruled(Made[i])
  BY <1>1 DEF Plans!Wanted
<1>3. \A s \in DOMAIN orders : \A i \in DOMAIN orders[s] :
         i \in Plans!Wanted /\ orders[s][i] = lines[i] /\ lines[i].supplier = s
  BY <1>1
<1>4. \A i \in Plans!Wanted : \E s \in DOMAIN orders : i \in DOMAIN orders[s] /\ orders[s][i] = lines[i]
  BY <1>1
<1>5. ASSUME NEW i \in DOMAIN Made, ~Plans!Skipped(Made[i]), Plans!CappedQty(Made[i]) > 0
      PROVE  Ruled(Made[i]) \in Plans!Ordered
  <2>1. Ruled(Made[i]).qty = Plans!CappedQty(Made[i])
    BY <1>1, RuledFacts
  <2>2. i \in Plans!Wanted /\ lines[i] = Ruled(Made[i])
    BY <1>1, <1>5, <2>1 DEF Plans!Wanted
  <2> QED
    BY <2>2, <1>4 DEF Plans!Ordered
<1>6. ASSUME NEW l \in Plans!Ordered
      PROVE  \E i \in DOMAIN Made : l = Ruled(Made[i]) /\ ~Plans!Skipped(Made[i])
  BY <1>2, <1>3, <1>6 DEF Plans!Ordered
<1> QED
  BY <1>1, <1>2, <1>3, <1>5, <1>6

PlansPart == part = "plans" => PlanInv

LEMMA PlansSafe ==
  BackOfficeSpec => []PlansPart
<1>1. BackOfficeInit => PlansPart
  BY PlanBegins DEF BackOfficeInit, PlansPart
<1>2. PlansPart /\ [BackOfficeNext]_backOffice => PlansPart'
  <2> SUFFICES ASSUME PlansPart, [BackOfficeNext]_backOffice, part' = "plans"
               PROVE  PlanInv'
    BY DEF PlansPart
  <2>1. CASE PlansOrders
    BY <2>1, PlanKept DEF PlansOrders, PlansPart
  <2>2. CASE ~PlansOrders
    <3>1. part' = part /\ UNCHANGED <<request, stage, lines, orders>>
      BY <2>2 DEF BackOfficeNext, Notifies, Syncs, Parses, Administers, Talks, Chats, backOffice, plans
    <3>2. Vague' = Vague /\ Made' = Made /\ (\A l : Ruled(l)' = Ruled(l) /\ Plans!Skipped(l)' = Plans!Skipped(l))
      BY <3>1 DEF Vague, Made, Ruled, Plans!Resolved, Plans!WishLine, Plans!Needed, Plans!Line, Plans!Stock, Plans!Products,
                  Plans!Skipped, Plans!Matching, Plans!PreferredSupplier, Plans!CappedQty, Plans!First
    <3>3. Plans!Wanted' = Plans!Wanted
      BY <3>1 DEF Plans!Wanted
    <3>4. PlanInv
      BY <3>1 DEF PlansPart
    <3>5. stage' \in {"ruled", "planned"} => lines' = [i \in {j \in DOMAIN Made' : ~Plans!Skipped(Made[j])'} |-> Ruled(Made[i])']
      BY <3>1, <3>2, <3>4 DEF PlanInv
    <3>6. stage' = "planned" =>
             orders' = [s \in {lines'[i].supplier : i \in Plans!Wanted'} |->
                          [i \in {j \in Plans!Wanted' : lines'[j].supplier = s} |-> lines'[i]]]
      <4> DEFINE Split(W, ls, os) == os = [s \in {ls[i].supplier : i \in W} |->
                                            [i \in {j \in W : ls[j].supplier = s} |-> ls[i]]]
      <4>1. stage = "planned" => Split(Plans!Wanted, lines, orders)
        BY <3>4 DEF PlanInv
      <4>2. stage' = stage /\ lines' = lines /\ orders' = orders
        BY <3>1
      <4>3. SUFFICES stage' = "planned" => Split(Plans!Wanted', lines', orders')
        OBVIOUS
      <4> HIDE DEF Split
      <4> QED
        BY <4>1, <4>2, <3>3
    <3>7. request' \in Requests /\ (stage' \in {"lined", "ruled", "planned"} => ~Vague') /\ (stage' = "lined" => lines' = Made')
      BY <3>1, <3>2, <3>4 DEF PlanInv
    <3> QED
      BY <3>5, <3>6, <3>7 DEF PlanInv
  <2> QED
    BY <2>1, <2>2
<1> QED
  BY <1>1, <1>2, PTL DEF BackOfficeSpec

\* What needs ordering is ordered, in the smallest number of packs that last for
\* the lead time and the week after it, and nothing else is, nor anything twice
\* (suggest_reorder and suggestedOrderQty, whatever the stock and the packs).
THEOREM NeedsAreOrdered ==
  BackOfficeSpec => []SuggestionsLast
<1>1. PlansPart => SuggestionsLast
  <2> SUFFICES ASSUME PlanInv, stage = "planned", request.wish = <<>>
               PROVE  /\ \A p \in Plans!Products :
                            Plans!NeedsReorder(Plans!Stock(p)) /\ Plans!NeededTenths(Plans!Stock(p)) > 0
                            /\ Plans!RulesFor(p, "skip_item") = {} /\ Plans!RulesFor(p, "max_order_qty") = {}
                            => \E l \in Plans!Ordered : l.product = p /\ Plans!LastsPackwise(Plans!Stock(p), l.qty)
                      /\ \A l \in Plans!Ordered : Plans!NeedsReorder(Plans!Stock(l.product))
                      /\ \A s, t \in DOMAIN orders : \A i \in DOMAIN orders[s], j \in DOMAIN orders[t] :
                            orders[s][i].product = orders[t][j].product => s = t /\ i = j
    BY DEF PlansPart, SuggestionsLast, Plans!SuggestionsLast
  <2>1. request \in Requests /\ ~Vague /\ DOMAIN Made = Plans!Needed
    BY OrderedFacts DEF Made
  <2>2. ASSUME NEW p \in Plans!Products, Plans!NeedsReorder(Plans!Stock(p)), Plans!NeededTenths(Plans!Stock(p)) > 0,
               Plans!RulesFor(p, "skip_item") = {}, Plans!RulesFor(p, "max_order_qty") = {}
        PROVE  \E l \in Plans!Ordered : l.product = p /\ Plans!LastsPackwise(Plans!Stock(p), l.qty)
    <3>1. p \in DOMAIN Made
      BY <2>1, <2>2 DEF Plans!Needed
    <3>2. Made[p].product = p /\ Made[p].qty = Plans!SuggestedQty(Plans!Stock(p)) /\ Made[p].qty \in Nat
      BY <2>1, <3>1, MadeFacts
    <3>3. ~Plans!Skipped(Made[p])
      BY <2>2, <3>2 DEF Plans!Skipped, Plans!RulesFor
    <3>4. Plans!CappedQty(Made[p]) = Plans!SuggestedQty(Plans!Stock(p))
      BY <2>1, <2>2, <3>2, CapFacts
    <3>5. /\ Plans!SuggestedQty(Plans!Stock(p)) > 0
          /\ Plans!LastsPackwise(Plans!Stock(p), Plans!SuggestedQty(Plans!Stock(p)))
      BY <2>1, <2>2, RequestFacts, SuggestedLasts
    <3>6. Ruled(Made[p]) \in Plans!Ordered
      BY <3>1, <3>3, <3>4, <3>5, OrderedFacts
    <3>7. Ruled(Made[p]).product = p /\ Ruled(Made[p]).qty = Plans!SuggestedQty(Plans!Stock(p))
      BY <2>1, <3>1, <3>2, <3>4, RuledFacts
    <3> QED
      BY <3>5, <3>6, <3>7
  <2>3. ASSUME NEW l \in Plans!Ordered PROVE Plans!NeedsReorder(Plans!Stock(l.product))
    <3>1. PICK i \in DOMAIN Made : l = Ruled(Made[i])
      BY <2>3, OrderedFacts
    <3>2. l.product = i /\ i \in Plans!Needed
      BY <2>1, <3>1, MadeFacts, RuledFacts
    <3> QED
      BY <3>2 DEF Plans!Needed
  <2>4. ASSUME NEW s \in DOMAIN orders, NEW t \in DOMAIN orders, NEW i \in DOMAIN orders[s], NEW j \in DOMAIN orders[t],
               orders[s][i].product = orders[t][j].product
        PROVE  s = t /\ i = j
    <3>1. /\ i \in DOMAIN Made /\ orders[s][i] = Ruled(Made[i]) /\ orders[s][i].supplier = s
          /\ j \in DOMAIN Made /\ orders[t][j] = Ruled(Made[j]) /\ orders[t][j].supplier = t
      BY OrderedFacts
    <3>2. Ruled(Made[i]).product = i /\ Ruled(Made[j]).product = j
      BY <2>1, <3>1, MadeFacts, RuledFacts
    <3> QED
      BY <2>4, <3>1, <3>2
  <2> QED
    BY <2>2, <2>3, <2>4
<1> QED
  BY <1>1, PlansSafe, PTL

\* The rules an owner stated hold of every plan: skips, caps and preferred
\* suppliers; and a product or quantity the owner named wins over them
\* (applyPreferences, whatever the rules and their order).
THEOREM RulesObeyed ==
  BackOfficeSpec => []RulesKept
<1>1. PlansPart => RulesKept
  <2> SUFFICES ASSUME PlanInv, stage = "planned"
               PROVE  Plans!RulesKept
    BY DEF PlansPart, RulesKept, Plans!RulesKept
  <2>1. request \in Requests /\ ~Vague
    BY OrderedFacts
  <2>2. ASSUME NEW l \in Plans!Ordered
        PROVE  /\ Plans!RulesFor(l.product, "skip_item") # {} => request.wish # <<>>
               /\ ~l.explicit => \A r \in Plans!RulesFor(l.product, "max_order_qty") : l.qty <= r.max
               /\ \A r \in Plans!RulesFor(l.product, "preferred_supplier") :
                     Plans!RulesFor(l.product, "preferred_supplier") = {r} /\ r.supplier \in Suppliers => l.supplier = r.supplier
    <3>1. PICK i \in DOMAIN Made : l = Ruled(Made[i]) /\ ~Plans!Skipped(Made[i])
      BY <2>2, OrderedFacts
    <3>2. /\ l.product = Made[i].product /\ l.explicit = Made[i].explicit /\ l.qty = Plans!CappedQty(Made[i])
          /\ l.supplier = Plans!PreferredSupplier(Made[i]) /\ Made[i].qty \in Nat
      BY <2>1, <3>1, MadeFacts, RuledFacts
    <3>3. Plans!RulesFor(l.product, "skip_item") # {} => request.wish # <<>>
      BY <3>1, <3>2 DEF Plans!Skipped, Plans!RulesFor
    <3>4. ~l.explicit => \A r \in Plans!RulesFor(l.product, "max_order_qty") : l.qty <= r.max
      BY <2>1, <3>2, CapFacts
    <3>5. \A r \in Plans!RulesFor(l.product, "preferred_supplier") :
             Plans!RulesFor(l.product, "preferred_supplier") = {r} /\ r.supplier \in Suppliers => l.supplier = r.supplier
      BY <2>1, <3>2, SupplierFacts
    <3> QED
      BY <3>3, <3>4, <3>5
  <2>3. ASSUME NEW i \in DOMAIN request.wish, request.wish[i].qty # 0
        PROVE  \E l \in Plans!Ordered : l.product \in request.wish[i].tied /\ l.qty = request.wish[i].qty
    <3>1. request.wish # <<>> /\ i \in DOMAIN Made
      BY <2>1, <2>3, RequestFacts DEF Made
    <3>2. Made[i].product \in request.wish[i].tied /\ Made[i].explicit /\ Made[i].qty = request.wish[i].qty /\ Made[i].qty \in Nat
      BY <2>1, <2>3, <3>1, MadeFacts
    <3>3. ~Plans!Skipped(Made[i]) /\ Plans!CappedQty(Made[i]) = request.wish[i].qty
      BY <2>1, <3>1, <3>2, CapFacts DEF Plans!Skipped
    <3>4. Ruled(Made[i]) \in Plans!Ordered
      <4>1. Plans!CappedQty(Made[i]) > 0
        BY <2>3, <3>2, <3>3
      <4> QED
        BY <4>1, <3>1, <3>3, OrderedFacts
    <3>5. Ruled(Made[i]).product = Made[i].product /\ Ruled(Made[i]).qty = Plans!CappedQty(Made[i])
      BY <2>1, <3>1, RuledFacts
    <3> QED
      BY <3>2, <3>3, <3>4, <3>5
  <2> QED
    BY <2>2, <2>3 DEF Plans!RulesKept
<1> QED
  BY <1>1, PlansSafe, PTL

=============================================================================
