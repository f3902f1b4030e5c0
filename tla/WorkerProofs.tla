---------------------------- MODULE WorkerProofs ----------------------------
(***************************************************************************)
(* Theorems of the worker's notifier and of its product sync, for any      *)
(* number of workers, notifications, flushes, products, pages, changes of  *)
(* the list and faults.                                                    *)
(***************************************************************************)
EXTENDS BackOffice, FiniteSetTheorems, WellFoundedInduction, SequenceTheorems, TLAPS

-----------------------------------------------------------------------------
(* The notifier.                                                           *)

Put(i) == i \in DOMAIN rows /\ rows[i].status # "none"
Working(w) == job[w].kind # "none"
RowTypes == {"coalesced", "plain", "none"}
RowRecords == [status : {"none", "pending", "expired", "deleted", "failed_terminal"}, type : RowTypes, old : BOOLEAN, note : Nat]
Deferring == {"deferring", "coalescing", "inserted", "trimming"}
NotePhases == Deferring \union {"popped", "asking", "sending", "flushed", "refused", "recording"}
NoteJobs == [kind : {"notify", "flush"}, note : Nat, type : RowTypes, known : BOOLEAN, attempt : Nat]
RunningJobs == [kind : {"notify", "flush"}, note : Nat, type : RowTypes, known : BOOLEAN, attempt : Nat,
                phase : NotePhases, row : Nat, id : Nat, seen : SUBSET Nat, gone : SUBSET Nat]

NoteTypes ==
    /\ rows \in Seq(RowRecords) /\ sends \in Seq(Nat) /\ lost \in Seq(Nat) /\ Len(lost) = Len(sends)
    /\ job \in [Workers -> RunningJobs \union {Notif!NoJob}]
    /\ queued \subseteq NoteJobs
    /\ \A q \in queued : IF q.kind = "notify" THEN q.note \in 1..Len(sends) ELSE q.known
    /\ \A i \in DOMAIN rows : Put(i) => rows[i].note \in 1..Len(sends)

\* What a worker knows of the notification and of the rows it deals with.
NoteTask(w) ==
    /\ IF job[w].kind = "notify" THEN job[w].note \in 1..Len(sends) /\ job[w].row = 0 ELSE job[w].known
    /\ job[w].row # 0 => Put(job[w].row)
    /\ job[w].phase = "popped" => job[w].row = 0 /\ job[w].id = 0 /\ job[w].gone = {}
    /\ job[w].phase = "asking" => job[w].kind = "flush" /\ job[w].row # 0 /\ job[w].id # 0
    /\ job[w].phase = "flushed" => job[w].kind = "flush"
    /\ job[w].phase \notin {"inserted", "trimming"} => job[w].gone = {}

\* The row a worker has begun and not committed.
OwnRow(w) ==
    /\ job[w].id # 0 => job[w].id \in DOMAIN rows /\ ~Put(job[w].id)
    /\ job[w].phase \in Deferring =>
          /\ job[w].id # 0
          /\ IF job[w].kind = "notify" THEN rows[job[w].id].note = job[w].note
             ELSE job[w].row # 0 /\ rows[job[w].id].note = rows[job[w].row].note

\* The rows a deferral found to be replaced or beyond the limit.
Replaced(w) ==
    /\ job[w].gone # {} => rows[job[w].id].type = "coalesced"
    /\ \A i \in job[w].gone : Put(i) /\ rows[i].type = "coalesced"
    /\ job[w].phase = "coalescing" =>
          /\ job[w].seen # {} => rows[job[w].id].type = "coalesced"
          /\ \A i \in job[w].seen : Put(i) /\ rows[i].type = "coalesced"
    /\ job[w].phase = "trimming" =>
          \A i \in job[w].seen : /\ Put(i) \/ i = job[w].id
                                 /\ Notif!NewerThan(i, Notif!Committed \union {job[w].id}) >= MaxPending

Ready(w) == Working(w) => NoteTask(w) /\ OwnRow(w) /\ Replaced(w)
OwnApart == \A v, w \in Workers : v # w /\ Working(v) /\ Working(w) /\ job[v].id = job[w].id => job[v].id = 0

\* A notification is on its way at most once.
Waits(n) == \E q \in queued : q.kind = "notify" /\ q.note = n
Runs(n) == \E w \in Workers : job[w].kind = "notify" /\ job[w].note = n
OneWay(n) ==
    /\ ~(Waits(n) /\ Runs(n))
    /\ \A p, q \in queued : p.kind = "notify" /\ q.kind = "notify" /\ p.note = n /\ q.note = n => p = q
    /\ \A v, w \in Workers : job[v].kind = "notify" /\ job[w].kind = "notify" /\ job[v].note = n /\ job[w].note = n => v = w
PutOff(n) == \E i \in DOMAIN rows : Put(i) /\ rows[i].note = n
One(b) == IF b THEN 1 ELSE 0
Told(n) == sends[n] + One(PutOff(n)) + One(Waits(n) \/ Runs(n)) <= 1 + lost[n]

RowsKept ==
    /\ \A i \in Notif!Committed : rows[i].status = "deleted" /\ rows[i].type # "coalesced" =>
          Notif!NewerThan(i, Notif!Committed) >= MaxPending
    /\ (\E i \in Notif!Committed : rows[i].type = "coalesced") =>
          \E i \in Notif!Committed : rows[i].type = "coalesced" /\ Notif!Survives(i)
    /\ \A i \in refused : Put(i) /\ rows[i].status # "pending"

NoteInv ==
    /\ NoteTypes /\ OwnApart /\ RowsKept
    /\ \A w \in Workers : Ready(w)
    /\ \A n \in 1..Len(sends) : OneWay(n) /\ Told(n)

\* How many may be pending when a deferral commits: it did not see the commits of others since.
Trimming(w) == Working(w) /\ job[w].phase = "trimming"
Left(w) == ((Notif!Pending \ job[w].gone) \union {job[w].id}) \ job[w].seen
Overlaps(N) ==
    /\ \A w \in Workers : w \notin N[w]
    /\ \A w \in Workers : Trimming(w) => Cardinality(Left(w)) <= MaxPending + Cardinality(N[w])
    /\ \A v, w \in Workers : Trimming(v) /\ Trimming(w) /\ v \in N[w] => N[v] \subseteq N[w]
LimitInv ==
    /\ Cardinality(Notif!Pending) <= MaxPending + Cardinality(Workers) - 1
    /\ \E N \in [Workers -> SUBSET Workers] : Overlaps(N)

\* What a step may do to the table: begin or change the row own, which is not
\* committed, commit the rows new, delete the rows gone, and close others.
RowsMove(own, new, gone) ==
    /\ rows' \in Seq(RowRecords) /\ DOMAIN rows \subseteq DOMAIN rows'
    /\ \A i \in DOMAIN rows' : Put(i)' <=> Put(i) \/ i \in new
    /\ \A i \in DOMAIN rows : i # own => rows'[i].note = rows[i].note /\ rows'[i].type = rows[i].type
    /\ \A i \in DOMAIN rows' : rows'[i].status = "deleted" => (Put(i) /\ rows[i].status = "deleted") \/ i \in gone
    /\ \A i \in DOMAIN rows' : rows'[i].status = "pending" => ((i \in DOMAIN rows /\ rows[i].status = "pending") \/ i \in new) /\ i \notin gone

LEMMA RowFacts ==
  ASSUME NEW r, r \in Seq(RowRecords)
  PROVE  Len(r) \in Nat /\ DOMAIN r = 1..Len(r) /\ \A i \in DOMAIN r : r[i] \in RowRecords
BY LenProperties, ElementOfSeq

\* The instance counts as FiniteSets does.
LEMMA NoteCounts ==
  ASSUME NEW S
  PROVE  Notif!Cardinality(S) = Cardinality(S)
BY DEF Notif!Cardinality, Cardinality

LEMMA NewerGrows ==
  ASSUME NEW top \in Nat, NEW T, NEW S, S \subseteq T, T \subseteq 1..top, NEW i, Notif!NewerThan(i, S) >= MaxPending
  PROVE  Notif!NewerThan(i, T) >= MaxPending
<1> DEFINE A == {k \in S : k > i}
           B == {k \in T : k > i}
<1>1. IsFiniteSet(1..top)
  BY FS_Interval
<1>2. B \in SUBSET (1..top) /\ A \in SUBSET B
  OBVIOUS
<1>3. IsFiniteSet(B)
  BY <1>1, <1>2, FS_Subset
<1>4. IsFiniteSet(A) /\ Cardinality(A) <= Cardinality(B)
  BY <1>2, <1>3, FS_Subset
<1>5. Cardinality(A) \in Nat /\ Cardinality(B) \in Nat
  BY <1>3, <1>4, FS_CardinalityType
<1>a. Notif!NewerThan(i, S) = Cardinality(A) /\ Notif!NewerThan(i, T) = Cardinality(B)
  BY NoteCounts DEF Notif!NewerThan
<1> HIDE DEF A, B
<1>6. Cardinality(A) >= MaxPending
  BY <1>a
<1>7. Cardinality(B) >= MaxPending
  BY <1>4, <1>5, <1>6, WorkersAssumption
<1> QED
  BY <1>7, <1>a

\* A job is not disturbed by what others do to the table.
LEMMA OthersReady ==
  ASSUME NoteTypes, NEW own, NEW new, NEW gone, RowsMove(own, new, gone),
         own = 0 \/ ~Put(own),
         Len(sends') >= Len(sends), Len(sends') \in Nat,
         NEW v \in Workers, Working(v) => Ready(v), job'[v] = job[v],
         Working(v) /\ job[v].id # 0 => job[v].id # own /\ job[v].id \notin new
  PROVE  Ready(v)'
<1> SUFFICES ASSUME Working(v)
             PROVE  (NoteTask(v) /\ OwnRow(v) /\ Replaced(v))'
  BY DEF Ready, Working
<1> DEFINE j == job[v]
<1>0. NoteTask(v) /\ OwnRow(v) /\ Replaced(v) /\ Working(v)
  BY DEF Ready
<1>1. DOMAIN rows = 1..Len(rows) /\ Len(rows) \in Nat /\ Len(sends) \in Nat
  BY RowFacts, LenProperties DEF NoteTypes
<1>2. DOMAIN rows' = 1..Len(rows') /\ Len(rows') \in Nat
  BY RowFacts DEF RowsMove
<1>3. \A i : Put(i) => Put(i)' /\ rows'[i].note = rows[i].note /\ rows'[i].type = rows[i].type
  BY <1>1 DEF RowsMove, Put
<1>4. NoteTask(v)'
  <2>1. 1..Len(sends) \subseteq 1..Len(sends')
    BY <1>1
  <2> QED
    BY <2>1, <1>0, <1>3 DEF NoteTask
<1>5. OwnRow(v)'
  <2>1. j.id # 0 => /\ j.id \in DOMAIN rows' /\ ~Put(j.id)'
                    /\ rows'[j.id].note = rows[j.id].note /\ rows'[j.id].type = rows[j.id].type
    BY <1>0 DEF OwnRow, RowsMove
  <2>2. job[v].phase \in Deferring /\ j.kind # "notify" => Put(j.row)
    BY <1>0 DEF OwnRow, NoteTask
  <2> QED
    BY <2>1, <2>2, <1>0, <1>3 DEF OwnRow
<1>6. Replaced(v)'
  <2>1. j.id # 0 => rows'[j.id].type = rows[j.id].type
    BY <1>0 DEF OwnRow, RowsMove
  <2>2. j.phase \in Deferring => j.id # 0
    BY <1>0 DEF OwnRow
  <2>3. j.gone # {} => rows'[j.id].type = "coalesced"
    BY <1>0, <2>1, <2>2 DEF NoteTask, Replaced, Deferring
  <2>4. \A i \in j.gone : Put(i)' /\ rows'[i].type = "coalesced"
    BY <1>0, <1>3 DEF Replaced
  <2>5. j.phase = "coalescing" =>
          /\ j.seen # {} => rows'[j.id].type = "coalesced"
          /\ \A i \in j.seen : Put(i)' /\ rows'[i].type = "coalesced"
    BY <1>0, <1>3, <2>1, <2>2 DEF Replaced, Deferring
  <2>6. ASSUME j.phase = "trimming", NEW i \in j.seen
        PROVE  (Put(i)' \/ i = j.id) /\ Notif!NewerThan(i, Notif!Committed' \union {j.id}) >= MaxPending
    <3>1. /\ Put(i) \/ i = j.id
          /\ Notif!NewerThan(i, Notif!Committed \union {j.id}) >= MaxPending
      BY <1>0, <2>6 DEF Replaced
    <3>2. j.id \in DOMAIN rows
      BY <1>0, <2>6 DEF OwnRow, Deferring
    <3>3. Notif!Committed \union {j.id} \subseteq Notif!Committed' \union {j.id}
      BY <1>3 DEF Notif!Committed, Put
    <3>4. Notif!Committed' \union {j.id} \subseteq 1..Len(rows')
      BY <1>2, <3>2 DEF Notif!Committed, RowsMove
    <3>5. PICK m : m = Len(rows')
      OBVIOUS
    <3>6. PICK C : C = Notif!Committed' \union {j.id}
      OBVIOUS
    <3>7. Notif!NewerThan(i, C) >= MaxPending
      BY <3>1, <3>3, <3>4, <3>5, <3>6, <1>2, NewerGrows
    <3> QED
      BY <3>1, <3>6, <3>7, <1>3
  <2> QED
    BY <2>3, <2>4, <2>5, <2>6 DEF Replaced
<1> QED
  BY <1>4, <1>5, <1>6

\* What a step of a worker may do: to the table, see RowsMove; to its job, which
\* goes on, ends or waits for its next attempt; and to the counts of its
\* notification, t brought to Telegram, s of them unheard.
Outcome(w, q) ==
    \/ queued' = queued /\ (Working(w)' => job'[w].kind = job[w].kind /\ job'[w].note = job[w].note)
    \/ /\ queued' = queued \union {q} /\ q \in NoteJobs /\ ~Working(w)'
       /\ q.kind = job[w].kind /\ q.note = job[w].note /\ q.known = job[w].known
Ends(w) == queued' = queued /\ ~Working(w)'
Counting(w, t, s) ==
    IF job[w].kind = "notify"
    THEN /\ sends' = [sends EXCEPT ![job[w].note] = @ + t] /\ lost' = [lost EXCEPT ![job[w].note] = @ + s]
    ELSE sends' = sends /\ lost' = lost
NoteStep(w, own, new, gone, q, t, s) ==
    /\ RowsMove(own, new, gone) /\ own \in {0, job[w].id} /\ new \in {{}, {job[w].id}}
    /\ new # {} => job[w].phase = "trimming" /\ own = 0 /\ t = 0 /\ s = 0
    /\ \A v \in Workers \ {w} : job'[v] = job[v]
    /\ Working(w)' /\ job'[w].id # 0 => job'[w].id = job[w].id \/ job'[w].id \notin DOMAIN rows
    /\ Outcome(w, q) /\ (t > s \/ new # {} => Ends(w))
    /\ Counting(w, t, s)

LEMMA SameCounts ==
  ASSUME NoteTypes, NEW w \in Workers, Ready(w), Working(w), NEW t \in {0, 1}, NEW s \in {0, 1}, Counting(w, t, s)
  PROVE  /\ sends' \in Seq(Nat) /\ lost' \in Seq(Nat) /\ Len(sends') = Len(sends) /\ Len(lost') = Len(lost)
         /\ \A n \in 1..Len(sends) :
              /\ sends[n] \in Nat /\ lost[n] \in Nat
              /\ IF job[w].kind = "notify" /\ job[w].note = n THEN sends'[n] = sends[n] + t /\ lost'[n] = lost[n] + s
                 ELSE sends'[n] = sends[n] /\ lost'[n] = lost[n]
<1>1. /\ DOMAIN sends = 1..Len(sends) /\ DOMAIN lost = 1..Len(sends)
      /\ \A n \in 1..Len(sends) : sends[n] \in Nat /\ lost[n] \in Nat
  BY LenProperties, ElementOfSeq DEF NoteTypes
<1>2. CASE job[w].kind = "notify"
  <2> DEFINE n == job[w].note
  <2>1. n \in 1..Len(sends)
    BY <1>2 DEF Ready, NoteTask
  <2>2. sends' = [sends EXCEPT ![n] = @ + t] /\ lost' = [lost EXCEPT ![n] = @ + s]
    BY <1>2 DEF Counting
  <2>3. sends[n] + t \in Nat /\ lost[n] + s \in Nat
    BY <1>1, <2>1
  <2>4. sends' \in Seq(Nat) /\ Len(sends') = Len(sends)
    BY <1>1, <2>1, <2>2, <2>3, ExceptSeq DEF NoteTypes
  <2>5. lost' \in Seq(Nat) /\ Len(lost') = Len(lost)
    BY <1>1, <2>1, <2>2, <2>3, ExceptSeq DEF NoteTypes
  <2> QED
    BY <1>1, <1>2, <2>1, <2>2, <2>4, <2>5
<1>3. CASE job[w].kind # "notify"
  BY <1>1, <1>3 DEF Counting, NoteTypes
<1> QED
  BY <1>2, <1>3

\* What is told of a notification, by what may still be told of it.
LEMMA TellingAdds ==
  ASSUME NEW a \in Nat, NEW b \in Nat, NEW p \in {0, 1},
         NEW p2 \in {0, 1}, NEW r2 \in {0, 1}, NEW t \in {0, 1}, NEW s \in {0, 1},
         a + p + 1 <= 1 + b, t > s => r2 = 0, p2 > p => r2 = 0 /\ t = 0
  PROVE  (a + t) + p2 + r2 <= 1 + (b + s)
OBVIOUS

LEMMA WorkerTells ==
  ASSUME NoteInv, NEW w \in Workers, Working(w), Ready(w)', RowsKept',
         job' \in [Workers -> RunningJobs \union {Notif!NoJob}],
         NEW own, NEW new, NEW gone, NEW q, NEW t \in {0, 1}, NEW s \in {0, 1},
         NoteStep(w, own, new, gone, q, t, s)
  PROVE  NoteInv'
<1>0. /\ NoteTypes /\ OwnApart /\ Ready(w) /\ NoteTask(w) /\ OwnRow(w) /\ RowsMove(own, new, gone)
      /\ Counting(w, t, s) /\ Outcome(w, q) /\ job[w].kind \in {"notify", "flush"}
  BY DEF NoteInv, Ready, NoteStep, NoteTypes, Working, Notif!NoJob, RunningJobs
<1>1. /\ sends' \in Seq(Nat) /\ lost' \in Seq(Nat) /\ Len(sends') = Len(sends) /\ Len(lost') = Len(lost)
      /\ \A n \in 1..Len(sends) :
            /\ sends[n] \in Nat /\ lost[n] \in Nat
            /\ IF job[w].kind = "notify" /\ job[w].note = n THEN sends'[n] = sends[n] + t /\ lost'[n] = lost[n] + s
               ELSE sends'[n] = sends[n] /\ lost'[n] = lost[n]
  BY <1>0, SameCounts
<1>2. DOMAIN rows = 1..Len(rows) /\ Len(rows) \in Nat /\ Len(sends) \in Nat
  BY <1>0, RowFacts, LenProperties DEF NoteTypes
<1>3. own = 0 \/ ~Put(own)
  BY <1>0 DEF NoteStep, OwnRow
<1>4. \A v \in Workers : Ready(v)'
  <2>1. ASSUME NEW v \in Workers, v # w
        PROVE  Ready(v)'
    <3>1. Working(v) /\ job[v].id # 0 => job[v].id # own /\ job[v].id \notin new
      BY <1>0, <2>1 DEF NoteStep, OwnApart
    <3>2. (Working(v) => Ready(v)) /\ job'[v] = job[v]
      BY <2>1 DEF NoteInv, NoteStep
    <3> QED
      BY <3>1, <3>2, <1>0, <1>1, <1>2, <1>3, OthersReady
  <2> QED
    BY <2>1
<1>5. OwnApart'
  <2>1. \A v \in Workers : v # w /\ Working(v) => job'[v] = job[v] /\ (job[v].id # 0 => job[v].id \in DOMAIN rows)
    BY DEF NoteInv, Ready, OwnRow, NoteStep
  <2>2. \A v \in Workers : v # w => (Working(v)' <=> Working(v)) /\ job'[v] = job[v]
    BY DEF NoteStep, Working
  <2>3. ASSUME NEW v \in Workers, v # w, Working(v), Working(w)', job[v].id = job'[w].id, job[v].id # 0
        PROVE  FALSE
    <3>1. job'[w].id = job[w].id
      BY <2>1, <2>3 DEF NoteStep
    <3> QED
      BY <3>1, <2>3, <1>0 DEF OwnApart
  <2> QED
    BY <2>2, <2>3, <1>0 DEF OwnApart
<1>6. NoteTypes'
  <2>1. queued' \subseteq NoteJobs
    BY <1>0 DEF Outcome, NoteTypes
  <2>2. \A r \in queued' : IF r.kind = "notify" THEN r.note \in 1..Len(sends') ELSE r.known
    <3> SUFFICES ASSUME NEW r \in queued'
                 PROVE  IF r.kind = "notify" THEN r.note \in 1..Len(sends) ELSE r.known
      BY <1>1
    <3>1. CASE r \in queued
      BY <3>1, <1>0 DEF NoteTypes
    <3>2. CASE r = q /\ q.kind = job[w].kind /\ q.note = job[w].note /\ q.known = job[w].known
      BY <3>2, <1>0 DEF NoteTask
    <3> QED
      BY <3>1, <3>2, <1>0 DEF Outcome
  <2>3. ASSUME NEW i \in DOMAIN rows', Put(i)'
        PROVE  rows'[i].note \in 1..Len(sends')
    <3>1. CASE i \in new
      <4>1. i = job[w].id /\ job[w].phase \in Deferring /\ i # 0 /\ own = 0
        BY <3>1, <1>0 DEF NoteStep, Deferring, OwnRow
      <4>2. rows[i].note \in 1..Len(sends)
        BY <4>1, <1>0 DEF OwnRow, NoteTask, NoteTypes, Put
      <4>3. i # own
        BY <4>1
      <4> QED
        BY <4>1, <4>2, <4>3, <1>0, <1>1 DEF RowsMove, OwnRow
    <3>2. CASE i \notin new
      <4>1. Put(i)
        BY <2>3, <3>2, <1>0 DEF RowsMove
      <4>2. i # own /\ i \in DOMAIN rows
        BY <4>1, <1>2, <1>3 DEF Put
      <4> QED
        BY <4>1, <4>2, <1>0, <1>1 DEF RowsMove, NoteTypes
    <3> QED
      BY <3>1, <3>2
  <2> QED
    BY <2>1, <2>2, <2>3, <1>0, <1>1 DEF NoteTypes, RowsMove
<1>7. ASSUME NEW n \in 1..Len(sends)
      PROVE  OneWay(n)' /\ Told(n)'
  <2>0. OneWay(n) /\ Told(n)
    BY DEF NoteInv
  <2>1. \A v \in Workers : v # w => job'[v] = job[v]
    BY DEF NoteStep
  <2>2. OneWay(n)' /\ (Waits(n)' \/ Runs(n)' => Waits(n) \/ Runs(n))
    <3>1. CASE queued' = queued /\ (Working(w)' => job'[w].kind = job[w].kind /\ job'[w].note = job[w].note)
      <4>1. \A v \in Workers : job'[v].kind = "notify" => job[v].kind = "notify" /\ job'[v].note = job[v].note
        BY <3>1, <2>1 DEF Working
      <4>2. (Runs(n)' => Runs(n)) /\ (Waits(n)' <=> Waits(n))
        BY <4>1, <3>1 DEF Runs, Waits
      <4> QED
        BY <4>1, <4>2, <3>1, <2>0 DEF OneWay
    <3>2. CASE /\ queued' = queued \union {q} /\ q \in NoteJobs /\ ~Working(w)'
               /\ q.kind = job[w].kind /\ q.note = job[w].note /\ q.known = job[w].known
      <4>1. \A v \in Workers : job'[v].kind = "notify" => v # w /\ job[v].kind = "notify" /\ job'[v].note = job[v].note
        BY <3>2, <2>1 DEF Working
      <4>2. CASE job[w].kind = "notify" /\ job[w].note = n
        <5>1. Runs(n) /\ ~Waits(n) /\ ~Runs(n)'
          BY <4>1, <4>2, <2>0 DEF OneWay, Runs
        <5>2. \A p \in queued' : p.kind = "notify" /\ p.note = n => p = q
          BY <5>1, <3>2 DEF Waits
        <5> QED
          BY <5>1, <5>2, <4>1 DEF OneWay, Runs
      <4>3. CASE ~(job[w].kind = "notify" /\ job[w].note = n)
        <5>1. (Runs(n)' => Runs(n)) /\ (Waits(n)' <=> Waits(n))
          BY <4>1, <4>3, <3>2 DEF Runs, Waits
        <5>2. \A p \in queued' : p.kind = "notify" /\ p.note = n => p \in queued
          BY <4>3, <3>2
        <5> QED
          BY <5>1, <5>2, <4>1, <2>0 DEF OneWay
      <4> QED
        BY <4>2, <4>3
    <3> QED
      BY <3>1, <3>2, <1>0 DEF Outcome
  <2>3. CASE ~(job[w].kind = "notify" /\ job[w].note = n)
    <3>1. PutOff(n)' => PutOff(n)
      <4> SUFFICES ASSUME NEW i \in DOMAIN rows', Put(i)', rows'[i].note = n
                   PROVE  PutOff(n)
        BY DEF PutOff
      <4>1. CASE Put(i)
        BY <4>1, <1>0, <1>2, <1>3 DEF RowsMove, PutOff, Put
      <4>2. CASE ~Put(i)
        <5>1. i = job[w].id /\ job[w].phase \in Deferring /\ i # 0 /\ own = 0 /\ i \in DOMAIN rows
          BY <4>2, <1>0 DEF NoteStep, Deferring, OwnRow, RowsMove
        <5>2. rows[i].note = n
          BY <5>1, <1>0 DEF RowsMove
        <5>3. job[w].kind # "notify"
          BY <5>1, <5>2, <2>3, <1>0 DEF OwnRow
        <5>4. Put(job[w].row) /\ rows[job[w].row].note = n
          BY <5>1, <5>2, <5>3, <1>0 DEF OwnRow, NoteTask
        <5> QED
          BY <5>4 DEF PutOff, Put
      <4> QED
        BY <4>1, <4>2
    <3>2. sends[n] \in Nat /\ lost[n] \in Nat /\ sends'[n] = sends[n] /\ lost'[n] = lost[n]
      BY <1>1, <2>3
    <3>3. One(PutOff(n)') <= One(PutOff(n)) /\ One((Waits(n) \/ Runs(n))') <= One(Waits(n) \/ Runs(n))
      BY <3>1, <2>2 DEF One
    <3>4. Told(n)'
      <4>1. PICK a \in {0, 1} : a = One(PutOff(n))
        BY DEF One
      <4>2. PICK b \in {0, 1} : b = One(Waits(n) \/ Runs(n))
        BY DEF One
      <4>3. PICK c \in {0, 1} : c = One(PutOff(n)')
        BY DEF One
      <4>4. PICK d \in {0, 1} : d = One((Waits(n) \/ Runs(n))')
        BY DEF One
      <4> QED
        BY <2>0, <3>2, <3>3, <4>1, <4>2, <4>3, <4>4 DEF Told
    <3> QED
      BY <2>2, <3>4
  <2>4. CASE job[w].kind = "notify" /\ job[w].note = n
    <3>1. Runs(n)
      BY <2>4 DEF Runs
    <3>2. Ends(w) => ~(Waits(n) \/ Runs(n))'
      BY <3>1, <2>0, <2>1, <2>4 DEF OneWay, Ends, Waits, Runs, Working
    <3>3. PutOff(n)' /\ ~PutOff(n) => new # {}
      <4> SUFFICES ASSUME NEW i \in DOMAIN rows', Put(i)', rows'[i].note = n, new = {}
                   PROVE  PutOff(n)
        BY DEF PutOff
      <4> QED
        BY <1>0, <1>2, <1>3 DEF RowsMove, PutOff, Put
    <3>4. PICK a \in {0, 1} : a = One(PutOff(n)) /\ (PutOff(n) <=> a = 1)
      BY DEF One
    <3>5. PICK c \in {0, 1} : c = One(PutOff(n)') /\ (PutOff(n)' <=> c = 1)
      BY DEF One
    <3>6. PICK d \in {0, 1} : d = One((Waits(n) \/ Runs(n))') /\ ((Waits(n) \/ Runs(n))' <=> d = 1)
      BY DEF One
    <3>7. sends[n] + a + 1 <= 1 + lost[n]
      BY <2>0, <3>1, <3>4 DEF Told, One
    <3>a. (new # {} => t = 0) /\ (t > s => Ends(w)) /\ (new # {} => Ends(w))
      BY DEF NoteStep
    <3>b. c > a => PutOff(n)' /\ ~PutOff(n)
      BY <3>4, <3>5
    <3>c. Ends(w) => d = 0
      BY <3>2, <3>6
    <3>d. c > a => d = 0 /\ t = 0
      <4> SUFFICES ASSUME c > a
                   PROVE  d = 0 /\ t = 0
        OBVIOUS
      <4>1. new # {}
        BY <3>b, <3>3
      <4> QED
        BY <4>1, <3>a, <3>c
    <3>8. t > s => d = 0
      <4> SUFFICES ASSUME t > s
                   PROVE  d = 0
        OBVIOUS
      <4>1. Ends(w)
        BY <3>a
      <4> QED
        BY <4>1, <3>c
    <3>9. (sends[n] + t) + c + d <= 1 + (lost[n] + s)
      <4>1. PICK x \in Nat : x = sends[n]
        BY <1>1
      <4>2. PICK y \in Nat : y = lost[n]
        BY <1>1
      <4>3. x + a + 1 <= 1 + y
        BY <3>7, <4>1, <4>2
      <4>4. (x + t) + c + d <= 1 + (y + s)
        BY <4>3, <3>8, <3>d, TellingAdds
      <4> QED
        BY <4>1, <4>2, <4>4
    <3>10. Told(n)'
      BY <3>9, <3>5, <3>6, <1>1, <2>4 DEF Told
    <3> QED
      BY <2>2, <3>10
  <2> QED
    BY <2>3, <2>4
<1> QED
  BY <1>1, <1>4, <1>5, <1>6, <1>7 DEF NoteInv

LEMMA Smaller ==
  ASSUME NEW T, IsFiniteSet(T), NEW S, S \subseteq T
  PROVE  IsFiniteSet(S) /\ Cardinality(S) \in Nat /\ Cardinality(T) \in Nat /\ Cardinality(S) <= Cardinality(T)
<1>1. IsFiniteSet(S) /\ Cardinality(S) <= Cardinality(T)
  BY FS_Subset
<1>2. Cardinality(S) \in Nat /\ Cardinality(T) \in Nat
  BY <1>1, FS_CardinalityType
<1> QED
  BY <1>1, <1>2

LEMMA PendingFinite ==
  ASSUME NoteTypes
  PROVE  /\ IsFiniteSet(Notif!Pending) /\ Notif!Pending \subseteq Nat
         /\ \A w : job[w].id \in Nat => IsFiniteSet(Left(w)) /\ Left(w) \subseteq Nat
<1>1. Len(rows) \in Nat /\ DOMAIN rows = 1..Len(rows)
  BY RowFacts DEF NoteTypes
<1>2. IsFiniteSet(1..Len(rows))
  BY <1>1, FS_Interval
<1>3. IsFiniteSet(Notif!Pending) /\ Notif!Pending \subseteq Nat
  BY <1>1, <1>2, Smaller DEF Notif!Pending
<1>4. ASSUME NEW w, job[w].id \in Nat
      PROVE  IsFiniteSet(Left(w)) /\ Left(w) \subseteq Nat
  <2>1. IsFiniteSet(Notif!Pending \union {job[w].id})
    BY <1>3, FS_AddElement
  <2>2. Left(w) \subseteq Notif!Pending \union {job[w].id}
    BY DEF Left
  <2> QED
    BY <2>1, <2>2, <1>3, <1>4, Smaller
<1> QED
  BY <1>3, <1>4

\* The limit of what is pending holds as long as nothing is committed or scanned.
LEMMA LimitKeeps ==
  ASSUME NoteTypes, LimitInv, \A v \in Workers : job'[v] = job[v] \/ ~Trimming(v)',
         Notif!Pending' \subseteq Notif!Pending
  PROVE  LimitInv'
<1>1. PICK N \in [Workers -> SUBSET Workers] : Overlaps(N)
  BY DEF LimitInv
<1>2. Cardinality(Notif!Pending') <= MaxPending + Cardinality(Workers) - 1
  <2>1. PICK P : P = Notif!Pending'
    OBVIOUS
  <2>2. Cardinality(P) <= Cardinality(Notif!Pending) /\ Cardinality(P) \in Nat /\ Cardinality(Notif!Pending) \in Nat
    BY <2>1, PendingFinite, Smaller
  <2>3. Cardinality(Workers) \in Nat
    BY WorkersAssumption, FS_CardinalityType
  <2> QED
    BY <2>1, <2>2, <2>3, WorkersAssumption DEF LimitInv
<1>3. \A v \in Workers : Trimming(v)' => Trimming(v) /\ job'[v] = job[v]
  BY DEF Trimming, Working
<1>4. ASSUME NEW v \in Workers, Trimming(v)'
      PROVE  Cardinality(Left(v)') <= MaxPending + Cardinality(N[v])
  <2>1. PICK L : L = Left(v)'
    OBVIOUS
  <2>2. L \subseteq Left(v)
    BY <2>1, <1>3, <1>4 DEF Left
  <2>3. job[v].id \in Nat
    BY <1>3, <1>4 DEF NoteTypes, Trimming, Working, RunningJobs, Notif!NoJob
  <2>4. Cardinality(L) <= Cardinality(Left(v)) /\ Cardinality(L) \in Nat /\ Cardinality(Left(v)) \in Nat
    BY <2>2, <2>3, PendingFinite, Smaller
  <2>5. Cardinality(N[v]) \in Nat
    BY WorkersAssumption, Smaller
  <2> QED
    BY <2>1, <2>4, <2>5, <1>1, <1>3, <1>4, WorkersAssumption DEF Overlaps
<1>5. Overlaps(N)'
  <2>1. /\ \A v \in Workers : v \notin N[v]
        /\ \A u, v \in Workers : Trimming(u) /\ Trimming(v) /\ u \in N[v] => N[u] \subseteq N[v]
    BY <1>1 DEF Overlaps
  <2> QED
    BY <2>1, <1>3, <1>4 DEF Overlaps
<1> QED
  BY <1>2, <1>5 DEF LimitInv

LEMMA WithinLimit ==
  ASSUME NoteInv, LimitInv, NEW w \in Workers, Working(w), NEW own, NEW q, NEW t, NEW s,
         NoteStep(w, own, {}, {}, q, t, s), ~Trimming(w)'
  PROVE  LimitInv'
<1>1. Notif!Pending' \subseteq Notif!Pending
  BY DEF NoteStep, RowsMove, Notif!Pending
<1> QED
  BY <1>1, LimitKeeps DEF NoteInv, NoteStep

\* What may be done to the table.
LEMMA RowsSame ==
  ASSUME NoteTypes, rows' = rows
  PROVE  RowsMove(0, {}, {})
BY DEF NoteTypes, RowsMove, Put

LEMMA RowsExpire ==
  ASSUME NoteTypes, rows' = [i \in DOMAIN rows |-> Notif!Expired(i)]
  PROVE  RowsMove(0, {}, {})
<1>1. Len(rows) \in Nat /\ DOMAIN rows = 1..Len(rows) /\ \A i \in DOMAIN rows : rows[i] \in RowRecords
  BY RowFacts DEF NoteTypes
<1>2. ASSUME NEW i \in DOMAIN rows
      PROVE  /\ Notif!Expired(i) \in RowRecords /\ Notif!Expired(i).note = rows[i].note /\ Notif!Expired(i).type = rows[i].type
             /\ Notif!Expired(i).status = rows[i].status \/ (Notif!Expired(i).status = "expired" /\ rows[i].status = "pending")
  <2>1. rows[i] \in RowRecords
    BY <1>1
  <2>2. CASE i \in Notif!Pending /\ rows[i].old
    <3>1. Notif!Expired(i) = [rows[i] EXCEPT !.status = "expired"]
      BY <2>2 DEF Notif!Expired
    <3> QED
      BY <3>1, <2>1, <2>2 DEF Notif!Pending, RowRecords
  <2>3. CASE ~(i \in Notif!Pending /\ rows[i].old)
    <3>1. Notif!Expired(i) = [rows[i] EXCEPT !.status = rows[i].status]
      BY <2>3 DEF Notif!Expired
    <3> QED
      BY <3>1, <2>1 DEF RowRecords
  <2> QED
    BY <2>2, <2>3
<1>3. rows' \in Seq(RowRecords) /\ DOMAIN rows' = DOMAIN rows
  BY <1>1, <1>2, IsASeq
<1> QED
  BY <1>2, <1>3 DEF RowsMove, Put

LEMMA RowsBegin ==
  ASSUME NoteTypes, NEW r \in RowRecords, r.status = "none", rows' = Append(rows, r)
  PROVE  /\ RowsMove(0, {}, {}) /\ Len(rows) + 1 \in DOMAIN rows' /\ Len(rows) + 1 \notin DOMAIN rows
         /\ rows'[Len(rows) + 1] = r /\ Len(rows) + 1 \in Nat \ {0}
<1>1. Len(rows) \in Nat /\ DOMAIN rows = 1..Len(rows)
  BY RowFacts DEF NoteTypes
<1>2. /\ rows' \in Seq(RowRecords) /\ Len(rows') = Len(rows) + 1
      /\ \A i \in 1..Len(rows) : rows'[i] = rows[i]
      /\ rows'[Len(rows) + 1] = r
  BY AppendProperties DEF NoteTypes
<1>3. DOMAIN rows' = 1..(Len(rows) + 1)
  BY <1>2, LenProperties
<1>4. \A i \in DOMAIN rows' : i \in DOMAIN rows \/ i = Len(rows) + 1
  BY <1>1, <1>3
<1> QED
  BY <1>1, <1>2, <1>3, <1>4 DEF RowsMove, Put

LEMMA RefusedStays ==
  ASSUME NoteTypes, RowsKept, NEW own, own = 0 \/ ~Put(own), RowsMove(own, {}, {}),
         \A i \in refused' : Put(i)' /\ rows'[i].status # "pending"
  PROVE  RowsKept'
<1>1. DOMAIN rows = 1..Len(rows) /\ Len(rows) \in Nat
  BY RowFacts DEF NoteTypes
<1>2. Notif!Committed' = Notif!Committed
  BY DEF RowsMove, Put, Notif!Committed
<1>3. \A i \in Notif!Committed : Put(i) /\ i \in DOMAIN rows' /\ rows'[i].type = rows[i].type
  BY <1>1 DEF RowsMove, Put, Notif!Committed
<1>4. \A i \in Notif!Committed : rows'[i].status = "deleted" => rows[i].status = "deleted"
  BY <1>3 DEF RowsMove
<1>7. \A i \in Notif!Committed : Notif!Survives(i) => Notif!Survives(i)'
  BY <1>2, <1>4 DEF Notif!Survives
<1>8. \A i \in Notif!Committed' : rows'[i].status = "deleted" /\ rows'[i].type # "coalesced" =>
          Notif!NewerThan(i, Notif!Committed') >= MaxPending
  BY <1>2, <1>3, <1>4 DEF RowsKept
<1>9. (\E i \in Notif!Committed' : rows'[i].type = "coalesced") =>
          \E i \in Notif!Committed' : rows'[i].type = "coalesced" /\ Notif!Survives(i)'
  BY <1>2, <1>3, <1>7 DEF RowsKept
<1> QED
  BY <1>8, <1>9 DEF RowsKept

LEMMA KeptStays ==
  ASSUME NoteTypes, RowsKept, NEW own, own = 0 \/ ~Put(own), RowsMove(own, {}, {}), refused' = refused
  PROVE  RowsKept'
<1>1. \A i : Put(i) => Put(i)' /\ (rows'[i].status = "pending" => rows[i].status = "pending")
  BY DEF RowsMove, Put
<1>2. \A i \in refused' : Put(i)' /\ rows'[i].status # "pending"
  BY <1>1 DEF RowsKept
<1> QED
  BY <1>2, RefusedStays

LEMMA CountsTheSame ==
  ASSUME NoteInv, NEW w \in Workers, Working(w), job[w].kind = "notify"
  PROVE  sends = [sends EXCEPT ![job[w].note] = @ + 0] /\ lost = [lost EXCEPT ![job[w].note] = @ + 0]
<1> DEFINE n == job[w].note
<1>1. n \in DOMAIN sends /\ n \in DOMAIN lost /\ sends[n] \in Nat /\ lost[n] \in Nat
  BY LenProperties, ElementOfSeq DEF NoteInv, NoteTypes, Ready, NoteTask
<1>2. sends[n] + 0 = sends[n] /\ lost[n] + 0 = lost[n]
  BY <1>1
<1>3. sends = [sends EXCEPT ![n] = sends[n]] /\ lost = [lost EXCEPT ![n] = lost[n]]
  BY <1>1 DEF NoteInv, NoteTypes
<1> QED
  BY <1>2, <1>3

LEMMA CountsNothing ==
  ASSUME NoteInv, NEW w \in Workers, Working(w), sends' = sends, lost' = lost
  PROVE  Counting(w, 0, 0)
BY CountsTheSame DEF Counting

\* A worker that leaves its job.
LEMMA NoteLeaves ==
  ASSUME NoteInv, LimitInv, NEW w \in Workers, Working(w), job' = [job EXCEPT ![w] = Notif!NoJob],
         NEW q, Outcome(w, q), RowsMove(0, {}, {}), refused' = refused \/ RowsKept',
         NEW t \in {0, 1}, NEW s \in {0, 1}, Counting(w, t, s), t > s => queued' = queued
  PROVE  NoteInv' /\ LimitInv'
<1>1. NoteTypes /\ RowsKept
  BY DEF NoteInv
<1>2. /\ job' \in [Workers -> RunningJobs \union {Notif!NoJob}] /\ \A v \in Workers \ {w} : job'[v] = job[v]
      /\ job'[w] = Notif!NoJob
  BY <1>1 DEF NoteTypes
<1>3. ~Working(w)' /\ Ready(w)' /\ ~Trimming(w)'
  BY <1>2 DEF Working, Ready, Trimming, Notif!NoJob
<1>4. RowsKept'
  BY <1>1, KeptStays
<1>5. NoteStep(w, 0, {}, {}, q, t, s)
  <2>1. t > s => Ends(w)
    BY <1>3 DEF Ends
  <2> QED
    BY <2>1, <1>2, <1>3 DEF NoteStep
<1> QED
  BY <1>2, <1>3, <1>4, <1>5, WorkerTells, WithinLimit

\* A worker that goes on with its job.
LEMMA NoteGoesOn ==
  ASSUME NoteInv, LimitInv, NEW w \in Workers, Working(w), queued' = queued, sends' = sends, lost' = lost,
         job' \in [Workers -> RunningJobs \union {Notif!NoJob}], \A v \in Workers \ {w} : job'[v] = job[v],
         job'[w].kind = job[w].kind, job'[w].note = job[w].note,
         job'[w].id # 0 => job'[w].id = job[w].id \/ job'[w].id \notin DOMAIN rows,
         NEW own \in {0, job[w].id}, RowsMove(own, {}, {}), refused' = refused \/ RowsKept',
         Ready(w)', ~Trimming(w)'
  PROVE  NoteInv' /\ LimitInv'
<1>1. NoteTypes /\ RowsKept /\ Counting(w, 0, 0)
  BY CountsNothing DEF NoteInv
<1>2. RowsKept'
  <2>1. own = 0 \/ ~Put(own)
    BY DEF NoteInv, Ready, OwnRow
  <2> QED
    BY <2>1, <1>1, KeptStays
<1>3. Outcome(w, 0)
  BY DEF Outcome
<1>4. NoteStep(w, own, {}, {}, 0, 0, 0)
  BY <1>1, <1>3 DEF NoteStep
<1> QED
  BY <1>2, <1>4, WorkerTells, WithinLimit

LEMMA NoteThrown ==
  ASSUME NoteTypes, NEW w \in Workers, Working(w), Notif!Thrown(w)
  PROVE  job' = [job EXCEPT ![w] = Notif!NoJob] /\ \E q : Outcome(w, q)
<1>1. job' = [job EXCEPT ![w] = Notif!NoJob]
  BY DEF Notif!Thrown, Notif!Leave
<1>2. ~Working(w)' /\ job[w] \in RunningJobs
  BY <1>1 DEF Working, Notif!NoJob, NoteTypes
<1> DEFINE q == [kind |-> job[w].kind, note |-> job[w].note, type |-> job[w].type,
                 known |-> job[w].known, attempt |-> job[w].attempt + 1]
<1>3. q \in NoteJobs /\ q.kind = job[w].kind /\ q.note = job[w].note /\ q.known = job[w].known
  BY <1>2 DEF RunningJobs, NoteJobs
<1>4. queued' = queued \union {q} \/ queued' = queued
  BY DEF Notif!Thrown
<1>5. Outcome(w, q)
  BY <1>2, <1>3, <1>4 DEF Outcome
<1> QED
  BY <1>1, <1>5

LEMMA AtPhase ==
  ASSUME NoteTypes, NEW w \in Workers, NEW phase, Notif!At(w, phase)
  PROVE  Working(w) /\ job[w].phase = phase /\ job[w] \in RunningJobs
BY DEF Notif!At, Working, NoteTypes, Notif!NoJob

\* The steps after which a worker is free.
LEMMA NoteEndings ==
  ASSUME NoteInv, LimitInv, NEW w \in Workers,
         \/ Notif!WindowCheck(w) \/ Notif!EndFlush(w) \/ Notif!Sent(w) \/ Notif!SentUnheard(w)
         \/ (\E answer \in Notif!Answers : Notif!NotTaken(w, answer))
         \/ Notif!RecordLetter(w) \/ Notif!Crash(w)
  PROVE  NoteInv' /\ LimitInv'
<1>0. NoteTypes
  BY DEF NoteInv
<1>1. CASE Notif!WindowCheck(w)
  <2>1. Working(w) /\ Notif!Thrown(w) /\ UNCHANGED <<rows, sends, lost, refused>>
    BY <1>0, <1>1, AtPhase DEF Notif!WindowCheck
  <2> QED
    BY <2>1, <1>0, NoteThrown, NoteLeaves, RowsSame, CountsNothing
<1>2. CASE Notif!EndFlush(w)
  <2>1. /\ Working(w) /\ job' = [job EXCEPT ![w] = Notif!NoJob] /\ UNCHANGED <<queued, sends, lost, refused>>
        /\ rows' = [i \in DOMAIN rows |-> Notif!Expired(i)]
    BY <1>0, <1>2, AtPhase DEF Notif!EndFlush, Notif!Leave
  <2>2. Outcome(w, 0)
    BY <2>1, <1>0 DEF Outcome, Working, Notif!NoJob, NoteTypes
  <2> QED
    BY <2>1, <2>2, <1>0, NoteLeaves, RowsExpire, CountsNothing
<1>3. CASE Notif!Sent(w)
  <2>1. /\ Working(w) /\ job' = [job EXCEPT ![w] = Notif!NoJob] /\ UNCHANGED <<queued, lost, refused>>
        /\ sends' = Notif!Counted(w, sends)
        /\ rows' = [i \in DOMAIN rows |-> Notif!Expired(i)] \/ rows' = rows
    BY <1>0, <1>3, AtPhase DEF Notif!Sent, Notif!Leave
  <2>2. Outcome(w, 0)
    BY <2>1, <1>0 DEF Outcome, Working, Notif!NoJob, NoteTypes
  <2>3. RowsMove(0, {}, {})
    BY <2>1, <1>0, RowsSame, RowsExpire
  <2>4. Counting(w, 1, 0)
    <3> DEFINE n == job[w].note
    <3>1. job[w].kind = "notify" => lost = [lost EXCEPT ![n] = @ + 0]
      BY <2>1, CountsTheSame
    <3> QED
      BY <2>1, <3>1 DEF Counting, Notif!Counted
  <2> QED
    BY <2>1, <2>2, <2>3, <2>4, NoteLeaves
<1>4. CASE Notif!SentUnheard(w)
  <2>1. /\ Working(w) /\ Notif!Thrown(w) /\ UNCHANGED <<rows, refused>>
        /\ sends' = Notif!Counted(w, sends) /\ lost' = Notif!Counted(w, lost)
    BY <1>0, <1>4, AtPhase DEF Notif!SentUnheard
  <2>2. Counting(w, 1, 1)
    BY <2>1 DEF Counting, Notif!Counted
  <2> QED
    BY <2>1, <2>2, <1>0, NoteThrown, NoteLeaves, RowsSame
<1>5. ASSUME NEW answer \in Notif!Answers, Notif!NotTaken(w, answer)
      PROVE  NoteInv' /\ LimitInv'
  <2>1. Working(w) /\ Notif!Thrown(w) /\ UNCHANGED <<rows, sends, lost, refused>>
    BY <1>0, <1>5, AtPhase DEF Notif!NotTaken
  <2> QED
    BY <2>1, <1>0, NoteThrown, NoteLeaves, RowsSame, CountsNothing
<1>6. CASE Notif!RecordLetter(w) \/ Notif!Crash(w)
  <2>1. /\ Working(w) /\ job' = [job EXCEPT ![w] = Notif!NoJob] /\ UNCHANGED <<rows, queued, sends, lost, refused>>
    BY <1>0, <1>6, AtPhase DEF Notif!RecordLetter, Notif!Crash, Notif!Leave, Working
  <2>2. Outcome(w, 0)
    BY <2>1, <1>0 DEF Outcome, Working, Notif!NoJob, NoteTypes
  <2> QED
    BY <2>1, <2>2, <1>0, NoteLeaves, RowsSame, CountsNothing
<1> QED
  BY <1>1, <1>2, <1>3, <1>4, <1>5, <1>6

\* A worker that takes the next step of its job.
Turned(w, phase, row, id, seen, gone) ==
    /\ job' \in [Workers -> RunningJobs \union {Notif!NoJob}] /\ \A v \in Workers \ {w} : job'[v] = job[v]
    /\ job'[w] \in RunningJobs
    /\ job'[w].kind = job[w].kind /\ job'[w].note = job[w].note /\ job'[w].type = job[w].type
    /\ job'[w].known = job[w].known /\ job'[w].attempt = job[w].attempt
    /\ job'[w].phase = phase /\ job'[w].row = row /\ job'[w].id = id /\ job'[w].seen = seen /\ job'[w].gone = gone

LEMMA JobTurns ==
  ASSUME NoteTypes, NEW w \in Workers, Working(w), NEW c \in RunningJobs, job' = [job EXCEPT ![w] = c],
         c.kind = job[w].kind /\ c.note = job[w].note /\ c.type = job[w].type /\ c.known = job[w].known /\ c.attempt = job[w].attempt
  PROVE  Turned(w, c.phase, c.row, c.id, c.seen, c.gone)
BY DEF Turned, NoteTypes

LEMMA PhaseTurns ==
  ASSUME NoteTypes, NEW w \in Workers, Working(w), NEW phase \in NotePhases, Notif!Go(w, phase)
  PROVE  Turned(w, phase, job[w].row, job[w].id, job[w].seen, job[w].gone)
<1> DEFINE c == [job[w] EXCEPT !.phase = phase]
<1>1. job[w] \in RunningJobs
  BY DEF NoteTypes, Working, Notif!NoJob
<1>2. /\ c \in RunningJobs /\ c.kind = job[w].kind /\ c.note = job[w].note /\ c.type = job[w].type
      /\ c.known = job[w].known /\ c.attempt = job[w].attempt
      /\ c.phase = phase /\ c.row = job[w].row /\ c.id = job[w].id /\ c.seen = job[w].seen /\ c.gone = job[w].gone
  BY <1>1 DEF RunningJobs
<1>3. job' = [job EXCEPT ![w] = c]
  BY DEF Notif!Go
<1> HIDE DEF c
<1>4. Turned(w, c.phase, c.row, c.id, c.seen, c.gone)
  BY <1>2, <1>3, JobTurns
<1> QED
  BY <1>2, <1>4

LEMMA TurnsReady ==
  ASSUME NoteTypes, NEW w \in Workers, Working(w), Ready(w), NEW own, RowsMove(own, {}, {}), own = 0 \/ ~Put(own),
         sends' = sends, NEW phase \in {"flushed", "sending", "refused", "recording"},
         phase = "flushed" => job[w].kind = "flush",
         NEW row \in {0, job[w].row}, NEW id \in {0, job[w].id}, NEW seen, Turned(w, phase, row, id, seen, {})
  PROVE  Ready(w)' /\ Working(w)' /\ ~Trimming(w)'
<1>0. NoteTask(w) /\ OwnRow(w) /\ job[w] \in RunningJobs
  BY DEF Ready, NoteTypes, Working, Notif!NoJob
<1>1. Working(w)' /\ ~Trimming(w)'
  BY DEF Turned, Working, Trimming, RunningJobs
<1>2. NoteTask(w)'
  BY <1>0 DEF NoteTask, Turned, RowsMove, Put
<1>3. OwnRow(w)'
  BY <1>0 DEF OwnRow, Turned, RowsMove, Put, Deferring
<1>4. Replaced(w)'
  BY DEF Replaced, Turned
<1> QED
  BY <1>1, <1>2, <1>3, <1>4 DEF Ready

LEMMA NotePasses ==
  ASSUME NoteInv, LimitInv, NEW w \in Workers,
         \/ Notif!FlushLimited(w) \/ Notif!Allowed(w) \/ Notif!MarkTerminal(w)
         \/ \E answer \in Notif!Answers : Notif!Refused(w, answer)
  PROVE  NoteInv' /\ LimitInv'
<1>0. NoteTypes
  BY DEF NoteInv
<1>1. CASE Notif!FlushLimited(w)
  <2>1. /\ Working(w) /\ job[w].phase = "asking" /\ job[w].kind = "flush" /\ Notif!Go(w, "flushed")
        /\ UNCHANGED <<rows, queued, sends, lost, refused>>
    BY <1>0, <1>1, AtPhase DEF Notif!FlushLimited
  <2>2. Ready(w) /\ job[w].gone = {}
    BY <2>1 DEF NoteInv, Ready, NoteTask
  <2>3. Turned(w, "flushed", job[w].row, job[w].id, job[w].seen, {})
    BY <2>1, <2>2, <1>0, PhaseTurns DEF NotePhases
  <2>4. Ready(w)' /\ ~Trimming(w)' /\ RowsMove(0, {}, {})
    BY <2>1, <2>2, <2>3, <1>0, RowsSame, TurnsReady
  <2> QED
    BY <2>1, <2>3, <2>4, NoteGoesOn DEF Turned
<1>2. CASE Notif!Allowed(w)
  <2>1. /\ Working(w) /\ job[w].phase \in {"asking", "popped"} /\ Notif!Go(w, "sending")
        /\ UNCHANGED <<rows, queued, sends, lost, refused>>
    BY <1>0, <1>2, AtPhase DEF Notif!Allowed
  <2>2. Ready(w) /\ job[w].gone = {}
    BY <2>1 DEF NoteInv, Ready, NoteTask
  <2>3. Turned(w, "sending", job[w].row, job[w].id, job[w].seen, {})
    BY <2>1, <2>2, <1>0, PhaseTurns DEF NotePhases
  <2>4. Ready(w)' /\ ~Trimming(w)' /\ RowsMove(0, {}, {})
    BY <2>1, <2>2, <2>3, <1>0, RowsSame, TurnsReady
  <2> QED
    BY <2>1, <2>3, <2>4, NoteGoesOn DEF Turned
<1>3. ASSUME NEW answer \in Notif!Answers, Notif!Refused(w, answer)
      PROVE  NoteInv' /\ LimitInv'
  <2> DEFINE c == [job[w] EXCEPT !.phase = "refused", !.gone = {}, !.id = 0]
  <2>1. /\ Working(w) /\ job[w] \in RunningJobs /\ job' = [job EXCEPT ![w] = c]
        /\ UNCHANGED <<rows, queued, sends, lost, refused>>
    BY <1>0, <1>3, AtPhase DEF Notif!Refused
  <2>2. "refused" \in NotePhases
    BY DEF NotePhases
  <2>3. /\ c \in RunningJobs /\ c.kind = job[w].kind /\ c.note = job[w].note /\ c.type = job[w].type
        /\ c.known = job[w].known /\ c.attempt = job[w].attempt
        /\ c.phase = "refused" /\ c.row = job[w].row /\ c.id = 0 /\ c.seen = job[w].seen /\ c.gone = {}
    BY <2>1, <2>2 DEF RunningJobs
  <2> HIDE DEF c
  <2>4. Turned(w, "refused", job[w].row, 0, job[w].seen, {})
    BY <2>1, <2>3, <1>0, JobTurns
  <2>5. Ready(w)
    BY <2>1 DEF NoteInv
  <2>6. Ready(w)' /\ ~Trimming(w)' /\ RowsMove(0, {}, {})
    BY <2>1, <2>4, <2>5, <1>0, RowsSame, TurnsReady
  <2> QED
    BY <2>1, <2>4, <2>6, NoteGoesOn DEF Turned
<1>4. CASE Notif!MarkTerminal(w)
  <2> DEFINE i == job[w].row
  <2>1. /\ Working(w) /\ job[w].phase = "refused" /\ UNCHANGED <<queued, sends, lost>>
        /\ rows' = IF i \in Notif!Pending THEN [rows EXCEPT ![i].status = "failed_terminal"] ELSE rows
        /\ refused' = refused \union ({i} \ {0})
        /\ Notif!Go(w, "recording") \/ job' = [job EXCEPT ![w] = Notif!NoJob]
    BY <1>0, <1>4, AtPhase DEF Notif!MarkTerminal, Notif!Leave
  <2>2. Ready(w) /\ job[w].gone = {} /\ (i # 0 => Put(i)) /\ RowsKept
    BY <2>1 DEF NoteInv, Ready, NoteTask
  <2>3. RowsMove(0, {}, {}) /\ (i # 0 => rows'[i].status # "pending")
    <3>1. CASE i \in Notif!Pending
      <4> DEFINE r == [rows[i] EXCEPT !.status = "failed_terminal"]
      <4>1. rows' = [rows EXCEPT ![i] = r] /\ i \in DOMAIN rows /\ rows[i] \in RowRecords
        BY <2>1, <3>1, <1>0, RowFacts DEF Notif!Pending, NoteTypes
      <4>2. r \in RowRecords /\ r.status = "failed_terminal" /\ r.note = rows[i].note /\ r.type = rows[i].type
        BY <4>1 DEF RowRecords
      <4> HIDE DEF r
      <4>3. rows' \in Seq(RowRecords) /\ DOMAIN rows' = DOMAIN rows
        BY <4>1, <4>2, <1>0, ExceptSeq, LenProperties DEF NoteTypes
      <4>4. \A k \in DOMAIN rows : rows'[k] = IF k = i THEN r ELSE rows[k]
        BY <4>1
      <4> QED
        BY <3>1, <4>2, <4>3, <4>4 DEF RowsMove, Put, Notif!Pending
    <3>2. CASE i \notin Notif!Pending
      BY <2>1, <2>2, <3>2, <1>0, RowsSame DEF Notif!Pending, Put
    <3> QED
      BY <3>1, <3>2
  <2>4. RowsKept'
    <3>1. (\A k \in refused' : Put(k)' /\ rows'[k].status # "pending")
      BY <2>1, <2>2, <2>3 DEF RowsKept, RowsMove, Put
    <3> QED
      BY <2>2, <2>3, <3>1, <1>0, RefusedStays
  <2>5. CASE Notif!Go(w, "recording")
    <3>1. Turned(w, "recording", job[w].row, job[w].id, job[w].seen, {})
      BY <2>1, <2>2, <2>5, <1>0, PhaseTurns DEF NotePhases
    <3>2. Ready(w)' /\ ~Trimming(w)'
      BY <2>1, <2>2, <2>3, <3>1, <1>0, TurnsReady
    <3> QED
      BY <2>1, <2>3, <2>4, <3>1, <3>2, NoteGoesOn DEF Turned
  <2>6. CASE job' = [job EXCEPT ![w] = Notif!NoJob]
    <3>1. Outcome(w, 0)
      BY <2>1, <2>6, <1>0 DEF Outcome, Working, Notif!NoJob, NoteTypes
    <3> QED
      BY <2>1, <2>3, <2>4, <2>6, <3>1, CountsNothing, NoteLeaves
  <2> QED
    BY <2>1, <2>5, <2>6
<1> QED
  BY <1>1, <1>2, <1>3, <1>4

LEMMA NoteBegins ==
  ASSUME NoteTypes, NEW w \in Workers, Working(w), NEW phase \in NotePhases, NEW row \in Nat, Notif!BeginAs(w, phase, row)
  PROVE  /\ RowsMove(0, {}, {})
         /\ \E new : /\ Turned(w, phase, row, new, job[w].seen, job[w].gone)
                     /\ new \in DOMAIN rows' /\ new \notin DOMAIN rows /\ new # 0
                     /\ ~Put(new)' /\ rows'[new].note = job[w].note
<1> DEFINE r == [status |-> "none", type |-> job[w].type, old |-> FALSE, note |-> job[w].note]
           c == [job[w] EXCEPT !.phase = phase, !.row = row, !.id = Len(rows) + 1]
<1>1. job[w] \in RunningJobs
  BY DEF NoteTypes, Working, Notif!NoJob
<1>2. r \in RowRecords /\ r.status = "none" /\ r.note = job[w].note
  BY <1>1 DEF RowRecords, RunningJobs
<1>3. rows' = Append(rows, r)
  BY DEF Notif!BeginAs
<1> HIDE DEF r
<1>4. /\ RowsMove(0, {}, {}) /\ Len(rows) + 1 \in DOMAIN rows' /\ Len(rows) + 1 \notin DOMAIN rows
      /\ rows'[Len(rows) + 1] = r /\ Len(rows) + 1 \in Nat \ {0}
  BY <1>2, <1>3, RowsBegin
<1>5. /\ c \in RunningJobs /\ c.kind = job[w].kind /\ c.note = job[w].note /\ c.type = job[w].type
      /\ c.known = job[w].known /\ c.attempt = job[w].attempt
      /\ c.phase = phase /\ c.row = row /\ c.id = Len(rows) + 1 /\ c.seen = job[w].seen /\ c.gone = job[w].gone
  BY <1>1, <1>4 DEF RunningJobs
<1>6. job' = [job EXCEPT ![w] = c]
  BY DEF Notif!BeginAs
<1> HIDE DEF c
<1>7. PICK new : new = Len(rows) + 1
  OBVIOUS
<1>8. Turned(w, phase, row, new, job[w].seen, job[w].gone)
  BY <1>5, <1>6, <1>7, JobTurns
<1>9. ~Put(new)'
  BY <1>2, <1>4, <1>7 DEF Put
<1> QED
  BY <1>2, <1>4, <1>7, <1>8, <1>9

LEMMA FlushBegins ==
  ASSUME NoteInv, LimitInv, NEW w \in Workers, Notif!BeginFlush(w)
  PROVE  NoteInv' /\ LimitInv'
<1>1. /\ NoteTypes /\ Working(w) /\ job[w].phase = "popped" /\ job[w].kind = "flush" /\ job[w] \in RunningJobs
      /\ UNCHANGED <<queued, sends, lost, refused>>
  BY AtPhase DEF NoteInv, Notif!BeginFlush
<1>2. Ready(w) /\ job[w].gone = {} /\ job[w].known
  BY <1>1 DEF NoteInv, Ready, NoteTask
<1>3. PICK phase \in {"flushed", "asking"}, i \in Nat :
         /\ Notif!BeginAs(w, phase, i)
         /\ i # 0 => Put(i)
         /\ phase = "asking" => i # 0
  <2>1. Notif!Pending \subseteq Nat \ {0} /\ \A i \in Notif!Pending : Put(i)
    BY <1>1, RowFacts DEF Notif!Pending, Put, NoteTypes
  <2> QED
    BY <2>1 DEF Notif!BeginFlush, Notif!Oldest
<1>4. phase \in NotePhases
  BY DEF NotePhases
<1>5. PICK new : /\ Turned(w, phase, i, new, job[w].seen, {}) /\ RowsMove(0, {}, {})
                 /\ new \in DOMAIN rows' /\ new \notin DOMAIN rows /\ new # 0 /\ ~Put(new)'
  BY <1>1, <1>2, <1>3, <1>4, NoteBegins
<1>6. NoteTask(w)'
  BY <1>1, <1>2, <1>3, <1>5 DEF NoteTask, Turned, RowsMove, Put
<1>7. OwnRow(w)'
  BY <1>5 DEF OwnRow, Turned, Deferring
<1>8. Replaced(w)'
  BY <1>5 DEF Replaced, Turned
<1>9. Ready(w)' /\ ~Trimming(w)'
  BY <1>5, <1>6, <1>7, <1>8 DEF Ready, Trimming, Turned
<1> QED
  BY <1>1, <1>5, <1>9, NoteGoesOn DEF Turned

LEMMA NoteDenied ==
  ASSUME NoteInv, LimitInv, NEW w \in Workers, Notif!Denied(w)
  PROVE  NoteInv' /\ LimitInv'
<1>1. /\ NoteTypes /\ Working(w) /\ job[w].phase \in {"asking", "popped"} /\ job[w] \in RunningJobs
      /\ (job[w].phase = "popped" => job[w].kind = "notify")
      /\ UNCHANGED <<sends, lost, refused>>
  BY AtPhase DEF NoteInv, Notif!Denied
<1>2. Ready(w) /\ NoteTask(w) /\ OwnRow(w) /\ job[w].gone = {}
  BY <1>1 DEF NoteInv, Ready, NoteTask
<1>a. "deferring" \in NotePhases
  BY DEF NotePhases, Deferring
<1>3. CASE ~job[w].known
  <2>1. Notif!Thrown(w) /\ rows' = rows
    BY <1>3 DEF Notif!Denied
  <2> QED
    BY <2>1, <1>1, NoteThrown, NoteLeaves, RowsSame, CountsNothing
<1>4. CASE job[w].known /\ ~Notif!InTransaction(w)
  <2>1. Notif!BeginAs(w, "deferring", 0) /\ queued' = queued /\ job[w].kind = "notify"
    BY <1>1, <1>2, <1>4 DEF Notif!Denied, Notif!InTransaction, NoteTask
  <2>2. PICK new : /\ Turned(w, "deferring", 0, new, job[w].seen, {}) /\ RowsMove(0, {}, {})
                   /\ new \in DOMAIN rows' /\ new \notin DOMAIN rows /\ new # 0
                   /\ ~Put(new)' /\ rows'[new].note = job[w].note
    BY <1>1, <1>2, <1>a, <2>1, NoteBegins
  <2>3. NoteTask(w)'
    BY <1>1, <1>2, <2>1, <2>2 DEF NoteTask, Turned
  <2>4. OwnRow(w)'
    BY <2>1, <2>2 DEF OwnRow, Turned, Deferring
  <2>5. Replaced(w)'
    BY <2>2 DEF Replaced, Turned
  <2>6. Ready(w)' /\ ~Trimming(w)'
    BY <2>2, <2>3, <2>4, <2>5 DEF Ready, Trimming, Turned
  <2> QED
    BY <1>1, <2>1, <2>2, <2>6, NoteGoesOn DEF Turned
<1>5. CASE job[w].known /\ Notif!InTransaction(w)
  <2>i. PICK i : i = job[w].row
    OBVIOUS
  <2>k. PICK k : k = job[w].id
    OBVIOUS
  <2> DEFINE r == [rows[k] EXCEPT !.type = rows[i].type, !.note = rows[i].note]
  <2>1. /\ Notif!Go(w, "deferring") /\ queued' = queued
        /\ rows' = [rows EXCEPT ![k].type = rows[i].type, ![k].note = rows[i].note]
    BY <1>5, <2>i, <2>k DEF Notif!Denied
  <2>2. job[w].kind = "flush" /\ i # 0 /\ k # 0 /\ Put(i) /\ ~Put(k) /\ k \in DOMAIN rows /\ i # k
    BY <1>1, <1>2, <1>5, <2>i, <2>k DEF NoteTask, OwnRow, Notif!InTransaction
  <2>3. rows[k] \in RowRecords /\ rows[i] \in RowRecords /\ i \in DOMAIN rows
    BY <2>2, <1>1, RowFacts DEF NoteTypes, Put
  <2>4. r \in RowRecords /\ r.status = rows[k].status /\ r.note = rows[i].note
    BY <2>3 DEF RowRecords
  <2>5. rows' = [rows EXCEPT ![k] = r]
    BY <2>1
  <2> HIDE DEF r
  <2>6. rows' \in Seq(RowRecords) /\ DOMAIN rows' = DOMAIN rows
    BY <2>2, <2>4, <2>5, <1>1, ExceptSeq, LenProperties DEF NoteTypes
  <2>7. \A x \in DOMAIN rows : rows'[x] = IF x = k THEN r ELSE rows[x]
    BY <2>5
  <2>8. RowsMove(k, {}, {}) /\ rows'[k].note = rows'[i].note /\ ~Put(k)' /\ Put(i)'
    BY <2>2, <2>3, <2>4, <2>6, <2>7 DEF RowsMove, Put
  <2>9. Turned(w, "deferring", i, k, job[w].seen, {})
    BY <1>1, <1>2, <1>a, <2>1, <2>i, <2>k, PhaseTurns
  <2>10. NoteTask(w)'
    BY <1>1, <1>2, <2>2, <2>8, <2>9 DEF NoteTask, Turned
  <2>11. OwnRow(w)'
    BY <2>2, <2>6, <2>8, <2>9 DEF OwnRow, Turned, Deferring
  <2>12. Replaced(w)'
    BY <2>9 DEF Replaced, Turned
  <2>13. Ready(w)' /\ ~Trimming(w)'
    BY <2>9, <2>10, <2>11, <2>12 DEF Ready, Trimming, Turned
  <2> QED
    BY <1>1, <2>1, <2>k, <2>8, <2>9, <2>13, NoteGoesOn DEF Turned
<1> QED
  BY <1>1, <1>3, <1>4, <1>5 DEF RunningJobs

\* A deferral looks for what its notification replaces, and deletes it.
LEMMA NoteReplaces ==
  ASSUME NoteInv, LimitInv, NEW w \in Workers, Notif!ScanCoalesced(w) \/ Notif!DeleteCoalesced(w)
  PROVE  NoteInv' /\ LimitInv'
<1>0. NoteTypes /\ rows' = rows /\ UNCHANGED <<queued, sends, lost, refused>> /\ RowsMove(0, {}, {})
  BY RowsSame DEF NoteInv, Notif!ScanCoalesced, Notif!DeleteCoalesced
<1>a. {"coalescing", "inserted"} \subseteq NotePhases /\ Notif!Pending \subseteq Nat /\ \A i \in Notif!Pending : Put(i)
  BY <1>0, PendingFinite DEF NotePhases, Deferring, Notif!Pending, Put
<1>1. CASE Notif!ScanCoalesced(w)
  <2> DEFINE own == job[w].id
             seen == IF rows[own].type = "coalesced" THEN {i \in Notif!Pending : rows[i].type = "coalesced"} ELSE {}
             c == [job[w] EXCEPT !.phase = "coalescing", !.seen = seen]
  <2>1. /\ Working(w) /\ job[w].phase = "deferring" /\ job[w] \in RunningJobs /\ job' = [job EXCEPT ![w] = c]
    BY <1>0, <1>1, AtPhase DEF Notif!ScanCoalesced, Notif!Own
  <2>2. Ready(w) /\ NoteTask(w) /\ OwnRow(w) /\ job[w].gone = {}
    BY <2>1 DEF NoteInv, Ready, NoteTask
  <2>3. seen \subseteq Nat /\ (seen # {} => rows[own].type = "coalesced") /\ \A i \in seen : Put(i) /\ rows[i].type = "coalesced"
    BY <1>a
  <2> HIDE DEF seen
  <2>4. /\ c \in RunningJobs /\ c.kind = job[w].kind /\ c.note = job[w].note /\ c.type = job[w].type
        /\ c.known = job[w].known /\ c.attempt = job[w].attempt
        /\ c.phase = "coalescing" /\ c.row = job[w].row /\ c.id = own /\ c.seen = seen /\ c.gone = {}
    BY <2>1, <2>2, <2>3, <1>a DEF RunningJobs
  <2> HIDE DEF c
  <2>5. Turned(w, "coalescing", job[w].row, own, seen, {})
    BY <2>1, <2>4, <1>0, JobTurns
  <2>6. NoteTask(w)' /\ OwnRow(w)'
    BY <2>1, <2>2, <2>5, <1>0 DEF NoteTask, OwnRow, Turned, Deferring, Put
  <2>7. Replaced(w)'
    BY <2>3, <2>5, <1>0 DEF Replaced, Turned, Put
  <2>8. Ready(w)' /\ ~Trimming(w)'
    BY <2>5, <2>6, <2>7 DEF Ready, Trimming, Turned
  <2> QED
    BY <1>0, <2>1, <2>5, <2>8, NoteGoesOn DEF Turned
<1>2. CASE Notif!DeleteCoalesced(w)
  <2> DEFINE gone == job[w].seen \intersect Notif!Pending
             c == [job[w] EXCEPT !.phase = "inserted", !.gone = gone, !.seen = {}]
  <2>1. /\ Working(w) /\ job[w].phase = "coalescing" /\ job[w] \in RunningJobs /\ job' = [job EXCEPT ![w] = c]
    BY <1>0, <1>2, AtPhase DEF Notif!DeleteCoalesced
  <2>2. Ready(w) /\ NoteTask(w) /\ OwnRow(w) /\ Replaced(w)
    BY <2>1 DEF NoteInv, Ready
  <2>3. gone \subseteq Nat /\ (gone # {} => rows[job[w].id].type = "coalesced") /\ \A i \in gone : Put(i) /\ rows[i].type = "coalesced"
    BY <1>a, <2>1, <2>2 DEF Replaced
  <2> HIDE DEF gone
  <2>4. /\ c \in RunningJobs /\ c.kind = job[w].kind /\ c.note = job[w].note /\ c.type = job[w].type
        /\ c.known = job[w].known /\ c.attempt = job[w].attempt
        /\ c.phase = "inserted" /\ c.row = job[w].row /\ c.id = job[w].id /\ c.seen = {} /\ c.gone = gone
    BY <2>1, <2>3, <1>a DEF RunningJobs
  <2> HIDE DEF c
  <2>5. Turned(w, "inserted", job[w].row, job[w].id, {}, gone)
    BY <2>1, <2>4, <1>0, JobTurns
  <2>6. NoteTask(w)' /\ OwnRow(w)'
    BY <2>1, <2>2, <2>5, <1>0 DEF NoteTask, OwnRow, Turned, Deferring, Put
  <2>7. Replaced(w)'
    BY <2>3, <2>5, <1>0 DEF Replaced, Turned, Put
  <2>8. Ready(w)' /\ ~Trimming(w)'
    BY <2>5, <2>6, <2>7 DEF Ready, Trimming, Turned
  <2> QED
    BY <1>0, <2>1, <2>5, <2>8, NoteGoesOn DEF Turned
<1> QED
  BY <1>1, <1>2

LEMMA LeastOf ==
  ASSUME NEW T, T \subseteq Nat, T # {}
  PROVE  \E m \in T : \A x \in T : m <= x
<1>1. PICK m \in T : \A x \in T : ~(<<x, m>> \in OpToRel(<, Nat))
  BY NatLessThanWellFounded, WFMin
<1>2. ASSUME NEW x \in T
      PROVE  ~(x < m)
  <2>1. <<x, m>> \in Nat \X Nat /\ <<x, m>>[1] = x /\ <<x, m>>[2] = m
    OBVIOUS
  <2>2. x < m => <<x, m>> \in OpToRel(<, Nat)
    BY <2>1, Zenon DEF OpToRel
  <2> QED
    BY <2>2, <1>1, Zenon
<1>3. \A x \in T : m <= x
  <2> HIDE <1>1
  <2> QED
    BY <1>2
<1> QED
  BY <1>3

\* No more than MaxPending rows have fewer than MaxPending newer ones.
LEMMA FewNewest ==
  ASSUME NEW S, IsFiniteSet(S), S \subseteq Nat
  PROVE  Cardinality(S \ {i \in S : Notif!NewerThan(i, S) >= MaxPending}) <= MaxPending
<1> DEFINE T == S \ {i \in S : Notif!NewerThan(i, S) >= MaxPending}
<1>1. CASE T = {}
  BY <1>1, FS_EmptySet, WorkersAssumption
<1>2. CASE T # {}
  <2>1. PICK m \in T : \A x \in T : m <= x
    BY <1>2, LeastOf
  <2> DEFINE K == {k \in S : k > m}
  <2>2. T \subseteq K \union {m}
    <3> SUFFICES ASSUME NEW x \in T, x # m
                 PROVE  x \in K
      OBVIOUS
    <3>1. x \in S /\ x \in Nat /\ m \in Nat /\ m <= x
      BY <2>1
    <3> QED
      BY <3>1
  <2>3. IsFiniteSet(K) /\ Cardinality(K) \in Nat
    BY Smaller
  <2>4. Notif!NewerThan(m, S) = Cardinality(K)
    BY NoteCounts DEF Notif!NewerThan
  <2>5. ~(Notif!NewerThan(m, S) >= MaxPending)
    BY <2>1
  <2> HIDE DEF K, T
  <2>6. IsFiniteSet(K \union {m}) /\ Cardinality(K \union {m}) \in {Cardinality(K), Cardinality(K) + 1}
    BY <2>3, FS_AddElement
  <2>7. Cardinality(T) <= Cardinality(K \union {m}) /\ Cardinality(T) \in Nat
    BY <2>2, <2>6, Smaller
  <2>8. Cardinality(T) <= MaxPending
    BY <2>3, <2>4, <2>5, <2>6, <2>7, WorkersAssumption
  <2> QED
    BY <2>8 DEF T
<1> QED
  BY <1>1, <1>2

\* A deferral looks for what is beyond the limit.
LEMMA NoteScans ==
  ASSUME NoteInv, LimitInv, NEW w \in Workers, Notif!ScanSurplus(w)
  PROVE  NoteInv' /\ LimitInv'
<1>0. NoteTypes /\ RowsKept /\ rows' = rows /\ UNCHANGED <<queued, sends, lost, refused>> /\ RowsMove(0, {}, {})
  BY RowsSame DEF NoteInv, Notif!ScanSurplus
<1>a. /\ "trimming" \in NotePhases /\ Notif!Pending \subseteq Nat /\ IsFiniteSet(Notif!Pending)
      /\ \A i \in Notif!Pending : i \in Notif!Committed
  BY <1>0, PendingFinite DEF NotePhases, Deferring, Notif!Pending, Notif!Committed
<1>b. PICK own : own = job[w].id
  OBVIOUS
<1> DEFINE some == (Notif!Pending \ job[w].gone) \union {own}
           seen == {i \in some : Notif!NewerThan(i, some) >= MaxPending}
           c == [job[w] EXCEPT !.phase = "trimming", !.seen = seen]
<1>1. /\ Working(w) /\ job[w].phase = "inserted" /\ job[w] \in RunningJobs /\ job' = [job EXCEPT ![w] = c]
  BY <1>0, <1>b, AtPhase DEF Notif!ScanSurplus, Notif!Surplus, Notif!Own
<1>2. Ready(w) /\ NoteTask(w) /\ OwnRow(w) /\ Replaced(w) /\ own \in DOMAIN rows /\ own \in Nat /\ own # 0
  BY <1>1, <1>b DEF NoteInv, Ready, OwnRow, Deferring, RunningJobs
<1>3. seen \subseteq Nat /\ some \subseteq Nat /\ IsFiniteSet(some) /\ seen \subseteq some
  <2>1. IsFiniteSet(Notif!Pending \ job[w].gone)
    BY <1>a, Smaller
  <2>2. IsFiniteSet(some)
    BY <2>1, FS_AddElement
  <2> QED
    BY <2>2, <1>a, <1>2
<1>4. ASSUME NEW i \in seen
      PROVE  (Put(i) \/ i = own) /\ Notif!NewerThan(i, Notif!Committed \union {own}) >= MaxPending
  <2>1. PICK C : C = Notif!Committed \union {own}
    OBVIOUS
  <2>2. PICK top \in Nat : top = Len(rows) /\ DOMAIN rows = 1..top
    BY <1>0, RowFacts DEF NoteTypes
  <2>3. some \subseteq C /\ C \subseteq 1..top
    BY <2>1, <2>2, <1>a, <1>2 DEF Notif!Committed
  <2>4. Notif!NewerThan(i, C) >= MaxPending
    BY <2>2, <2>3, <1>4, NewerGrows
  <2> QED
    BY <2>1, <2>3, <2>4, <1>4 DEF Notif!Committed, Put
<1>5. Cardinality(some \ seen) <= MaxPending
  BY <1>3, FewNewest
<1> HIDE DEF seen
<1>6. /\ c \in RunningJobs /\ c.kind = job[w].kind /\ c.note = job[w].note /\ c.type = job[w].type
      /\ c.known = job[w].known /\ c.attempt = job[w].attempt
      /\ c.phase = "trimming" /\ c.row = job[w].row /\ c.id = own /\ c.seen = seen /\ c.gone = job[w].gone
  BY <1>1, <1>3, <1>a, <1>b DEF RunningJobs
<1> HIDE DEF c
<1>7. Turned(w, "trimming", job[w].row, own, seen, job[w].gone)
  BY <1>1, <1>6, <1>0, JobTurns
<1>8. NoteTask(w)' /\ OwnRow(w)'
  BY <1>1, <1>2, <1>7, <1>0, <1>b DEF NoteTask, OwnRow, Turned, Deferring, Put
<1>9. Replaced(w)'
  <2>1. Notif!Committed' = Notif!Committed
    BY <1>0 DEF Notif!Committed
  <2> QED
    BY <2>1, <1>2, <1>4, <1>7, <1>0, <1>b DEF Replaced, Turned, Put
<1>10. NoteInv'
  <2>1. Ready(w)' /\ RowsKept' /\ Outcome(w, 0) /\ Counting(w, 0, 0)
    BY <1>0, <1>1, <1>7, <1>8, <1>9, KeptStays, CountsNothing DEF Ready, Outcome, Turned
  <2>2. NoteStep(w, 0, {}, {}, 0, 0, 0)
    BY <2>1, <1>0, <1>7, <1>b DEF NoteStep, Turned
  <2> QED
    BY <2>1, <2>2, <1>1, <1>7, WorkerTells DEF Turned
<1>11. LimitInv'
  <2>1. PICK N \in [Workers -> SUBSET Workers] : Overlaps(N)
    BY DEF LimitInv
  <2> DEFINE M == [N EXCEPT ![w] = {}]
  <2>2. M \in [Workers -> SUBSET Workers] /\ M[w] = {} /\ \A v \in Workers \ {w} : M[v] = N[v]
    OBVIOUS
  <2> HIDE DEF M
  <2>3. \A v \in Workers \ {w} : (Trimming(v)' <=> Trimming(v)) /\ Left(v)' = Left(v)
    BY <1>0, <1>7 DEF Trimming, Working, Left, Turned, Notif!Pending
  <2>4. Left(w)' = some \ seen
    BY <1>0, <1>7 DEF Left, Turned, Notif!Pending
  <2>5. Cardinality(M[w]) = 0 /\ Cardinality(Left(w)') <= MaxPending + Cardinality(M[w])
    BY <2>2, <2>4, <1>5, FS_EmptySet, WorkersAssumption
  <2>6. \A v \in Workers : Trimming(v)' => Cardinality(Left(v)') <= MaxPending + Cardinality(M[v])
    BY <2>1, <2>2, <2>3, <2>5 DEF Overlaps
  <2>7. \A v \in Workers : v \notin M[v]
    BY <2>1, <2>2 DEF Overlaps
  <2>8. \A u, v \in Workers : Trimming(u)' /\ Trimming(v)' /\ u \in M[v] => M[u] \subseteq M[v]
    BY <2>1, <2>2, <2>3 DEF Overlaps
  <2>9. Overlaps(M)'
    BY <2>6, <2>7, <2>8 DEF Overlaps, M
  <2>10. Cardinality(Notif!Pending') <= MaxPending + Cardinality(Workers) - 1
    BY <1>0 DEF LimitInv, Notif!Pending
  <2> QED
    BY <2>2, <2>9, <2>10 DEF LimitInv
<1> QED
  BY <1>10, <1>11

\* What a deferral does to the table as it commits.
LEMMA CommitMoves ==
  ASSUME NoteTypes, NEW w \in Workers, Working(w), NoteTask(w), OwnRow(w), Replaced(w), Notif!CommitDeferral(w)
  PROVE  \E own, gone :
            /\ own = job[w].id /\ own \in DOMAIN rows /\ own # 0 /\ ~Put(own)
            /\ gone = job[w].gone \union (job[w].seen \intersect (Notif!Pending \union {own}))
            /\ RowsMove(0, {own}, gone)
            /\ Notif!Pending' \subseteq Left(w)
<1>1. PICK own : own = job[w].id
  OBVIOUS
<1>2. PICK gone : gone = job[w].gone \union (job[w].seen \intersect (Notif!Pending \union {own}))
  OBVIOUS
<1>3. job[w].phase = "trimming"
  BY AtPhase DEF Notif!CommitDeferral
<1>4. own \in DOMAIN rows /\ own # 0 /\ ~Put(own) /\ \A i \in gone : Put(i) \/ i = own
  BY <1>1, <1>2, <1>3 DEF OwnRow, Deferring, Replaced, Put, Notif!Pending
<1>5. Len(rows) \in Nat /\ DOMAIN rows = 1..Len(rows) /\ \A i \in DOMAIN rows : rows[i] \in RowRecords
  BY RowFacts DEF NoteTypes
<1> DEFINE r(i) == IF i \in gone THEN [rows[i] EXCEPT !.status = "deleted"]
                   ELSE IF i = own THEN [rows[i] EXCEPT !.status = "pending"] ELSE Notif!Expired(i)
<1>6. rows' = [i \in DOMAIN rows |-> r(i)]
  BY <1>1, <1>2 DEF Notif!CommitDeferral, Notif!Own
<1>7. ASSUME NEW i \in DOMAIN rows
      PROVE  /\ r(i) \in RowRecords /\ r(i).note = rows[i].note /\ r(i).type = rows[i].type
             /\ i \in gone => r(i).status = "deleted"
             /\ i \notin gone /\ i = own => r(i).status = "pending"
             /\ i \notin gone /\ i # own => r(i).status = rows[i].status \/ (r(i).status = "expired" /\ rows[i].status = "pending")
  <2>0. rows[i] \in RowRecords
    BY <1>5
  <2>1. CASE i \in gone
    <3>1. r(i) = [rows[i] EXCEPT !.status = "deleted"]
      BY <2>1
    <3> QED
      BY <2>0, <2>1, <3>1 DEF RowRecords
  <2>2. CASE i \notin gone /\ i = own
    <3>1. r(i) = [rows[i] EXCEPT !.status = "pending"]
      BY <2>2
    <3> QED
      BY <2>0, <2>2, <3>1 DEF RowRecords
  <2>3. CASE i \notin gone /\ i # own /\ i \in Notif!Pending /\ rows[i].old
    <3>1. r(i) = [rows[i] EXCEPT !.status = "expired"]
      BY <2>3 DEF Notif!Expired
    <3> QED
      BY <2>0, <2>3, <3>1 DEF Notif!Pending, RowRecords
  <2>4. CASE i \notin gone /\ i # own /\ ~(i \in Notif!Pending /\ rows[i].old)
    <3>1. r(i) = [rows[i] EXCEPT !.status = rows[i].status]
      BY <2>4 DEF Notif!Expired
    <3> QED
      BY <2>0, <2>4, <3>1 DEF RowRecords
  <2> QED
    BY <2>1, <2>2, <2>3, <2>4
<1> HIDE DEF r
<1>8. /\ rows' \in Seq(RowRecords) /\ DOMAIN rows' = DOMAIN rows
      /\ \A i \in DOMAIN rows : rows'[i] = r(i)
  BY <1>5, <1>6, <1>7, IsASeq
<1>9. RowsMove(0, {own}, gone)
  <2>1. \A i \in DOMAIN rows' : Put(i)' <=> Put(i) \/ i \in {own}
    BY <1>4, <1>7, <1>8 DEF Put
  <2>2. \A i \in DOMAIN rows' : rows'[i].status = "deleted" => (Put(i) /\ rows[i].status = "deleted") \/ i \in gone
    BY <1>4, <1>7, <1>8 DEF Put
  <2>3. \A i \in DOMAIN rows' : rows'[i].status = "pending" => ((i \in DOMAIN rows /\ rows[i].status = "pending") \/ i \in {own}) /\ i \notin gone
    BY <1>7, <1>8
  <2> QED
    BY <2>1, <2>2, <2>3, <1>7, <1>8 DEF RowsMove
<1>10. Notif!Pending' \subseteq Left(w)
  <2> SUFFICES ASSUME NEW i \in DOMAIN rows', rows'[i].status = "pending"
               PROVE  i \in Left(w)
    BY DEF Notif!Pending
  <2>1. (i \in Notif!Pending \/ i = own) /\ i \notin gone
    BY <1>9 DEF RowsMove, Notif!Pending
  <2> QED
    BY <2>1, <1>1, <1>2, <1>4 DEF Left, Replaced
<1> QED
  BY <1>1, <1>2, <1>4, <1>9, <1>10

LEMMA CommitKeeps ==
  ASSUME NoteInv, NEW w \in Workers, Working(w), Notif!CommitDeferral(w)
  PROVE  NoteInv'
<1>1. /\ NoteTypes /\ RowsKept /\ Ready(w) /\ NoteTask(w) /\ OwnRow(w) /\ Replaced(w) /\ job[w].phase = "trimming"
      /\ job' = [job EXCEPT ![w] = Notif!NoJob] /\ UNCHANGED <<queued, sends, lost, refused>>
  BY AtPhase DEF NoteInv, Ready, Notif!CommitDeferral, Notif!Leave
<1>2. PICK own, gone :
         /\ own = job[w].id /\ own \in DOMAIN rows /\ own # 0 /\ ~Put(own)
         /\ gone = job[w].gone \union (job[w].seen \intersect (Notif!Pending \union {own}))
         /\ RowsMove(0, {own}, gone)
  BY <1>1, CommitMoves
<1>3. PICK top \in Nat : DOMAIN rows = 1..top
  BY <1>1, RowFacts DEF NoteTypes
<1>4. PICK C : C = Notif!Committed'
  OBVIOUS
<1>5. Notif!Committed \subseteq 1..top /\ 1..top \subseteq DOMAIN rows'
  BY <1>2, <1>3 DEF RowsMove, Notif!Committed
<1>6. PICK high \in Nat : DOMAIN rows' = 1..high
  BY <1>2, RowFacts DEF RowsMove
<1>7. C \subseteq 1..high /\ C = Notif!Committed \union {own}
  BY <1>2, <1>4, <1>5, <1>6 DEF RowsMove, Notif!Committed, Put
<1>8. \A i \in Notif!Committed \union {own} : i # 0 /\ rows'[i].type = rows[i].type
  BY <1>2, <1>3 DEF RowsMove, Notif!Committed
<1>9. \A i \in job[w].seen : Notif!NewerThan(i, C) >= MaxPending
  BY <1>1, <1>2, <1>7 DEF Replaced
<1>10. \A i \in C : Notif!NewerThan(i, Notif!Committed) >= MaxPending => Notif!NewerThan(i, C) >= MaxPending
  BY <1>6, <1>7, NewerGrows
<1>11. \A i \in C : rows'[i].status = "deleted" =>
          (i \in Notif!Committed /\ rows[i].status = "deleted") \/ i \in job[w].gone \/ i \in job[w].seen
  BY <1>2, <1>4 DEF RowsMove, Notif!Committed, Put
<1>12. RowsKept'
  <2>1. ASSUME NEW i \in C, rows'[i].status = "deleted", rows'[i].type # "coalesced"
        PROVE  Notif!NewerThan(i, C) >= MaxPending
    <3>1. rows[i].type # "coalesced"
      BY <2>1, <1>7, <1>8
    <3>2. i \notin job[w].gone
      BY <3>1, <1>1 DEF Replaced
    <3> QED
      BY <2>1, <3>1, <3>2, <1>1, <1>9, <1>10, <1>11 DEF RowsKept
  <2>2. ASSUME NEW i \in C, rows'[i].type = "coalesced"
        PROVE  \E j \in C : rows'[j].type = "coalesced" /\ (rows'[j].status # "deleted" \/ Notif!NewerThan(j, C) >= MaxPending)
    <3>1. CASE rows[own].type = "coalesced"
      <4>1. own \notin job[w].gone
        BY <1>1, <1>2 DEF Replaced
      <4>2. rows'[own].status # "deleted" \/ Notif!NewerThan(own, C) >= MaxPending
        BY <4>1, <1>2, <1>7, <1>9, <1>11 DEF Notif!Committed, Put
      <4> QED
        BY <3>1, <4>2, <1>7, <1>8
    <3>2. CASE rows[own].type # "coalesced"
      <4>1. job[w].gone = {}
        BY <3>2, <1>1, <1>2 DEF Replaced
      <4>2. i \in Notif!Committed /\ rows[i].type = "coalesced"
        BY <2>2, <3>2, <1>7, <1>8
      <4>3. PICK j \in Notif!Committed : rows[j].type = "coalesced" /\ Notif!Survives(j)
        BY <4>2, <1>1 DEF RowsKept
      <4>4. j \in C /\ rows'[j].type = "coalesced"
        BY <4>3, <1>7, <1>8
      <4>5. rows'[j].status # "deleted" \/ Notif!NewerThan(j, C) >= MaxPending
        BY <4>1, <4>3, <4>4, <1>9, <1>10, <1>11 DEF Notif!Survives
      <4> QED
        BY <4>4, <4>5
    <3> QED
      BY <3>1, <3>2
  <2>3. \A i \in refused' : Put(i)' /\ rows'[i].status # "pending"
    <3> SUFFICES ASSUME NEW i \in refused
                 PROVE  Put(i)' /\ rows'[i].status # "pending"
      BY <1>1
    <3>1. Put(i) /\ rows[i].status # "pending" /\ i # own
      BY <1>1, <1>2 DEF RowsKept
    <3> QED
      BY <3>1, <1>2 DEF RowsMove, Put
  <2> QED
    BY <2>1, <2>2, <2>3, <1>4 DEF RowsKept, Notif!Survives
<1>13. /\ job' \in [Workers -> RunningJobs \union {Notif!NoJob}] /\ \A v \in Workers \ {w} : job'[v] = job[v]
       /\ job'[w] = Notif!NoJob /\ ~Working(w)' /\ Ready(w)'
  BY <1>1 DEF NoteTypes, Working, Ready, Notif!NoJob
<1>14. NoteStep(w, 0, {own}, gone, 0, 0, 0)
  <2>1. Outcome(w, 0) /\ Ends(w) /\ Counting(w, 0, 0)
    BY <1>1, <1>13, CountsNothing DEF Outcome, Ends
  <2> QED
    BY <2>1, <1>1, <1>2, <1>13 DEF NoteStep
<1> QED
  BY <1>12, <1>13, <1>14, WorkerTells

LEMMA CommitWithinLimit ==
  ASSUME NoteInv, LimitInv, NEW w \in Workers, Working(w), Notif!CommitDeferral(w)
  PROVE  LimitInv'
<1>1. /\ NoteTypes /\ NoteTask(w) /\ OwnRow(w) /\ Replaced(w) /\ Trimming(w) /\ job[w] \in RunningJobs
      /\ job' = [job EXCEPT ![w] = Notif!NoJob]
  BY AtPhase DEF NoteInv, Ready, Notif!CommitDeferral, Notif!Leave, Trimming
<1>2. PICK own : own = job[w].id /\ Notif!Pending' \subseteq Left(w)
  BY <1>1, CommitMoves
<1>3. PICK N \in [Workers -> SUBSET Workers] : Overlaps(N)
  BY DEF LimitInv
<1> DEFINE M == [v \in Workers |-> IF v = w THEN N[v] ELSE N[v] \union {w}]
<1>4. M \in [Workers -> SUBSET Workers] /\ \A v \in Workers \ {w} : M[v] = N[v] \union {w}
  OBVIOUS
<1>5. \A v \in Workers : v \notin M[v]
  BY <1>3 DEF Overlaps
<1> HIDE DEF M
<1>6. \A v \in Workers : Trimming(v)' => v # w /\ Trimming(v) /\ job'[v] = job[v]
  BY <1>1 DEF NoteTypes, Trimming, Working, Notif!NoJob
<1>7. \A v \in Workers : IsFiniteSet(N[v]) /\ Cardinality(N[v]) \in Nat
  BY WorkersAssumption, Smaller
<1>8. IsFiniteSet(Left(w)) /\ Cardinality(Left(w)) \in Nat /\ Cardinality(Left(w)) <= MaxPending + Cardinality(N[w])
  <2>1. IsFiniteSet(Left(w))
    BY <1>1, PendingFinite DEF RunningJobs
  <2> QED
    BY <2>1, <1>1, <1>3, FS_CardinalityType DEF Overlaps
<1>9. Cardinality(Notif!Pending') <= MaxPending + Cardinality(Workers) - 1
  <2>1. PICK P : P = Notif!Pending'
    OBVIOUS
  <2>2. Cardinality(P) <= Cardinality(Left(w)) /\ Cardinality(P) \in Nat
    BY <2>1, <1>2, <1>8, Smaller
  <2>3. IsFiniteSet(N[w] \union {w}) /\ Cardinality(N[w] \union {w}) = Cardinality(N[w]) + 1
    BY <1>3, <1>7, FS_AddElement DEF Overlaps
  <2>4. Cardinality(N[w] \union {w}) <= Cardinality(Workers) /\ Cardinality(Workers) \in Nat
    BY WorkersAssumption, Smaller
  <2> QED
    BY <2>1, <2>2, <2>3, <2>4, <1>7, <1>8, WorkersAssumption
<1>10. ASSUME NEW v \in Workers, Trimming(v)'
       PROVE  Cardinality(Left(v)') <= MaxPending + Cardinality(M[v])
  <2>1. v # w /\ Trimming(v) /\ job'[v] = job[v] /\ job[v] \in RunningJobs /\ job[v].id \in Nat
    BY <1>1, <1>6, <1>10 DEF NoteTypes, Trimming, Working, Notif!NoJob, RunningJobs
  <2>2. PICK L : L = Left(v)'
    OBVIOUS
  <2>3. IsFiniteSet(Left(v)) /\ Cardinality(Left(v)) \in Nat /\ Cardinality(Left(v)) <= MaxPending + Cardinality(N[v])
    <3>1. IsFiniteSet(Left(v))
      BY <2>1, <1>1, PendingFinite
    <3> QED
      BY <3>1, <2>1, <1>3, FS_CardinalityType DEF Overlaps
  <2>4. CASE w \notin N[v]
    <3>1. L \subseteq Left(v) \union {own}
      BY <2>1, <2>2, <1>2 DEF Left
    <3>2. IsFiniteSet(Left(v) \union {own}) /\ Cardinality(Left(v) \union {own}) \in {Cardinality(Left(v)), Cardinality(Left(v)) + 1}
      BY <2>3, FS_AddElement
    <3>3. Cardinality(L) <= Cardinality(Left(v) \union {own}) /\ Cardinality(L) \in Nat
      BY <3>1, <3>2, Smaller
    <3>4. Cardinality(M[v]) = Cardinality(N[v]) + 1
      BY <2>1, <2>4, <1>4, <1>7, FS_AddElement
    <3> QED
      BY <2>2, <2>3, <3>2, <3>3, <3>4, <1>7, WorkersAssumption
  <2>5. CASE w \in N[v]
    <3> DEFINE mine == job[v].id
    <3>1. L \subseteq Left(w) \union {mine}
      BY <2>1, <2>2, <1>2 DEF Left
    <3>2. IsFiniteSet(Left(w) \union {mine}) /\ Cardinality(Left(w) \union {mine}) \in {Cardinality(Left(w)), Cardinality(Left(w)) + 1}
      BY <1>8, FS_AddElement
    <3>3. Cardinality(L) <= Cardinality(Left(w) \union {mine}) /\ Cardinality(L) \in Nat
      BY <3>1, <3>2, Smaller
    <3>4. N[w] \union {w} \subseteq N[v] /\ w \notin N[w]
      BY <2>1, <2>5, <1>1, <1>3 DEF Overlaps
    <3>5. IsFiniteSet(N[w] \union {w}) /\ Cardinality(N[w] \union {w}) = Cardinality(N[w]) + 1
      BY <3>4, <1>7, FS_AddElement
    <3>6. Cardinality(N[w] \union {w}) <= Cardinality(N[v])
      BY <3>4, <1>7, Smaller
    <3>7. M[v] = N[v]
      BY <2>1, <2>5, <1>4
    <3> QED
      BY <2>2, <3>2, <3>3, <3>5, <3>6, <3>7, <1>7, <1>8, WorkersAssumption
  <2> QED
    BY <2>4, <2>5
<1>11. \A u, v \in Workers : Trimming(u)' /\ Trimming(v)' /\ u \in M[v] => M[u] \subseteq M[v]
  BY <1>3, <1>4, <1>6 DEF Overlaps
<1>12. Overlaps(M)'
  BY <1>5, <1>10, <1>11 DEF Overlaps, M
<1> QED
  BY <1>4, <1>9, <1>12 DEF LimitInv

\* What is enqueued, taken from the queue, and done by others.
LEMMA NoteOthers ==
  ASSUME NoteInv, LimitInv, UNCHANGED <<job, queued, sends, lost>>, RowsMove(0, {}, {}), refused' = refused
  PROVE  NoteInv' /\ LimitInv'
<1>0. NoteTypes /\ OwnApart /\ RowsKept
  BY DEF NoteInv
<1>1. \A i : Put(i)' <=> Put(i)
  BY DEF RowsMove, Put
<1>2. \A i : Put(i) => i # 0 /\ rows'[i].note = rows[i].note
  BY <1>0, RowFacts DEF RowsMove, Put, NoteTypes
<1>3. NoteTypes'
  <2>1. \A i \in DOMAIN rows' : Put(i)' => rows'[i].note \in 1..Len(sends)
    BY <1>0, <1>1, <1>2 DEF NoteTypes, Put
  <2> QED
    BY <2>1, <1>0 DEF NoteTypes, RowsMove
<1>4. \A v \in Workers : Ready(v)'
  <2>1. Len(sends') >= Len(sends) /\ Len(sends') \in Nat
    BY <1>0, LenProperties DEF NoteTypes
  <2>2. \A v \in Workers : Working(v) => Ready(v)
    BY DEF NoteInv
  <2> QED
    BY <2>1, <2>2, <1>0, OthersReady
<1>5. ASSUME NEW n \in 1..Len(sends)
      PROVE  OneWay(n)' /\ Told(n)'
  <2>1. OneWay(n) /\ Told(n)
    BY DEF NoteInv
  <2>2. PutOff(n)' <=> PutOff(n)
    BY <1>1, <1>2 DEF PutOff, Put
  <2>3. (Waits(n)' <=> Waits(n)) /\ (Runs(n)' <=> Runs(n))
    BY DEF Waits, Runs
  <2>4. One(PutOff(n)') = One(PutOff(n)) /\ One((Waits(n) \/ Runs(n))') = One(Waits(n) \/ Runs(n))
    BY <2>2, <2>3 DEF One
  <2>5. Told(n)'
    BY <2>1, <2>4 DEF Told
  <2> QED
    BY <2>1, <2>3, <2>5 DEF OneWay
<1>6. OwnApart' /\ RowsKept'
  BY <1>0, KeptStays DEF OwnApart, Working
<1>7. NoteInv'
  BY <1>3, <1>4, <1>5, <1>6 DEF NoteInv
<1>8. LimitInv'
  <2>1. Notif!Pending' \subseteq Notif!Pending
    BY DEF RowsMove, Notif!Pending
  <2> QED
    BY <2>1, <1>0, LimitKeeps
<1> QED
  BY <1>7, <1>8

LEMMA RowAgesKept ==
  ASSUME NoteInv, LimitInv, NEW i \in DOMAIN rows, Notif!RowAges(i)
  PROVE  NoteInv' /\ LimitInv'
<1> DEFINE r == [rows[i] EXCEPT !.old = TRUE]
<1>1. NoteTypes /\ rows[i] \in RowRecords /\ rows' = [rows EXCEPT ![i] = r] /\ UNCHANGED <<job, queued, sends, lost, refused>>
  BY RowFacts DEF NoteInv, NoteTypes, Notif!RowAges
<1>2. r \in RowRecords /\ r.status = rows[i].status /\ r.note = rows[i].note /\ r.type = rows[i].type
  BY <1>1 DEF RowRecords
<1> HIDE DEF r
<1>3. rows' \in Seq(RowRecords) /\ DOMAIN rows' = DOMAIN rows
  BY <1>1, <1>2, ExceptSeq, LenProperties DEF NoteTypes
<1>4. \A k \in DOMAIN rows : rows'[k] = IF k = i THEN r ELSE rows[k]
  BY <1>1
<1>5. RowsMove(0, {}, {})
  BY <1>2, <1>3, <1>4 DEF RowsMove, Put
<1> QED
  BY <1>1, <1>5, NoteOthers

LEMMA NoteComes ==
  ASSUME NoteInv, LimitInv, NEW type \in Notif!Types, NEW known \in BOOLEAN, Notif!Notify(type, known)
  PROVE  NoteInv' /\ LimitInv'
<1>0. NoteTypes /\ OwnApart /\ RowsKept /\ UNCHANGED <<rows, job, refused>>
  BY DEF NoteInv, Notif!Notify
<1>1. PICK top \in Nat : top = Len(sends) /\ top = Len(lost) /\ DOMAIN sends = 1..top /\ DOMAIN lost = 1..top
  BY <1>0, LenProperties DEF NoteTypes
<1> DEFINE q == [kind |-> "notify", note |-> top + 1, type |-> type, known |-> known, attempt |-> 0]
<1>2. q \in NoteJobs /\ q.kind = "notify" /\ q.note = top + 1
  BY DEF NoteJobs, RowTypes, Notif!Types
<1>3. queued' = queued \union {q} /\ sends' = Append(sends, 0) /\ lost' = Append(lost, 0)
  BY <1>1 DEF Notif!Notify
<1> HIDE DEF q
<1>4. /\ sends' \in Seq(Nat) /\ lost' \in Seq(Nat) /\ Len(sends') = top + 1 /\ Len(lost') = top + 1
      /\ \A n \in 1..top : sends'[n] = sends[n] /\ lost'[n] = lost[n]
      /\ sends'[top + 1] = 0 /\ lost'[top + 1] = 0
  BY <1>0, <1>1, <1>3, AppendProperties DEF NoteTypes
<1>5. 1..top \subseteq 1..(top + 1) /\ \A n \in 1..(top + 1) : n \in 1..top \/ n = top + 1
  BY <1>1
<1>6. NoteTypes'
  <2>1. \A p \in queued' : IF p.kind = "notify" THEN p.note \in 1..(top + 1) ELSE p.known
    <3> SUFFICES ASSUME NEW p \in queued'
                 PROVE  IF p.kind = "notify" THEN p.note \in 1..(top + 1) ELSE p.known
      OBVIOUS
    <3>1. CASE p \in queued
      BY <3>1, <1>0, <1>1, <1>5 DEF NoteTypes
    <3>2. CASE p = q
      BY <3>2, <1>2
    <3> QED
      BY <3>1, <3>2, <1>3
  <2>2. \A i \in DOMAIN rows' : Put(i)' => rows'[i].note \in 1..(top + 1)
    BY <1>0, <1>1, <1>5 DEF NoteTypes, Put
  <2>3. queued' \subseteq NoteJobs
    BY <1>0, <1>2, <1>3 DEF NoteTypes
  <2> QED
    BY <2>1, <2>2, <2>3, <1>0, <1>4 DEF NoteTypes
<1>7. \A v \in Workers : Ready(v)'
  <2>1. Len(sends') >= Len(sends) /\ Len(sends') \in Nat
    BY <1>1, <1>4
  <2>2. \A v \in Workers : Working(v) => Ready(v)
    BY DEF NoteInv
  <2>3. RowsMove(0, {}, {})
    BY <1>0, RowsSame
  <2> QED
    BY <2>1, <2>2, <2>3, <1>0, OthersReady
<1>8. ASSUME NEW n \in 1..(top + 1)
      PROVE  OneWay(n)' /\ Told(n)'
  <2>1. (Runs(n)' <=> Runs(n)) /\ (PutOff(n)' <=> PutOff(n))
    BY <1>0 DEF Runs, PutOff, Put
  <2>2. CASE n \in 1..top
    <3>1. OneWay(n) /\ Told(n) /\ n # top + 1
      BY <2>2, <1>1 DEF NoteInv
    <3>2. Waits(n)' <=> Waits(n)
      BY <3>1, <1>2, <1>3 DEF Waits
    <3>3. \A p \in queued' : p.kind = "notify" /\ p.note = n => p \in queued
      BY <3>1, <1>2, <1>3
    <3>4. OneWay(n)'
      BY <3>1, <3>2, <3>3, <2>1, <1>0 DEF OneWay
    <3>5. One(PutOff(n)') = One(PutOff(n)) /\ One((Waits(n) \/ Runs(n))') = One(Waits(n) \/ Runs(n))
      BY <2>1, <3>2 DEF One
    <3>6. Told(n)'
      BY <3>1, <3>5, <2>2, <1>4 DEF Told
    <3> QED
      BY <3>4, <3>6
  <2>3. CASE n = top + 1
    <3>0. n \notin 1..top
      BY <2>3, <1>1
    <3>1. ~Runs(n) /\ ~Waits(n)
      BY <3>0, <1>0, <1>1 DEF NoteInv, Runs, Waits, Ready, NoteTask, Working, NoteTypes
    <3>2. ~PutOff(n)
      BY <3>0, <1>0, <1>1 DEF PutOff, NoteTypes
    <3>3. \A p \in queued' : p.kind = "notify" /\ p.note = n => p = q
      BY <3>1, <1>3 DEF Waits
    <3>4. OneWay(n)'
      BY <3>1, <3>3, <2>1, <1>0 DEF OneWay, Runs
    <3>5. One(PutOff(n)') = 0 /\ One((Waits(n) \/ Runs(n))') \in {0, 1}
      BY <2>1, <3>2 DEF One
    <3>6. Told(n)'
      BY <3>5, <2>3, <1>4 DEF Told
    <3> QED
      BY <3>4, <3>6
  <2> QED
    BY <2>2, <2>3, <1>5
<1>9. OwnApart' /\ RowsKept'
  <2>1. RowsMove(0, {}, {})
    BY <1>0, RowsSame
  <2> QED
    BY <2>1, <1>0, KeptStays DEF OwnApart, Working
<1>10. NoteInv'
  BY <1>4, <1>6, <1>7, <1>8, <1>9 DEF NoteInv
<1>11. LimitInv'
  <2>1. Notif!Pending' \subseteq Notif!Pending
    BY <1>0 DEF Notif!Pending
  <2> QED
    BY <2>1, <1>0, LimitKeeps
<1> QED
  BY <1>10, <1>11

LEMMA FlushComes ==
  ASSUME NoteInv, LimitInv, case \in Notif!CaseOf, Notif!Flush
  PROVE  NoteInv' /\ LimitInv'
<1>0. NoteTypes /\ OwnApart /\ RowsKept /\ UNCHANGED <<rows, job, refused, sends, lost>>
  BY DEF NoteInv, Notif!Flush
<1>1. PICK q : queued' = queued \union {q} /\ q.kind = "flush" /\ q \in NoteJobs /\ q.known
  <2> DEFINE q == [kind |-> "flush", note |-> case.flushes, type |-> "none", known |-> TRUE, attempt |-> 0]
  <2>1. q \in NoteJobs /\ q.kind = "flush" /\ q.known
    BY DEF NoteJobs, RowTypes, Notif!CaseOf
  <2>2. queued' = queued \union {q}
    BY DEF Notif!Flush
  <2> QED
    BY <2>1, <2>2
<1>2. NoteTypes'
  BY <1>0, <1>1 DEF NoteTypes, Put
<1>3. \A v \in Workers : Ready(v)'
  <2>1. Len(sends') >= Len(sends) /\ Len(sends') \in Nat
    BY <1>0, LenProperties DEF NoteTypes
  <2>2. \A v \in Workers : Working(v) => Ready(v)
    BY DEF NoteInv
  <2>3. RowsMove(0, {}, {})
    BY <1>0, RowsSame
  <2> QED
    BY <2>1, <2>2, <2>3, <1>0, OthersReady
<1>4. ASSUME NEW n \in 1..Len(sends)
      PROVE  OneWay(n)' /\ Told(n)'
  <2>1. OneWay(n) /\ Told(n)
    BY DEF NoteInv
  <2>2. (Waits(n)' <=> Waits(n)) /\ (Runs(n)' <=> Runs(n)) /\ (PutOff(n)' <=> PutOff(n))
    BY <1>0, <1>1 DEF Waits, Runs, PutOff, Put
  <2>3. \A p \in queued' : p.kind = "notify" => p \in queued
    BY <1>1
  <2>4. OneWay(n)'
    BY <2>1, <2>2, <2>3, <1>0 DEF OneWay
  <2>5. One((Waits(n) \/ Runs(n))') = One(Waits(n) \/ Runs(n)) /\ One(PutOff(n)') = One(PutOff(n))
    BY <2>2 DEF One
  <2>6. Told(n)'
    BY <2>1, <2>5, <1>0 DEF Told
  <2> QED
    BY <2>4, <2>6
<1>5. OwnApart' /\ RowsKept'
  <2>1. RowsMove(0, {}, {})
    BY <1>0, RowsSame
  <2> QED
    BY <2>1, <1>0, KeptStays DEF OwnApart, Working
<1>6. LimitInv'
  <2>1. Notif!Pending' \subseteq Notif!Pending
    BY <1>0 DEF Notif!Pending
  <2> QED
    BY <2>1, <1>0, LimitKeeps
<1> QED
  BY <1>0, <1>2, <1>3, <1>4, <1>5, <1>6 DEF NoteInv

LEMMA NotePops ==
  ASSUME NoteInv, LimitInv, NEW w \in Workers, NEW q \in queued, Notif!Pop(w, q)
  PROVE  NoteInv' /\ LimitInv'
<1>0. /\ NoteTypes /\ OwnApart /\ RowsKept /\ UNCHANGED <<rows, refused, sends, lost>> /\ RowsMove(0, {}, {})
      /\ queued' = queued \ {q} /\ q \in NoteJobs /\ job[w] = Notif!NoJob
  BY RowsSame DEF NoteInv, Notif!Pop, NoteTypes
<1> DEFINE c == Notif!Popped(q)
<1>1. /\ c \in RunningJobs /\ c.kind = q.kind /\ c.note = q.note /\ c.known = q.known
      /\ c.phase = "popped" /\ c.row = 0 /\ c.id = 0 /\ c.seen = {} /\ c.gone = {}
  <2>1. "popped" \in NotePhases
    BY DEF NotePhases
  <2> QED
    BY <2>1, <1>0 DEF Notif!Popped, NoteJobs, RunningJobs
<1>2. job' = [job EXCEPT ![w] = c]
  BY DEF Notif!Pop
<1> HIDE DEF c
<1>3. /\ job' \in [Workers -> RunningJobs \union {Notif!NoJob}] /\ job'[w] = c /\ \A v \in Workers \ {w} : job'[v] = job[v]
  BY <1>0, <1>1, <1>2 DEF NoteTypes
<1>4. \A v \in Workers : Ready(v)'
  <2>1. Len(sends') >= Len(sends) /\ Len(sends') \in Nat
    BY <1>0, LenProperties DEF NoteTypes
  <2>2. \A v \in Workers \ {w} : Ready(v)'
    BY <2>1, <1>0, <1>3, OthersReady DEF NoteInv
  <2>3. NoteTask(w)'
    BY <1>0, <1>1, <1>3 DEF NoteTask, NoteTypes
  <2>4. OwnRow(w)' /\ Replaced(w)'
    BY <1>1, <1>3 DEF OwnRow, Replaced, Deferring
  <2> QED
    BY <2>2, <2>3, <2>4 DEF Ready
<1>5. OwnApart'
  BY <1>0, <1>1, <1>3 DEF OwnApart, Working
<1>6. NoteTypes'
  BY <1>0, <1>3 DEF NoteTypes, Put
<1>7. ASSUME NEW n \in 1..Len(sends)
      PROVE  OneWay(n)' /\ Told(n)'
  <2>1. OneWay(n) /\ Told(n)
    BY DEF NoteInv
  <2>2. PutOff(n)' <=> PutOff(n)
    BY <1>0 DEF PutOff, Put
  <2>3. CASE q.kind = "notify" /\ q.note = n
    <3>1. Waits(n) /\ ~Runs(n)
      BY <2>1, <2>3 DEF OneWay, Waits
    <3>2. ~Waits(n)'
      BY <2>1, <2>3, <1>0 DEF OneWay, Waits
    <3>3. \A v \in Workers : job'[v].kind = "notify" /\ job'[v].note = n => v = w
      BY <3>1, <1>3 DEF Runs
    <3>4. OneWay(n)'
      BY <3>2, <3>3, <2>1, <1>0 DEF OneWay
    <3>5. Runs(n)'
      BY <2>3, <1>1, <1>3 DEF Runs
    <3>6. One((Waits(n) \/ Runs(n))') = One(Waits(n) \/ Runs(n)) /\ One(PutOff(n)') = One(PutOff(n))
      BY <2>2, <3>1, <3>5 DEF One
    <3>7. Told(n)'
      BY <3>6, <2>1, <1>0 DEF Told
    <3> QED
      BY <3>4, <3>7
  <2>4. CASE ~(q.kind = "notify" /\ q.note = n)
    <3>1. Waits(n)' <=> Waits(n)
      BY <2>4, <1>0 DEF Waits
    <3>2. \A v \in Workers : job'[v].kind = "notify" /\ job'[v].note = n <=> job[v].kind = "notify" /\ job[v].note = n
      BY <2>4, <1>0, <1>1, <1>3 DEF Notif!NoJob
    <3>3. Runs(n)' <=> Runs(n)
      BY <3>2 DEF Runs
    <3>4. OneWay(n)'
      BY <3>1, <3>2, <3>3, <2>1, <1>0 DEF OneWay
    <3>5. One((Waits(n) \/ Runs(n))') = One(Waits(n) \/ Runs(n)) /\ One(PutOff(n)') = One(PutOff(n))
      BY <2>2, <3>1, <3>3 DEF One
    <3>6. Told(n)'
      BY <3>5, <2>1, <1>0 DEF Told
    <3> QED
      BY <3>4, <3>6
  <2> QED
    BY <2>3, <2>4
<1>8. NoteInv'
  BY <1>0, <1>4, <1>5, <1>6, <1>7, KeptStays DEF NoteInv
<1>9. LimitInv'
  <2>1. Notif!Pending' \subseteq Notif!Pending
    BY <1>0 DEF Notif!Pending
  <2>2. ~Trimming(w)'
    BY <1>1, <1>3 DEF Trimming
  <2> QED
    BY <2>1, <2>2, <1>0, <1>3, LimitKeeps
<1> QED
  BY <1>8, <1>9

LEMMA CaseKept ==
  ASSUME case \in Notif!CaseOf, Notif!NotifierNext
  PROVE  case' \in Notif!CaseOf
<1> DEFINE Lower ==
      \/ case' = case
      \/ (case.faults > 0 /\ case' = [case EXCEPT !.faults = @ - 1])
      \/ (case.denials > 0 /\ case' = [case EXCEPT !.denials = @ - 1])
      \/ (case.flushes > 0 /\ case' = [case EXCEPT !.flushes = @ - 1])
<1>1. ASSUME NEW type \in Notif!Types, NEW known \in BOOLEAN, Notif!Notify(type, known)  PROVE Lower
  BY <1>1 DEF Notif!Notify
<1>2. ASSUME Notif!Flush  PROVE Lower
  BY <1>2 DEF Notif!Flush
<1>3. ASSUME NEW w \in Workers, NEW q \in queued, Notif!Pop(w, q)  PROVE Lower
  BY <1>3 DEF Notif!Pop
<1>4. ASSUME NEW w \in Workers,
             \/ Notif!WindowCheck(w) \/ Notif!BeginFlush(w) \/ Notif!EndFlush(w) \/ Notif!FlushLimited(w)
             \/ Notif!Allowed(w) \/ Notif!Denied(w)
      PROVE  Lower
  BY <1>4 DEF Notif!WindowCheck, Notif!BeginFlush, Notif!EndFlush, Notif!FlushLimited, Notif!Allowed, Notif!Denied
<1>5. ASSUME NEW w \in Workers,
             \/ Notif!ScanCoalesced(w) \/ Notif!DeleteCoalesced(w) \/ Notif!ScanSurplus(w) \/ Notif!CommitDeferral(w)
      PROVE  Lower
  BY <1>5 DEF Notif!ScanCoalesced, Notif!DeleteCoalesced, Notif!ScanSurplus, Notif!CommitDeferral
<1>6. ASSUME NEW w \in Workers,
             \/ Notif!Sent(w) \/ Notif!SentUnheard(w) \/ Notif!MarkTerminal(w) \/ Notif!RecordLetter(w) \/ Notif!Crash(w)
      PROVE  Lower
  BY <1>6 DEF Notif!Sent, Notif!SentUnheard, Notif!MarkTerminal, Notif!RecordLetter, Notif!Crash, Notif!Fault
<1>7. ASSUME NEW w \in Workers, NEW answer \in Notif!Answers, Notif!NotTaken(w, answer) \/ Notif!Refused(w, answer)
      PROVE  Lower
  BY <1>7 DEF Notif!NotTaken, Notif!Refused, Notif!Fault
<1>8. ASSUME NEW i \in DOMAIN rows, Notif!RowAges(i)  PROVE Lower
  BY <1>8 DEF Notif!RowAges
<1>9. ASSUME NEW o \in Operators, Notif!MarkQueued(o) \/ \E d \in DOMAIN letters : Notif!Requeue(o, d)  PROVE Lower
  BY <1>9 DEF Notif!MarkQueued, Notif!Requeue
<1>10. Lower
  <2> HIDE DEF Lower
  <2> QED
    BY <1>1, <1>2, <1>3, <1>4, <1>5, <1>6, <1>7, <1>8, <1>9, Zenon DEF Notif!NotifierNext
<1> QED
  BY <1>10 DEF Notif!CaseOf

NotifierInv == case \in Notif!CaseOf /\ NoteInv /\ LimitInv

LEMMA NotifierBegins ==
  ASSUME Notif!NotifierInit
  PROVE  NotifierInv
<1>1. /\ case \in Notif!CaseOf /\ rows = <<>> /\ sends = <<>> /\ lost = <<>> /\ queued = {} /\ refused = {}
      /\ job = [w \in Workers |-> Notif!NoJob]
  BY WorkersAssumption DEF Notif!NotifierInit
<1>2. /\ \A S : <<>> \in Seq(S)
      /\ Len(rows) = 0 /\ Len(sends) = 0 /\ DOMAIN rows = {} /\ 1..Len(sends) = {} /\ Len(lost) = 0
  BY <1>1
<1>3. \A w \in Workers : job[w] = Notif!NoJob /\ ~Working(w)
  BY <1>1 DEF Working, Notif!NoJob
<1>4. NoteTypes
  BY <1>1, <1>2 DEF NoteTypes
<1>5. RowsKept
  BY <1>1, <1>2 DEF RowsKept, Notif!Committed
<1>6. NoteInv
  BY <1>2, <1>3, <1>4, <1>5 DEF NoteInv, OwnApart, Ready
<1>7. LimitInv
  <2> DEFINE N == [w \in Workers |-> {}]
  <2>1. N \in [Workers -> SUBSET Workers] /\ Overlaps(N)
    BY <1>3 DEF Overlaps, Trimming
  <2>2. Cardinality(Workers) \in Nat /\ Cardinality(Workers) # 0
    BY WorkersAssumption, FS_CardinalityType, FS_EmptySet
  <2>3. Notif!Pending = {} /\ Cardinality(Notif!Pending) = 0
    BY <1>2, FS_EmptySet DEF Notif!Pending
  <2> HIDE DEF N
  <2>4. Cardinality(Notif!Pending) <= MaxPending + Cardinality(Workers) - 1
    BY <2>2, <2>3, WorkersAssumption
  <2> QED
    BY <2>1, <2>4 DEF LimitInv
<1> QED
  BY <1>1, <1>6, <1>7 DEF NotifierInv

LEMMA NotifierKept ==
  ASSUME NotifierInv, Notif!NotifierNext
  PROVE  NotifierInv'
<1>0. NoteInv /\ LimitInv /\ case \in Notif!CaseOf /\ case' \in Notif!CaseOf /\ NoteTypes
  BY CaseKept DEF NotifierInv, NoteInv
<1>1. ASSUME NEW type \in Notif!Types, NEW known \in BOOLEAN, Notif!Notify(type, known)
      PROVE  NoteInv' /\ LimitInv'
  BY <1>0, <1>1, NoteComes
<1>2. ASSUME Notif!Flush
      PROVE  NoteInv' /\ LimitInv'
  BY <1>0, <1>2, FlushComes
<1>3. ASSUME NEW w \in Workers, NEW q \in queued, Notif!Pop(w, q)
      PROVE  NoteInv' /\ LimitInv'
  BY <1>0, <1>3, NotePops
<1>4. ASSUME NEW w \in Workers,
             \/ Notif!WindowCheck(w) \/ Notif!EndFlush(w) \/ Notif!Sent(w) \/ Notif!SentUnheard(w)
             \/ (\E answer \in Notif!Answers : Notif!NotTaken(w, answer))
             \/ Notif!RecordLetter(w) \/ Notif!Crash(w)
      PROVE  NoteInv' /\ LimitInv'
  BY <1>0, <1>4, NoteEndings
<1>5. ASSUME NEW w \in Workers,
             \/ Notif!FlushLimited(w) \/ Notif!Allowed(w) \/ Notif!MarkTerminal(w)
             \/ \E answer \in Notif!Answers : Notif!Refused(w, answer)
      PROVE  NoteInv' /\ LimitInv'
  BY <1>0, <1>5, NotePasses
<1>6. ASSUME NEW w \in Workers, Notif!BeginFlush(w) \/ Notif!Denied(w)
      PROVE  NoteInv' /\ LimitInv'
  BY <1>0, <1>6, FlushBegins, NoteDenied
<1>7. ASSUME NEW w \in Workers, Notif!ScanCoalesced(w) \/ Notif!DeleteCoalesced(w) \/ Notif!ScanSurplus(w)
      PROVE  NoteInv' /\ LimitInv'
  BY <1>0, <1>7, NoteReplaces, NoteScans
<1>8. ASSUME NEW w \in Workers, Notif!CommitDeferral(w)
      PROVE  NoteInv' /\ LimitInv'
  BY <1>0, <1>8, AtPhase, CommitKeeps, CommitWithinLimit DEF Notif!CommitDeferral
<1>9. ASSUME NEW i \in DOMAIN rows, Notif!RowAges(i)
      PROVE  NoteInv' /\ LimitInv'
  BY <1>0, <1>9, RowAgesKept
<1>10. ASSUME NEW o \in Operators, Notif!MarkQueued(o) \/ \E d \in DOMAIN letters : Notif!Requeue(o, d)
       PROVE  NoteInv' /\ LimitInv'
  <2>1. UNCHANGED <<rows, job, queued, sends, lost, refused>>
    BY <1>10 DEF Notif!MarkQueued, Notif!Requeue
  <2> QED
    BY <2>1, <1>0, RowsSame, NoteOthers
<1>11. NoteInv' /\ LimitInv'
  <2>1. ASSUME NEW w \in Workers,
             \/ \E q \in queued : Notif!Pop(w, q)
             \/ Notif!WindowCheck(w) \/ Notif!BeginFlush(w) \/ Notif!EndFlush(w) \/ Notif!FlushLimited(w)
             \/ Notif!Allowed(w) \/ Notif!Denied(w)
             \/ Notif!ScanCoalesced(w) \/ Notif!DeleteCoalesced(w) \/ Notif!ScanSurplus(w) \/ Notif!CommitDeferral(w)
             \/ Notif!Sent(w) \/ Notif!SentUnheard(w) \/ Notif!MarkTerminal(w) \/ Notif!RecordLetter(w)
             \/ (\E answer \in Notif!Answers : Notif!NotTaken(w, answer) \/ Notif!Refused(w, answer))
             \/ Notif!Crash(w)
        PROVE  NoteInv' /\ LimitInv'
    BY <2>1, <1>3, <1>4, <1>5, <1>6, <1>7, <1>8, Zenon
  <2>2. Notif!NotifierNext
    OBVIOUS
  <2> QED
    BY <2>1, <2>2, <1>1, <1>2, <1>9, <1>10, Zenon DEF Notif!NotifierNext
<1> QED
  BY <1>0, <1>11 DEF NotifierInv

LEMMA NotifierStays ==
  ASSUME NotifierInv, UNCHANGED notifier
  PROVE  NotifierInv'
<1>1. UNCHANGED <<case, rows, job, queued, sends, lost, refused>>
  BY DEF notifier
<1>2. NoteInv' /\ LimitInv'
  BY <1>1, RowsSame, NoteOthers DEF NotifierInv, NoteInv
<1> QED
  BY <1>1, <1>2 DEF NotifierInv

NotifierPart == part = "notifier" => NotifierInv

LEMMA NotifierSafe ==
  BackOfficeSpec => []NotifierPart
<1>1. BackOfficeInit => NotifierPart
  BY NotifierBegins DEF BackOfficeInit, NotifierPart
<1>2. NotifierPart /\ [BackOfficeNext]_backOffice => NotifierPart'
  <2> SUFFICES ASSUME NotifierPart, [BackOfficeNext]_backOffice, part' = "notifier"
               PROVE  NotifierInv'
    BY DEF NotifierPart
  <2>1. CASE Notifies
    BY <2>1, NotifierKept DEF Notifies, NotifierPart
  <2>2. CASE ~Notifies
    <3>1. part' = part /\ UNCHANGED notifier
      BY <2>2 DEF BackOfficeNext, Syncs, Parses, Administers, PlansOrders, Talks, Chats, backOffice
    <3> QED
      BY <3>1, NotifierStays DEF NotifierPart
  <2> QED
    BY <2>1, <2>2
<1> QED
  BY <1>1, <1>2, PTL DEF BackOfficeSpec

\* A notification is sent at once or put off, never both and never twice, unless
\* something failed after Telegram had taken it (sendNotification, deferNotification
\* and flushPendingNotifications of notifier.ts, in any interleaving).
THEOREM SentOrPutOff ==
  BackOfficeSpec => []ToldOnce
<1>1. NotifierPart => ToldOnce
  <2> SUFFICES ASSUME NotifierInv, NEW n \in DOMAIN sends
               PROVE  sends[n] + (IF Notif!Deferrals(n) = {} THEN 0 ELSE 1) <= 1 + lost[n]
    BY DEF NotifierPart, ToldOnce, Notif!ToldOnce, Notif!Notes
  <2>1. n \in 1..Len(sends) /\ sends[n] \in Nat /\ lost[n] \in Nat
    BY LenProperties, ElementOfSeq DEF NotifierInv, NoteInv, NoteTypes
  <2>2. Told(n)
    BY <2>1 DEF NotifierInv, NoteInv
  <2>3. Notif!Deferrals(n) # {} <=> PutOff(n)
    BY DEF Notif!Deferrals, Notif!Committed, PutOff, Put
  <2>4. PICK a \in {0, 1} : a = One(PutOff(n)) /\ a = IF Notif!Deferrals(n) = {} THEN 0 ELSE 1
    BY <2>3 DEF One
  <2>5. PICK b \in {0, 1} : b = One(Waits(n) \/ Runs(n))
    BY DEF One
  <2>6. sends[n] + a + b <= 1 + lost[n]
    BY <2>2, <2>4, <2>5 DEF Told
  <2>7. sends[n] + a <= 1 + lost[n]
    BY <2>1, <2>6
  <2> QED
    BY <2>4, <2>7
<1> QED
  BY <1>1, NotifierSafe, PTL

\* However deferrals and flushes interleave, no more is pending than the limit and
\* the transactions that could not see each other allow; a row goes only for
\* MaxPending newer ones or for another of its coalesced type; and what Telegram
\* refused for good is not tried again (deferNotification and markTerminalFailure
\* of notifier.ts).
THEOREM PutOffKept ==
  BackOfficeSpec => []PendingKept
<1>1. NotifierPart => PendingKept
  <2> SUFFICES ASSUME NotifierInv
               PROVE  Notif!PendingKept
    BY DEF NotifierPart, PendingKept
  <2>1. LimitInv /\ RowsKept /\ NoteTypes
    BY DEF NotifierInv, NoteInv
  <2>2. Notif!Cardinality(Notif!Pending) <= MaxPending + Notif!Cardinality(Workers) - 1
    BY <2>1, NoteCounts DEF LimitInv
  <2>3. \A i \in Notif!Committed : rows[i].type = "plain" => Notif!Survives(i)
    BY <2>1 DEF RowsKept, Notif!Survives
  <2>4. (\E i \in Notif!Committed : rows[i].type = "coalesced") =>
          \E i \in Notif!Committed : rows[i].type = "coalesced" /\ Notif!Survives(i)
    BY <2>1 DEF RowsKept
  <2>5. refused \intersect Notif!Pending = {}
    BY <2>1 DEF RowsKept, Notif!Pending
  <2> QED
    BY <2>2, <2>3, <2>4, <2>5 DEF Notif!PendingKept
<1> QED
  BY <1>1, NotifierSafe, PTL

-----------------------------------------------------------------------------
(* The product sync.                                                       *)

\* Rows of a list of KiotViet, none of whose codes comes twice.
Products == [code : Codes \union {NoCode}, version : Nat]
Catalogue(s) ==
    /\ s \in Seq(Products)
    /\ \A i, j \in DOMAIN s : s[i].code = s[j].code /\ s[i].code # NoCode => i = j

SyncStages == {"starting", "reading", "writing", "read"}
SyncRuns == [stage : SyncStages, token : Nat, exchanged : BOOLEAN, offset : Nat, page : Seq(Products), total : Nat,
             wrote : [Codes -> Nat], base : Seq(Products), removed : Nat]

SyncTypes ==
    /\ secret \in Nat /\ token \in Nat /\ Catalogue(listed)
    /\ syncing \in [Workers -> {Sync!NoRun} \union SyncRuns]
    /\ \A w \in Workers : Sync!Running(w) => syncing[w] \in SyncRuns /\ Catalogue(syncing[w].base) /\ Catalogue(syncing[w].page)

\* The version of a product when a sync began, and whether the sync has a
\* row of it that is not older.
Base(w, c) == Sync!VersionIn(syncing[w].base, c)
OnPage(w, c) == \E i \in DOMAIN syncing[w].page : syncing[w].page[i].code = c
Fresh(w, c) ==
    IF OnPage(w, c)
    THEN \E i \in DOMAIN syncing[w].page : syncing[w].page[i].code = c /\ syncing[w].page[i].version >= Base(w, c)
    ELSE syncing[w].wrote[c] >= Base(w, c)

\* A product that a sync which has read up to r will not miss, as the list
\* still has it beyond; or of which it will read an older version again.
Ahead(w, r, c) == \E i \in DOMAIN listed : i > r /\ listed[i].code = c /\ listed[i].version >= Base(w, c)
Behind(w, r, c) ==
    IF \E i \in DOMAIN listed : listed[i].code = c
    THEN \E i \in DOMAIN listed : i > r /\ listed[i].code = c /\ listed[i].version < Base(w, c)
    ELSE r = 0

\* The products that would be missed by a sync that has read up to r.
Misses(w, r) == {c \in Codes : Base(w, c) # 0 /\ (IF Fresh(w, c) THEN Behind(w, r, c) ELSE ~Ahead(w, r, c))}
Stale(w) == {c \in Codes : Base(w, c) # 0 /\ ~Fresh(w, c)}

Reach(w) == syncing[w].offset + Len(syncing[w].page)
Ending(w) ==
    \/ syncing[w].stage = "writing" /\ Reach(w) >= syncing[w].total
    \/ syncing[w].stage = "read" /\ syncing[w].offset <= SafetyLimit
Going(w) == syncing[w].stage # "read" /\ ~Ending(w)

SyncFacts(w) ==
    /\ syncing[w].stage # "writing" => syncing[w].page = <<>>
    /\ Ending(w) => Cardinality(Stale(w)) <= syncing[w].removed
    /\ Going(w) => \A r \in 0..Reach(w) : Cardinality(Misses(w, r)) <= syncing[w].removed
Covers(w) == Sync!Running(w) => SyncFacts(w)

SyncInv == SyncTypes /\ \A w \in Workers : Covers(w)

LEMMA CatalogueFacts ==
  ASSUME NEW s, s \in Seq(Products)
  PROVE  /\ Len(s) \in Nat /\ DOMAIN s = 1..Len(s)
         /\ \A i \in DOMAIN s : s[i] \in Products /\ s[i].version \in Nat
<1>1. Len(s) \in Nat /\ DOMAIN s = 1..Len(s)
  BY LenProperties
<1>2. \A i \in DOMAIN s : s[i] \in Products
  BY <1>1, ElementOfSeq
<1> QED
  BY <1>1, <1>2 DEF Products

\* The version of a code in a list is that of its row.
LEMMA VersionOf ==
  ASSUME NEW s, Catalogue(s), NEW c \in Codes
  PROVE  /\ Sync!VersionIn(s, c) \in Nat
         /\ \A i \in DOMAIN s : s[i].code = c => Sync!VersionIn(s, c) = s[i].version
         /\ (\A i \in DOMAIN s : s[i].code # c) => Sync!VersionIn(s, c) = 0
<1>0. c # NoCode
  BY ListsAssumption
<1>1. \A i \in DOMAIN s : s[i].version \in Nat
  BY CatalogueFacts DEF Catalogue
<1> DEFINE S == {0} \union {s[i].version : i \in {j \in DOMAIN s : s[j].code = c}}
<1>2. Sync!VersionIn(s, c) = CHOOSE x \in S : \A y \in S : x >= y
  BY DEF Sync!VersionIn, Sync!Max
<1>3. ASSUME NEW i \in DOMAIN s, s[i].code = c
      PROVE  Sync!VersionIn(s, c) = s[i].version
  <2>1. {j \in DOMAIN s : s[j].code = c} = {i}
    BY <1>0, <1>3 DEF Catalogue
  <2>2. S = {0, s[i].version} /\ s[i].version \in Nat
    BY <2>1, <1>1
  <2> HIDE DEF S
  <2>3. \E x \in S : \A y \in S : x >= y
    BY <2>2
  <2>4. \A x \in S : (\A y \in S : x >= y) => x = s[i].version
    BY <2>2
  <2> QED
    BY <1>2, <2>3, <2>4
<1>4. ASSUME \A i \in DOMAIN s : s[i].code # c
      PROVE  Sync!VersionIn(s, c) = 0
  <2>1. S = {0}
    BY <1>4
  <2> HIDE DEF S
  <2> QED
    BY <1>2, <2>1
<1>5. CASE \E i \in DOMAIN s : s[i].code = c
  BY <1>1, <1>3, <1>5
<1>6. CASE \A i \in DOMAIN s : s[i].code # c
  BY <1>4, <1>6
<1> QED
  BY <1>3, <1>4, <1>5, <1>6

LEMMA SyncCounts ==
  ASSUME NEW S
  PROVE  Sync!Cardinality(S) = Cardinality(S)
BY DEF Sync!Cardinality, Cardinality

\* What fits in a bounded set of codes, and one more, is bounded.
LEMMA FewCodes ==
  ASSUME NEW A, NEW B \in SUBSET Codes, A \subseteq B
  PROVE  IsFiniteSet(A) /\ Cardinality(A) \in Nat /\ Cardinality(B) \in Nat /\ Cardinality(A) <= Cardinality(B)
BY ListsAssumption, FS_Subset, FS_CardinalityType

LEMMA OneCodeMore ==
  ASSUME NEW A, NEW B \in SUBSET Codes, NEW x, A \subseteq B \union {x}
  PROVE  Cardinality(A) \in Nat /\ Cardinality(B) \in Nat /\ Cardinality(A) <= Cardinality(B) + 1
<1>1. IsFiniteSet(B) /\ Cardinality(B) \in Nat
  BY ListsAssumption, FS_Subset, FS_CardinalityType
<1>2. IsFiniteSet(B \union {x}) /\ Cardinality(B \union {x}) <= Cardinality(B) + 1
  <2>1. /\ IsFiniteSet(B \union {x})
        /\ Cardinality(B \union {x}) = IF x \in B THEN Cardinality(B) ELSE Cardinality(B) + 1
    BY <1>1, FS_AddElement
  <2> QED
    BY <1>1, <2>1
<1>3. IsFiniteSet(A) /\ Cardinality(A) <= Cardinality(B \union {x})
  BY <1>2, FS_Subset
<1> QED
  BY <1>1, <1>2, <1>3, FS_CardinalityType

\* What the invariant says of a sync's run.
LEMMA RunFacts ==
  ASSUME SyncTypes, NEW w \in Workers, Sync!Running(w)
  PROVE  /\ syncing[w] \in SyncRuns /\ syncing[w].offset \in Nat /\ syncing[w].removed \in Nat /\ syncing[w].total \in Nat
         /\ Len(syncing[w].page) \in Nat /\ Reach(w) \in Nat /\ syncing[w].wrote \in [Codes -> Nat]
         /\ DOMAIN syncing[w].page = 1..Len(syncing[w].page)
         /\ \A c \in Codes : Base(w, c) \in Nat
         /\ \A i \in DOMAIN syncing[w].page : syncing[w].page[i].version \in Nat
<1>1. syncing[w] \in SyncRuns /\ Catalogue(syncing[w].base)
  BY DEF SyncTypes
<1>2. /\ syncing[w].offset \in Nat /\ syncing[w].removed \in Nat /\ syncing[w].total \in Nat
      /\ syncing[w].wrote \in [Codes -> Nat] /\ syncing[w].page \in Seq(Products)
  BY <1>1 DEF SyncRuns
<1>3. Len(syncing[w].page) \in Nat /\ DOMAIN syncing[w].page = 1..Len(syncing[w].page)
      /\ \A i \in DOMAIN syncing[w].page : syncing[w].page[i].version \in Nat
  BY <1>2, CatalogueFacts
<1>4. Reach(w) \in Nat
  BY <1>2, <1>3 DEF Reach
<1>5. \A c \in Codes : Base(w, c) \in Nat
  BY <1>1, VersionOf DEF Base
<1> QED
  BY <1>1, <1>2, <1>3, <1>4, <1>5

LEMMA ListedFacts ==
  ASSUME SyncTypes
  PROVE  /\ listed \in Seq(Products) /\ Len(listed) \in Nat /\ DOMAIN listed = 1..Len(listed)
         /\ \A i \in DOMAIN listed : listed[i] \in Products /\ listed[i].version \in Nat
         /\ \A i, j \in DOMAIN listed : listed[i].code = listed[j].code /\ listed[i].code # NoCode => i = j
BY CatalogueFacts DEF SyncTypes, Catalogue

\* A run that nobody touches, while the list does not change.
LEMMA SyncRests ==
  ASSUME NEW w \in Workers, Covers(w), listed' = listed, syncing'[w] = syncing[w]
  PROVE  Covers(w)'
<1>1. /\ Sync!Running(w)' <=> Sync!Running(w)
      /\ Ending(w)' <=> Ending(w)
      /\ Going(w)' <=> Going(w)
      /\ Reach(w)' = Reach(w)
  BY DEF Sync!Running, Ending, Going, Reach
<1>2. \A c : Base(w, c)' = Base(w, c)
  BY DEF Base, Sync!VersionIn
<1>3. \A c : Fresh(w, c)' <=> Fresh(w, c)
  BY <1>2 DEF Fresh, OnPage
<1>4. Stale(w)' = Stale(w)
  BY <1>2, <1>3 DEF Stale
<1>5. \A r : Misses(w, r)' = Misses(w, r)
  BY <1>2, <1>3 DEF Misses, Ahead, Behind
<1> QED
  BY <1>1, <1>4, <1>5 DEF Covers, SyncFacts

\* A change of the list that moves what is beyond q beyond r, and loses at
\* most the products X.
LEMMA MissesMove ==
  ASSUME SyncTypes, NEW w \in Workers, Sync!Running(w), NEW r, NEW q, NEW X,
         syncing'[w].page = syncing[w].page, syncing'[w].wrote = syncing[w].wrote, syncing'[w].base = syncing[w].base,
         \A c \in Codes \ X : /\ Ahead(w, q, c) => Ahead(w, r, c)'
                              /\ Behind(w, r, c)' => Behind(w, q, c)
  PROVE  Misses(w, r)' \subseteq Misses(w, q) \union X /\ Stale(w)' = Stale(w)
<1>1. \A c : Base(w, c)' = Base(w, c)
  BY DEF Base, Sync!VersionIn
<1>2. \A c : Fresh(w, c)' <=> Fresh(w, c)
  BY <1>1 DEF Fresh, OnPage
<1>3. Stale(w)' = Stale(w)
  BY <1>1, <1>2 DEF Stale
<1>4. ASSUME NEW c \in Misses(w, r)', c \notin X
      PROVE  c \in Misses(w, q)
  BY <1>1, <1>2, <1>4 DEF Misses
<1> QED
  BY <1>3, <1>4

\* A product the shop adds stands in front, and moves the others.
LEMMA AddCovers ==
  ASSUME SyncInv, Sync!AddProduct
  PROVE  Catalogue(listed)' /\ \A w \in Workers : Covers(w)'
<1>0. SyncTypes /\ UNCHANGED <<secret, token, cache, syncing, waiting>>
  BY DEF SyncInv, Sync!AddProduct
<1>1. PICK x : /\ x = [code |-> x.code, version |-> 1] /\ x \in Products
               /\ (\A i \in DOMAIN listed : listed[i].code # x.code) /\ listed' = <<x>> \o listed
  <2>1. PICK c \in (Codes \union {NoCode}) \ Sync!Listed : listed' = <<[code |-> c, version |-> 1]>> \o listed
    BY DEF Sync!AddProduct
  <2>2. [code |-> c, version |-> 1] \in Products /\ \A i \in DOMAIN listed : listed[i].code # c
    BY <2>1 DEF Products, Sync!Listed
  <2> QED
    BY <2>1, <2>2
<1>2. /\ listed \in Seq(Products) /\ Len(listed) \in Nat /\ DOMAIN listed = 1..Len(listed)
      /\ \A i, j \in DOMAIN listed : listed[i].code = listed[j].code /\ listed[i].code # NoCode => i = j
      /\ \A i \in DOMAIN listed : listed[i].version \in Nat
  BY <1>0, ListedFacts
<1>3. /\ listed' \in Seq(Products) /\ DOMAIN listed' = 1..(Len(listed) + 1)
      /\ listed'[1] = x /\ \A i \in DOMAIN listed : i + 1 \in DOMAIN listed' /\ listed'[i + 1] = listed[i]
  <2>1. <<x>> \in Seq(Products) /\ Len(<<x>>) = 1 /\ <<x>>[1] = x
    BY <1>1
  <2>2. /\ <<x>> \o listed \in Seq(Products) /\ Len(<<x>> \o listed) = 1 + Len(listed)
        /\ \A i \in 1..(1 + Len(listed)) : (<<x>> \o listed)[i] = IF i <= 1 THEN <<x>>[i] ELSE listed[i - 1]
    BY <2>1, <1>2, ConcatProperties
  <2>3. DOMAIN (<<x>> \o listed) = 1..(1 + Len(listed))
    BY <2>2, LenProperties
  <2> HIDE <2>1
  <2> QED
    BY <2>1, <2>2, <2>3, <1>1, <1>2
<1>4. \A i \in DOMAIN listed' : i = 1 \/ (i - 1 \in DOMAIN listed /\ listed'[i] = listed[i - 1])
  BY <1>2, <1>3
<1>5. Catalogue(listed)'
  BY <1>1, <1>2, <1>3, <1>4 DEF Catalogue
<1>6. ASSUME NEW w \in Workers PROVE Covers(w)'
  <2> SUFFICES ASSUME Sync!Running(w) PROVE SyncFacts(w)'
    BY <1>0 DEF Covers, Sync!Running
  <2>0. SyncFacts(w) /\ Reach(w) \in Nat /\ syncing[w].removed \in Nat /\ \A c \in Codes : Base(w, c) \in Nat
    BY <1>0, RunFacts DEF SyncInv, Covers
  <2>1. Reach(w)' = Reach(w) /\ (Ending(w)' <=> Ending(w)) /\ (Going(w)' <=> Going(w)) /\ syncing'[w] = syncing[w]
    BY <1>0 DEF Reach, Ending, Going
  <2>2. \A c : Base(w, c)' = Base(w, c)
    BY <1>0 DEF Base, Sync!VersionIn
  <2>3. ASSUME NEW r \in 0..Reach(w)
        PROVE  \E q \in 0..Reach(w) : Misses(w, r)' \subseteq Misses(w, q) \union {} /\ Stale(w)' = Stale(w)
    <3>1. PICK q \in 0..Reach(w) : q = IF r = 0 THEN 0 ELSE r - 1
      BY <2>0
    <3>2. q \in Nat /\ r \in Nat /\ q + 1 >= r
      BY <3>1, <2>0
    <3>3. ASSUME NEW c \in Codes, Ahead(w, q, c) PROVE Ahead(w, r, c)'
      <4>1. PICK i \in DOMAIN listed : i > q /\ listed[i].code = c /\ listed[i].version >= Base(w, c)
        BY <3>3 DEF Ahead
      <4>2. i + 1 \in DOMAIN listed' /\ listed'[i + 1] = listed[i] /\ i + 1 > r
        BY <4>1, <1>2, <1>3, <3>2
      <4> QED
        BY <4>1, <4>2, <2>2 DEF Ahead
    <3>4. ASSUME NEW c \in Codes, Behind(w, r, c)' PROVE Behind(w, q, c)
      <4>1. CASE x.code = c
        <5>1. \A i \in DOMAIN listed : listed[i].code # c
          BY <1>1, <4>1
        <5>2. \A i \in DOMAIN listed' : listed'[i].code = c => i = 1
          BY <1>4, <5>1
        <5>3. 1 \in DOMAIN listed' /\ listed'[1].code = c
          BY <1>2, <1>3, <4>1
        <5>4. ~(1 > r) => FALSE
          BY <3>4, <5>2, <5>3 DEF Behind
        <5>5. r = 0 /\ q = 0
          BY <5>4, <3>1, <3>2
        <5> QED
          BY <5>1, <5>5 DEF Behind
      <4>2. CASE x.code # c
        <5>1. \A i \in DOMAIN listed' : listed'[i].code = c => i - 1 \in DOMAIN listed /\ listed'[i] = listed[i - 1] /\ i # 1
          BY <1>3, <1>4, <4>2
        <5>2. (\E i \in DOMAIN listed' : listed'[i].code = c) <=> (\E i \in DOMAIN listed : listed[i].code = c)
          BY <1>3, <5>1
        <5>3. CASE \E i \in DOMAIN listed : listed[i].code = c
          <6>1. PICK i \in DOMAIN listed' : i > r /\ listed'[i].code = c /\ listed'[i].version < Base(w, c)
            BY <3>4, <5>2, <5>3, <2>2 DEF Behind
          <6>2. i - 1 \in DOMAIN listed /\ listed'[i] = listed[i - 1] /\ i - 1 > q
            BY <5>1, <6>1, <3>1, <3>2, <1>2, <1>3
          <6> QED
            BY <5>3, <6>1, <6>2 DEF Behind
        <5>4. CASE ~ \E i \in DOMAIN listed : listed[i].code = c
          <6>1. r = 0 /\ q = 0
            BY <3>1, <3>4, <5>2, <5>4 DEF Behind
          <6> QED
            BY <6>1, <5>4 DEF Behind
        <5> QED
          BY <5>3, <5>4
      <4> QED
        BY <4>1, <4>2
    <3>5. Misses(w, r)' \subseteq Misses(w, q) \union {} /\ Stale(w)' = Stale(w)
      BY <1>0, <3>3, <3>4, MissesMove
    <3> QED
      BY <3>5
  <2>4. \A r \in 0..Reach(w) : Going(w) => Cardinality(Misses(w, r)') <= syncing[w].removed
    <3> SUFFICES ASSUME NEW r \in 0..Reach(w), Going(w) PROVE Cardinality(Misses(w, r)') <= syncing[w].removed
      OBVIOUS
    <3>1. PICK q \in 0..Reach(w) : Misses(w, r)' \subseteq Misses(w, q)
      BY <2>3
    <3>2. Misses(w, q) \in SUBSET Codes
      BY DEF Misses
    <3>3. Cardinality(Misses(w, q)) <= syncing[w].removed
      BY <2>0 DEF SyncFacts
    <3> QED
      BY <3>1, <3>2, <3>3, <2>0, FewCodes
  <2>5. Stale(w)' = Stale(w)
    BY <2>0, <2>3
  <2> QED
    BY <2>0, <2>1, <2>4, <2>5 DEF SyncFacts
<1> QED
  BY <1>5, <1>6

\* A new price is a newer version, in the same place.
LEMMA RepriceCovers ==
  ASSUME SyncInv, Sync!Reprice
  PROVE  Catalogue(listed)' /\ \A w \in Workers : Covers(w)'
<1>0. SyncTypes /\ UNCHANGED <<secret, token, cache, syncing, waiting>>
  BY DEF SyncInv, Sync!Reprice
<1>1. PICK p \in DOMAIN listed : listed' = [listed EXCEPT ![p].version = @ + 1]
  BY DEF Sync!Reprice
<1>2. /\ listed \in Seq(Products) /\ Len(listed) \in Nat /\ DOMAIN listed = 1..Len(listed)
      /\ \A i, j \in DOMAIN listed : listed[i].code = listed[j].code /\ listed[i].code # NoCode => i = j
      /\ \A i \in DOMAIN listed : listed[i] \in Products /\ listed[i].version \in Nat
  BY <1>0, ListedFacts
<1>3. PICK e \in Products : e.code = listed[p].code /\ e.version = listed[p].version + 1 /\ listed' = [listed EXCEPT ![p] = e]
  <2>1. [listed[p] EXCEPT !.version = listed[p].version + 1] \in Products
    BY <1>1, <1>2 DEF Products
  <2>2. /\ [listed[p] EXCEPT !.version = listed[p].version + 1].code = listed[p].code
        /\ [listed[p] EXCEPT !.version = listed[p].version + 1].version = listed[p].version + 1
    BY <1>1, <1>2 DEF Products
  <2>3. listed' = [listed EXCEPT ![p] = [listed[p] EXCEPT !.version = listed[p].version + 1]]
    BY <1>1
  <2> QED
    BY <2>1, <2>2, <2>3
<1>4. /\ listed' \in Seq(Products) /\ DOMAIN listed' = DOMAIN listed
      /\ \A i \in DOMAIN listed : listed'[i].code = listed[i].code /\ listed'[i].version >= listed[i].version
                                  /\ listed'[i].version \in Nat
  <2>1. listed' \in Seq(Products)
    BY <1>2, <1>3, ExceptSeq
  <2>2. DOMAIN listed' = DOMAIN listed /\ \A i \in DOMAIN listed : listed'[i] = IF i = p THEN e ELSE listed[i]
    BY <1>2, <1>3
  <2>3. e.version \in Nat
    BY <1>3 DEF Products
  <2> QED
    BY <2>1, <2>2, <2>3, <1>2, <1>3
<1>5. Catalogue(listed)'
  BY <1>2, <1>4 DEF Catalogue
<1>6. ASSUME NEW w \in Workers PROVE Covers(w)'
  <2> SUFFICES ASSUME Sync!Running(w) PROVE SyncFacts(w)'
    BY <1>0 DEF Covers, Sync!Running
  <2>0. SyncFacts(w) /\ Reach(w) \in Nat /\ syncing[w].removed \in Nat /\ \A c \in Codes : Base(w, c) \in Nat
    BY <1>0, RunFacts DEF SyncInv, Covers
  <2>1. Reach(w)' = Reach(w) /\ (Ending(w)' <=> Ending(w)) /\ (Going(w)' <=> Going(w)) /\ syncing'[w] = syncing[w]
    BY <1>0 DEF Reach, Ending, Going
  <2>2. \A c : Base(w, c)' = Base(w, c)
    BY <1>0 DEF Base, Sync!VersionIn
  <2>3. ASSUME NEW r \in 0..Reach(w)
        PROVE  Misses(w, r)' \subseteq Misses(w, r) \union {} /\ Stale(w)' = Stale(w)
    <3>3. ASSUME NEW c \in Codes, Ahead(w, r, c) PROVE Ahead(w, r, c)'
      BY <3>3, <1>2, <1>4, <2>0, <2>2 DEF Ahead
    <3>4. ASSUME NEW c \in Codes, Behind(w, r, c)' PROVE Behind(w, r, c)
      <4>1. (\E i \in DOMAIN listed' : listed'[i].code = c) <=> (\E i \in DOMAIN listed : listed[i].code = c)
        BY <1>4
      <4>2. CASE \E i \in DOMAIN listed : listed[i].code = c
        <5>1. PICK i \in DOMAIN listed' : i > r /\ listed'[i].code = c /\ listed'[i].version < Base(w, c)
          BY <3>4, <4>1, <4>2, <2>2 DEF Behind
        <5>2. i \in DOMAIN listed /\ listed[i].code = c /\ listed[i].version < Base(w, c)
          BY <5>1, <1>2, <1>4, <2>0
        <5> QED
          BY <4>2, <5>1, <5>2 DEF Behind
      <4>3. CASE ~ \E i \in DOMAIN listed : listed[i].code = c
        BY <3>4, <4>1, <4>3 DEF Behind
      <4> QED
        BY <4>2, <4>3
    <3> QED
      BY <1>0, <3>3, <3>4, MissesMove
  <2>4. \A r \in 0..Reach(w) : Going(w) => Cardinality(Misses(w, r)') <= syncing[w].removed
    <3> SUFFICES ASSUME NEW r \in 0..Reach(w), Going(w) PROVE Cardinality(Misses(w, r)') <= syncing[w].removed
      OBVIOUS
    <3>1. Misses(w, r)' \subseteq Misses(w, r) /\ Misses(w, r) \in SUBSET Codes
      BY <2>3 DEF Misses
    <3>2. Cardinality(Misses(w, r)) <= syncing[w].removed
      BY <2>0 DEF SyncFacts
    <3> QED
      BY <3>1, <3>2, <2>0, FewCodes
  <2>5. Stale(w)' = Stale(w)
    BY <2>0, <2>3
  <2> QED
    BY <2>0, <2>1, <2>4, <2>5 DEF SyncFacts
<1> QED
  BY <1>5, <1>6

\* What is left of a list s without its row p.
Shorter(s, p, t) ==
    /\ t \in Seq(Products) /\ DOMAIN t = 1..(Len(s) - 1)
    /\ \A i \in DOMAIN s : i < p => i \in DOMAIN t /\ t[i] = s[i]
    /\ \A i \in DOMAIN s : i > p => i - 1 \in DOMAIN t /\ t[i - 1] = s[i]
    /\ \A i \in DOMAIN t : IF i < p THEN i \in DOMAIN s /\ t[i] = s[i] ELSE i + 1 \in DOMAIN s /\ t[i] = s[i + 1]

LEMMA Without ==
  ASSUME NEW s, s \in Seq(Products), NEW p \in DOMAIN s, NEW t, t = SubSeq(s, 1, p - 1) \o SubSeq(s, p + 1, Len(s))
  PROVE  Shorter(s, p, t)
<1> DEFINE a == SubSeq(s, 1, p - 1)
           b == SubSeq(s, p + 1, Len(s))
<1>1. Len(s) \in Nat /\ DOMAIN s = 1..Len(s) /\ \A i \in 1..Len(s) : s[i] \in Products
  BY CatalogueFacts
<1>2. p \in Int /\ 1 <= p /\ p <= Len(s)
  BY <1>1
<1>3. a \in Seq(Products) /\ Len(a) = p - 1 /\ \A i \in 1..(p - 1) : a[i] = s[i]
  <2>1. \A i \in 1..(p - 1) : s[i] \in Products
    BY <1>1, <1>2
  <2>2. /\ a \in Seq(Products) /\ Len(a) = (IF 1 <= p - 1 THEN (p - 1) - 1 + 1 ELSE 0)
        /\ \A i \in 1..((p - 1) - 1 + 1) : a[i] = s[1 + i - 1]
    BY <2>1, <1>2, SubSeqProperties
  <2> HIDE DEF a
  <2> QED
    BY <2>2, <1>2
<1>4. b \in Seq(Products) /\ Len(b) = Len(s) - p /\ \A i \in 1..(Len(s) - p) : b[i] = s[p + i]
  <2>1. \A i \in (p + 1)..Len(s) : s[i] \in Products
    BY <1>1, <1>2
  <2>2. /\ b \in Seq(Products) /\ Len(b) = (IF p + 1 <= Len(s) THEN Len(s) - (p + 1) + 1 ELSE 0)
        /\ \A i \in 1..(Len(s) - (p + 1) + 1) : b[i] = s[(p + 1) + i - 1]
    BY <2>1, <1>1, <1>2, SubSeqProperties
  <2> HIDE DEF b
  <2>3. Len(b) = Len(s) - p
    BY <2>2, <1>1, <1>2
  <2>4. ASSUME NEW i \in 1..(Len(s) - p) PROVE b[i] = s[p + i]
    <3>1. i \in 1..(Len(s) - (p + 1) + 1) /\ (p + 1) + i - 1 = p + i
      BY <1>1, <1>2
    <3> QED
      BY <3>1, <2>2
  <2> QED
    BY <2>2, <2>3, <2>4
<1>5. t = a \o b
  OBVIOUS
<1> HIDE DEF a, b
<1>6. /\ t \in Seq(Products) /\ Len(t) = Len(a) + Len(b)
      /\ \A i \in 1..(Len(a) + Len(b)) : t[i] = IF i <= Len(a) THEN a[i] ELSE b[i - Len(a)]
  <2>1. /\ a \o b \in Seq(Products) /\ Len(a \o b) = Len(a) + Len(b)
        /\ \A i \in 1..(Len(a) + Len(b)) : (a \o b)[i] = IF i <= Len(a) THEN a[i] ELSE b[i - Len(a)]
    BY <1>3, <1>4, ConcatProperties
  <2> QED
    BY <2>1, <1>5
<1>7. DOMAIN t = 1..(Len(s) - 1)
  <2>1. Len(t) = Len(s) - 1
    BY <1>1, <1>2, <1>3, <1>4, <1>6
  <2> QED
    BY <2>1, <1>6, LenProperties
<1>a. ASSUME NEW i \in 1..(Len(s) - 1) PROVE t[i] = IF i <= p - 1 THEN a[i] ELSE b[i - (p - 1)]
  <2>1. i \in 1..(Len(a) + Len(b))
    BY <1>1, <1>2, <1>3, <1>4
  <2>2. Len(a) = p - 1
    BY <1>3
  <2> QED
    BY <2>1, <2>2, <1>6
<1>8. \A i \in 1..(Len(s) - 1) : t[i] = IF i < p THEN s[i] ELSE s[i + 1]
  <2> SUFFICES ASSUME NEW i \in 1..(Len(s) - 1) PROVE t[i] = IF i < p THEN s[i] ELSE s[i + 1]
    OBVIOUS
  <2>1. CASE i < p
    <3>1. i <= p - 1 /\ i \in 1..(p - 1)
      BY <2>1, <1>1, <1>2
    <3> QED
      BY <3>1, <2>1, <1>3, <1>a
  <2>2. CASE ~(i < p)
    <3>1. i - (p - 1) \in 1..(Len(s) - p) /\ ~(i <= p - 1)
      BY <2>2, <1>1, <1>2
    <3>3. t[i] = b[i - (p - 1)]
      BY <3>1, <1>a
    <3>2. PICK k \in 1..(Len(s) - p) : k = i - (p - 1)
      BY <3>1
    <3>4. b[k] = s[p + k]
      BY <1>4
    <3>5. p + k = i + 1
      BY <3>2, <1>1, <1>2
    <3> QED
      BY <3>2, <3>3, <3>4, <3>5, <2>2
  <2> QED
    BY <2>1, <2>2
<1>9. \A i \in DOMAIN s : i < p => i \in DOMAIN t /\ t[i] = s[i]
  <2> SUFFICES ASSUME NEW i \in DOMAIN s, i < p PROVE i \in DOMAIN t /\ t[i] = s[i]
    OBVIOUS
  <2>1. i \in 1..(Len(s) - 1)
    BY <1>1, <1>2
  <2> QED
    BY <2>1, <1>7, <1>8
<1>10. \A i \in DOMAIN s : i > p => i - 1 \in DOMAIN t /\ t[i - 1] = s[i]
  <2> SUFFICES ASSUME NEW i \in DOMAIN s, i > p PROVE i - 1 \in DOMAIN t /\ t[i - 1] = s[i]
    OBVIOUS
  <2>1. i - 1 \in 1..(Len(s) - 1) /\ ~(i - 1 < p) /\ (i - 1) + 1 = i
    BY <1>1, <1>2
  <2> QED
    BY <2>1, <1>7, <1>8
<1>11. \A i \in DOMAIN t : IF i < p THEN i \in DOMAIN s /\ t[i] = s[i] ELSE i + 1 \in DOMAIN s /\ t[i] = s[i + 1]
  <2> SUFFICES ASSUME NEW i \in 1..(Len(s) - 1)
               PROVE  IF i < p THEN i \in DOMAIN s /\ t[i] = s[i] ELSE i + 1 \in DOMAIN s /\ t[i] = s[i + 1]
    BY <1>7
  <2>1. i \in DOMAIN s /\ i + 1 \in DOMAIN s
    BY <1>1
  <2> QED
    BY <2>1, <1>8
<1> QED
  BY <1>6, <1>7, <1>9, <1>10, <1>11 DEF Shorter

\* A removal moves one product across each offset at most, and loses at
\* most that one or the one it removes.
LEMMA RemoveCovers ==
  ASSUME SyncInv, Sync!RemoveProduct
  PROVE  SyncTypes' /\ \A w \in Workers : Covers(w)'
<1>0. SyncTypes /\ UNCHANGED <<secret, token, cache, waiting>>
  BY DEF SyncInv, Sync!RemoveProduct
<1>1. PICK p \in DOMAIN listed : listed' = SubSeq(listed, 1, p - 1) \o SubSeq(listed, p + 1, Len(listed))
  BY DEF Sync!RemoveProduct
<1>2. /\ listed \in Seq(Products) /\ Len(listed) \in Nat /\ DOMAIN listed = 1..Len(listed)
      /\ \A i, j \in DOMAIN listed : listed[i].code = listed[j].code /\ listed[i].code # NoCode => i = j
      /\ \A i \in DOMAIN listed : listed[i].version \in Nat
  BY <1>0, ListedFacts
<1>3. /\ listed' \in Seq(Products) /\ DOMAIN listed' = 1..(Len(listed) - 1)
      /\ \A i \in DOMAIN listed : i < p => i \in DOMAIN listed' /\ listed'[i] = listed[i]
      /\ \A i \in DOMAIN listed : i > p => i - 1 \in DOMAIN listed' /\ listed'[i - 1] = listed[i]
      /\ \A i \in DOMAIN listed' : IF i < p THEN i \in DOMAIN listed /\ listed'[i] = listed[i]
                                   ELSE i + 1 \in DOMAIN listed /\ listed'[i] = listed[i + 1]
  <2>1. \A t : t = SubSeq(listed, 1, p - 1) \o SubSeq(listed, p + 1, Len(listed)) => Shorter(listed, p, t)
    BY <1>2, Without, Zenon
  <2>2. Shorter(listed, p, listed')
    BY <2>1, <1>1
  <2> QED
    BY <2>2 DEF Shorter
<1>4. Catalogue(listed)'
  <2> SUFFICES ASSUME NEW i \in DOMAIN listed', NEW j \in DOMAIN listed',
                      listed'[i].code = listed'[j].code, listed'[i].code # NoCode
               PROVE  i = j
    BY <1>3 DEF Catalogue
  <2>1. PICK k \in DOMAIN listed : k = (IF i < p THEN i ELSE i + 1) /\ listed'[i] = listed[k]
    BY <1>3
  <2>2. PICK l \in DOMAIN listed : l = (IF j < p THEN j ELSE j + 1) /\ listed'[j] = listed[l]
    BY <1>3
  <2>3. k = l
    BY <2>1, <2>2, <1>2
  <2> QED
    BY <2>1, <2>2, <2>3, <1>2, <1>3
<1>5. ASSUME NEW w \in Workers
      PROVE  /\ ~Sync!Running(w) => syncing'[w] = syncing[w]
             /\ Sync!Running(w) => /\ syncing'[w] \in SyncRuns /\ syncing'[w].removed = syncing[w].removed + 1
                                   /\ syncing'[w].stage = syncing[w].stage /\ syncing'[w].page = syncing[w].page
                                   /\ syncing'[w].wrote = syncing[w].wrote /\ syncing'[w].base = syncing[w].base
                                   /\ syncing'[w].offset = syncing[w].offset /\ syncing'[w].total = syncing[w].total
  <2>1. syncing'[w] = IF Sync!Running(w) THEN [syncing[w] EXCEPT !.removed = @ + 1] ELSE syncing[w]
    BY DEF Sync!RemoveProduct
  <2>2. CASE Sync!Running(w)
    <3>1. syncing[w] \in SyncRuns
      BY <1>0, <2>2, RunFacts
    <3> DEFINE n == syncing[w].removed + 1
    <3>2. n \in Nat
      BY <3>1 DEF SyncRuns
    <3>3. syncing'[w] = [syncing[w] EXCEPT !.removed = n]
      BY <2>1, <2>2
    <3> HIDE DEF n
    <3>4. /\ syncing'[w] \in SyncRuns /\ syncing'[w].removed = n
          /\ syncing'[w].stage = syncing[w].stage /\ syncing'[w].page = syncing[w].page
          /\ syncing'[w].wrote = syncing[w].wrote /\ syncing'[w].base = syncing[w].base
          /\ syncing'[w].offset = syncing[w].offset /\ syncing'[w].total = syncing[w].total
      BY <3>1, <3>2, <3>3 DEF SyncRuns
    <3>5. syncing'[w].removed = syncing[w].removed + 1
      BY <3>4 DEF n
    <3> QED
      BY <2>1, <2>2, <3>4, <3>5
  <2> QED
    BY <2>1, <2>2
<1>6. SyncTypes'
  <2>1. \A w \in Workers : syncing'[w] \in {Sync!NoRun} \union SyncRuns
    BY <1>0, <1>5 DEF SyncTypes
  <2>2. syncing' \in [Workers -> {Sync!NoRun} \union SyncRuns]
    BY <2>1 DEF Sync!RemoveProduct
  <2>3. ASSUME NEW w \in Workers, Sync!Running(w)' PROVE syncing'[w] \in SyncRuns /\ Catalogue(syncing'[w].base) /\ Catalogue(syncing'[w].page)
    <3>1. Sync!Running(w)
      BY <1>5, <2>3 DEF Sync!Running
    <3> QED
      BY <3>1, <1>0, <1>5 DEF SyncTypes
  <2> QED
    BY <1>0, <1>4, <2>2, <2>3 DEF SyncTypes, Catalogue
<1>7. ASSUME NEW w \in Workers PROVE Covers(w)'
  <2> SUFFICES ASSUME Sync!Running(w) PROVE SyncFacts(w)'
    BY <1>5 DEF Covers, Sync!Running
  <2>0. SyncFacts(w) /\ Reach(w) \in Nat /\ syncing[w].removed \in Nat /\ \A c \in Codes : Base(w, c) \in Nat
    BY <1>0, RunFacts DEF SyncInv, Covers
  <2>a. /\ syncing'[w].stage = syncing[w].stage /\ syncing'[w].page = syncing[w].page
        /\ syncing'[w].offset = syncing[w].offset /\ syncing'[w].total = syncing[w].total
        /\ syncing'[w].base = syncing[w].base
    BY <1>5
  <2>1. Reach(w)' = Reach(w) /\ (Ending(w)' <=> Ending(w)) /\ (Going(w)' <=> Going(w))
    BY <2>a DEF Reach, Ending, Going
  <2>2. \A c : Base(w, c)' = Base(w, c)
    BY <2>a DEF Base, Sync!VersionIn
  <2>3. ASSUME NEW r \in 0..Reach(w)
        PROVE  \E x : Misses(w, r)' \subseteq Misses(w, r) \union {x} /\ Stale(w)' = Stale(w)
    <3>1. r \in Nat /\ p \in Nat
      BY <2>0, <1>2
    <3>2. CASE r < p
      <4> DEFINE x == listed[p].code
      <4>1. ASSUME NEW c \in Codes \ {x}, Ahead(w, r, c) PROVE Ahead(w, r, c)'
        <5>1. PICK i \in DOMAIN listed : i > r /\ listed[i].code = c /\ listed[i].version >= Base(w, c)
          BY <4>1 DEF Ahead
        <5>2. i # p /\ i \in Nat
          BY <5>1, <4>1, <1>2
        <5>3. PICK j \in DOMAIN listed' : listed'[j] = listed[i] /\ j > r
          BY <5>1, <5>2, <3>1, <3>2, <1>3
        <5> QED
          BY <5>1, <5>3, <2>2 DEF Ahead
      <4>2. ASSUME NEW c \in Codes \ {x}, Behind(w, r, c)' PROVE Behind(w, r, c)
        <5>1. (\E i \in DOMAIN listed' : listed'[i].code = c) <=> (\E i \in DOMAIN listed : listed[i].code = c)
          <6>1. \A i \in DOMAIN listed : listed[i].code = c => \E j \in DOMAIN listed' : listed'[j] = listed[i]
            BY <1>2, <1>3, <3>1
          <6>2. \A j \in DOMAIN listed' : \E i \in DOMAIN listed : listed'[j] = listed[i]
            BY <1>3
          <6> QED
            BY <6>1, <6>2
        <5>2. CASE \E i \in DOMAIN listed : listed[i].code = c
          <6>1. PICK j \in DOMAIN listed' : j > r /\ listed'[j].code = c /\ listed'[j].version < Base(w, c)
            BY <4>2, <5>1, <5>2, <2>2 DEF Behind
          <6>2. PICK i \in DOMAIN listed : listed[i] = listed'[j] /\ i > r
            BY <6>1, <3>1, <1>2, <1>3
          <6> QED
            BY <5>2, <6>1, <6>2 DEF Behind
        <5>3. CASE ~ \E i \in DOMAIN listed : listed[i].code = c
          BY <4>2, <5>1, <5>3 DEF Behind
        <5> QED
          BY <5>2, <5>3
      <4> HIDE DEF x
      <4>3. Misses(w, r)' \subseteq Misses(w, r) \union {x} /\ Stale(w)' = Stale(w)
        BY <1>0, <1>5, <4>1, <4>2, MissesMove
      <4> QED
        BY <4>3
    <3>3. CASE ~(r < p)
      <4> DEFINE x == listed[r + 1].code
      <4>1. ASSUME NEW c \in Codes \ {x}, Ahead(w, r, c) PROVE Ahead(w, r, c)'
        <5>1. PICK i \in DOMAIN listed : i > r /\ listed[i].code = c /\ listed[i].version >= Base(w, c)
          BY <4>1 DEF Ahead
        <5>a. i # r + 1 /\ i \in Nat
          BY <5>1, <4>1, <1>2
        <5>2. i # r + 1 /\ i \in Nat /\ i > r + 1 /\ i > p
          BY <5>1, <5>a, <3>1, <3>3
        <5>3. i - 1 \in DOMAIN listed' /\ listed'[i - 1] = listed[i] /\ i - 1 > r
          BY <5>1, <5>2, <3>1, <1>3
        <5> QED
          BY <5>1, <5>3, <2>2 DEF Ahead
      <4>2. ASSUME NEW c \in Codes \ {x}, Behind(w, r, c)' PROVE Behind(w, r, c)
        <5>1. r # 0
          BY <1>2, <3>1, <3>3
        <5>2. PICK j \in DOMAIN listed' : j > r /\ listed'[j].code = c /\ listed'[j].version < Base(w, c)
          BY <4>2, <5>1, <2>2 DEF Behind
        <5>3. j + 1 \in DOMAIN listed /\ listed[j + 1] = listed'[j] /\ j + 1 > r
          BY <5>2, <3>1, <3>3, <1>2, <1>3
        <5> QED
          BY <5>2, <5>3 DEF Behind
      <4> HIDE DEF x
      <4>3. Misses(w, r)' \subseteq Misses(w, r) \union {x} /\ Stale(w)' = Stale(w)
        BY <1>0, <1>5, <4>1, <4>2, MissesMove
      <4> QED
        BY <4>3
    <3> QED
      BY <3>2, <3>3
  <2>r. syncing'[w].removed = syncing[w].removed + 1
    BY <1>5
  <2>4. \A r \in 0..Reach(w) : Going(w) => Cardinality(Misses(w, r)') <= syncing[w].removed + 1
    <3> SUFFICES ASSUME NEW r \in 0..Reach(w), Going(w) PROVE Cardinality(Misses(w, r)') <= syncing[w].removed + 1
      OBVIOUS
    <3>1. PICK x : Misses(w, r)' \subseteq Misses(w, r) \union {x}
      BY <2>3
    <3>2. Misses(w, r) \in SUBSET Codes
      BY DEF Misses
    <3>3. Cardinality(Misses(w, r)) <= syncing[w].removed
      BY <2>0 DEF SyncFacts
    <3>4. /\ Cardinality(Misses(w, r)') \in Nat /\ Cardinality(Misses(w, r)) \in Nat
          /\ Cardinality(Misses(w, r)') <= Cardinality(Misses(w, r)) + 1
      BY <3>1, <3>2, OneCodeMore
    <3> QED
      BY <3>3, <3>4, <2>0
  <2>5. Stale(w)' = Stale(w) /\ Stale(w) \in SUBSET Codes
    BY <2>0, <2>3 DEF Stale
  <2>6. Cardinality(Stale(w)) \in Nat
    BY <2>5, FewCodes
  <2>7. Ending(w) => Cardinality(Stale(w)) <= syncing[w].removed + 1
    BY <2>0, <2>6 DEF SyncFacts
  <2>8. syncing'[w].stage # "writing" => syncing'[w].page = <<>>
    BY <2>0, <1>5 DEF SyncFacts
  <2> QED
    BY <2>r, <2>1, <2>4, <2>5, <2>7, <2>8 DEF SyncFacts
<1> QED
  BY <1>6, <1>7

\* A run begins with the list as it is, and has missed none of it.
LEMMA StartCovers ==
  ASSUME SyncTypes, NEW w \in Workers, Sync!Start(w)
  PROVE  syncing'[w] \in SyncRuns /\ Catalogue(syncing'[w].base) /\ Catalogue(syncing'[w].page) /\ SyncFacts(w)'
<1>0. Catalogue(listed) /\ listed \in Seq(Products) /\ listed' = listed
  BY DEF SyncTypes, Catalogue, Sync!Start
<1>1. syncing'[w] = Sync!NewRun
  BY DEF Sync!Start, SyncTypes
<1>2. /\ syncing'[w].stage = "starting" /\ syncing'[w].offset = 0 /\ syncing'[w].page = <<>> /\ syncing'[w].base = listed
      /\ syncing'[w].removed = 0 /\ \A c \in Codes : syncing'[w].wrote[c] = 0
  BY <1>1 DEF Sync!NewRun
<1>3. Sync!NewRun \in SyncRuns
  <2>1. <<>> \in Seq(Products) /\ [c \in Codes |-> 0] \in [Codes -> Nat]
    OBVIOUS
  <2> QED
    BY <2>1, <1>0 DEF Sync!NewRun, SyncRuns, SyncStages
<1>4. Reach(w)' = 0 /\ ~Ending(w)'
  BY <1>2 DEF Reach, Ending
<1>5. \A c \in Codes : Base(w, c)' = Sync!VersionIn(listed, c)
  BY <1>2 DEF Base, Sync!VersionIn
<1>6. Misses(w, 0)' = {}
  <2> SUFFICES ASSUME NEW c \in Codes, Base(w, c)' # 0 PROVE ~Fresh(w, c)' /\ Ahead(w, 0, c)'
    BY DEF Misses
  <2>1. /\ Sync!VersionIn(listed, c) \in Nat
        /\ \A i \in DOMAIN listed : listed[i].code = c => Sync!VersionIn(listed, c) = listed[i].version
        /\ (\A i \in DOMAIN listed : listed[i].code # c) => Sync!VersionIn(listed, c) = 0
    BY <1>0, VersionOf
  <2>2. PICK i \in DOMAIN listed : listed[i].code = c /\ Sync!VersionIn(listed, c) = listed[i].version
    BY <2>1, <1>5
  <2>3. i > 0
    BY <1>0, CatalogueFacts
  <2>4. Ahead(w, 0, c)'
    BY <2>1, <2>2, <2>3, <1>0, <1>5 DEF Ahead
  <2>5. ~OnPage(w, c)'
    BY <1>2 DEF OnPage
  <2>6. ~Fresh(w, c)'
    BY <2>1, <2>5, <1>2, <1>5 DEF Fresh
  <2> QED
    BY <2>4, <2>6
<1>7. Cardinality(Misses(w, 0)') = 0
  BY <1>6, FS_EmptySet
<1>8. \A r \in 0..0 : Cardinality(Misses(w, r)') <= 0
  BY <1>7
<1>9. SyncFacts(w)'
  BY <1>2, <1>4, <1>8 DEF SyncFacts
<1>10. Catalogue(<<>>)
  BY EmptySeq DEF Catalogue
<1> QED
  BY <1>0, <1>1, <1>2, <1>3, <1>9, <1>10

\* A page has what the list has from the offset on.
LEMMA ReadCovers ==
  ASSUME SyncTypes, NEW w \in Workers, SyncFacts(w), Sync!ReadPage(w)
  PROVE  syncing'[w] \in SyncRuns /\ Catalogue(syncing'[w].base) /\ Catalogue(syncing'[w].page) /\ SyncFacts(w)'
<1>0. Sync!Running(w) /\ syncing[w].stage = "reading" /\ listed' = listed
  BY DEF Sync!ReadPage, Sync!At, Sync!Running
<1>1. /\ syncing[w] \in SyncRuns /\ syncing[w].offset \in Nat /\ syncing[w].removed \in Nat
      /\ syncing[w].wrote \in [Codes -> Nat] /\ \A c \in Codes : Base(w, c) \in Nat
      /\ syncing[w].page = <<>> /\ Going(w) /\ Catalogue(syncing[w].base)
  BY <1>0, RunFacts DEF SyncFacts, Ending, Going, SyncTypes
<1>2. /\ listed \in Seq(Products) /\ Len(listed) \in Nat /\ DOMAIN listed = 1..Len(listed)
      /\ \A i, j \in DOMAIN listed : listed[i].code = listed[j].code /\ listed[i].code # NoCode => i = j
      /\ \A i \in DOMAIN listed : listed[i] \in Products /\ listed[i].version \in Nat
  BY ListedFacts
<1>3. PICK o \in Nat : o = syncing[w].offset
  BY <1>1
<1>4. PICK n \in 0..PageSize :
        /\ n <= Len(listed) - o \/ n = 0
        /\ n = 0 => Len(listed) - o <= 0
        /\ syncing' = [syncing EXCEPT ![w].stage = IF n = 0 THEN "read" ELSE "writing",
                                      ![w].page = SubSeq(listed, o + 1, o + n), ![w].total = Len(listed)]
  BY <1>3 DEF Sync!ReadPage
<1>5. n \in Nat /\ o + n \in Nat
  BY ListsAssumption
<1>6. PICK page : page = SubSeq(listed, o + 1, o + n)
  OBVIOUS
<1>7. /\ page \in Seq(Products) /\ Len(page) = n /\ DOMAIN page = 1..n
      /\ \A i \in 1..n : o + i \in DOMAIN listed /\ page[i] = listed[o + i]
  <2>1. \A i \in (o + 1)..(o + n) : i \in DOMAIN listed
    BY <1>2, <1>4, <1>5
  <2>2. /\ page \in Seq(Products) /\ Len(page) = (IF o + 1 <= o + n THEN (o + n) - (o + 1) + 1 ELSE 0)
        /\ \A i \in 1..((o + n) - (o + 1) + 1) : page[i] = listed[(o + 1) + i - 1]
    BY <2>1, <1>2, <1>5, <1>6, SubSeqProperties
  <2>3. Len(page) = n
    BY <2>2, <1>5
  <2>4. DOMAIN page = 1..n
    BY <2>2, <2>3, LenProperties
  <2>5. ASSUME NEW i \in 1..n PROVE o + i \in DOMAIN listed /\ page[i] = listed[o + i]
    <3>1. i \in 1..((o + n) - (o + 1) + 1) /\ (o + 1) + i - 1 = o + i /\ o + i \in (o + 1)..(o + n)
      BY <1>5
    <3> QED
      BY <3>1, <2>1, <2>2
  <2> QED
    BY <2>2, <2>3, <2>4, <2>5
<1>8. PICK stages \in {"read", "writing"} : /\ stages = IF n = 0 THEN "read" ELSE "writing"
                                           /\ syncing'[w] = [syncing[w] EXCEPT !.stage = stages, !.page = page, !.total = Len(listed)]
  BY <1>4, <1>6 DEF SyncTypes
<1>9. /\ syncing'[w] \in SyncRuns /\ syncing'[w].stage = stages /\ syncing'[w].page = page /\ syncing'[w].total = Len(listed)
      /\ syncing'[w].offset = o /\ syncing'[w].wrote = syncing[w].wrote /\ syncing'[w].base = syncing[w].base
      /\ syncing'[w].removed = syncing[w].removed
  BY <1>1, <1>2, <1>3, <1>7, <1>8 DEF SyncRuns, SyncStages
<1>10. \A c \in Codes : Base(w, c)' = Base(w, c)
  BY <1>9 DEF Base, Sync!VersionIn
<1>11. Reach(w) = o /\ Reach(w)' = o + n
  BY <1>1, <1>3, <1>5, <1>7, <1>9 DEF Reach
<1>12. \A c : ~OnPage(w, c)
  BY <1>1 DEF OnPage
<1>13. Misses(w, o) \in SUBSET Codes /\ Cardinality(Misses(w, o)) <= syncing[w].removed
  BY <1>1, <1>3, <1>11 DEF SyncFacts, Misses
\* What the page gives an older version of was behind already.
<1>14. ASSUME NEW c \in Codes, ~Fresh(w, c)', Base(w, c) # 0, c \notin Misses(w, o)
       PROVE  ~OnPage(w, c)' /\ ~Fresh(w, c) /\ Ahead(w, o, c)
  <2>1. CASE OnPage(w, c)'
    <3>1. PICK i \in 1..n : page[i].code = c
      BY <2>1, <1>7, <1>9 DEF OnPage
    <3>2. o + i \in DOMAIN listed /\ o + i > o /\ listed[o + i].code = c
      BY <3>1, <1>7
    <3>3. ~(listed[o + i].version >= Base(w, c))
      BY <3>1, <3>2, <2>1, <1>7, <1>9, <1>10, <1>14 DEF Fresh
    <3>4. \A j \in DOMAIN listed : listed[j].code = c => j = o + i
      BY <3>2, <1>2, ListsAssumption
    <3>5. ~Ahead(w, o, c)
      BY <3>3, <3>4 DEF Ahead
    <3>6. Behind(w, o, c)
      BY <3>2, <3>3, <1>1, <1>2 DEF Behind
    <3> QED
      BY <3>5, <3>6, <1>14 DEF Misses
  <2>2. CASE ~OnPage(w, c)'
    <3>1. ~Fresh(w, c)
      BY <2>2, <1>9, <1>10, <1>12, <1>14 DEF Fresh
    <3> QED
      BY <2>2, <3>1, <1>14 DEF Misses
  <2> QED
    BY <2>1, <2>2
<1>15. Ending(w)' => Cardinality(Stale(w)') <= syncing[w].removed
  <2> SUFFICES ASSUME Ending(w)' PROVE Cardinality(Stale(w)') <= syncing[w].removed
    OBVIOUS
  <2>1. o + n >= Len(listed)
    BY <1>2, <1>4, <1>5, <1>8, <1>9, <1>11 DEF Ending
  <2>2. ASSUME NEW c \in Stale(w)' PROVE c \in Misses(w, o)
    <3> SUFFICES ASSUME c \notin Misses(w, o) PROVE FALSE
      OBVIOUS
    <3>1. c \in Codes /\ ~Fresh(w, c)' /\ Base(w, c) # 0
      BY <2>2, <1>10 DEF Stale
    <3>2. ~OnPage(w, c)' /\ Ahead(w, o, c)
      BY <3>1, <1>14
    <3>3. PICK i \in DOMAIN listed : i > o /\ listed[i].code = c
      BY <3>2 DEF Ahead
    <3>4. PICK k \in 1..n : k = i - o
      BY <3>3, <2>1, <1>2, <1>5
    <3>5. page[k].code = c
      BY <3>3, <3>4, <1>2, <1>7
    <3> QED
      BY <3>2, <3>5, <1>7, <1>9 DEF OnPage
  <2> QED
    BY <2>2, <1>1, <1>13, FewCodes
<1>16. ASSUME NEW r \in 0..(o + n) PROVE Cardinality(Misses(w, r)') <= syncing[w].removed
  <2>1. CASE r <= o
    <3>1. ASSUME NEW c \in Misses(w, r)' PROVE c \in Misses(w, r)
      <4>0. c \in Codes /\ Base(w, c) # 0 /\ Base(w, c)' = Base(w, c) /\ (Ahead(w, r, c)' <=> Ahead(w, r, c)) /\ (Behind(w, r, c)' <=> Behind(w, r, c))
        BY <3>1, <1>0, <1>10 DEF Misses, Ahead, Behind
      <4>1. CASE OnPage(w, c)'
        <5>1. PICK i \in 1..n : page[i].code = c
          BY <4>1, <1>7, <1>9 DEF OnPage
        <5>2. o + i \in DOMAIN listed /\ o + i > r /\ listed[o + i].code = c
          BY <5>1, <1>5, <1>7, <2>1
        <5>3. \A j \in DOMAIN listed : listed[j].code = c => j = o + i
          BY <4>0, <5>2, <1>2, ListsAssumption
        <5>4. \A j \in 1..n : page[j].code = c => page[j] = listed[o + i]
          BY <5>3, <1>7
        <5>5. Fresh(w, c)' <=> listed[o + i].version >= Base(w, c)
          BY <4>0, <4>1, <5>1, <5>4, <1>7, <1>9 DEF Fresh
        <5>6. CASE listed[o + i].version >= Base(w, c)
          <6>1. Behind(w, r, c)
            BY <3>1, <4>0, <5>5, <5>6 DEF Misses
          <6>2. PICK j \in DOMAIN listed : listed[j].code = c /\ listed[j].version < Base(w, c)
            BY <6>1, <5>2 DEF Behind
          <6> QED
            BY <6>2, <5>3, <5>6, <4>0, <1>1, <1>2
        <5>7. CASE ~(listed[o + i].version >= Base(w, c))
          <6>1. ~Ahead(w, r, c)
            BY <5>3, <5>7 DEF Ahead
          <6>2. Behind(w, r, c)
            BY <5>2, <5>7, <4>0, <1>1, <1>2 DEF Behind
          <6> QED
            BY <6>1, <6>2, <4>0 DEF Misses
        <5> QED
          BY <5>6, <5>7
      <4>2. CASE ~OnPage(w, c)'
        <5>1. Fresh(w, c)' <=> Fresh(w, c)
          BY <4>0, <4>2, <1>9, <1>12 DEF Fresh
        <5> QED
          BY <5>1, <4>0, <3>1 DEF Misses
      <4> QED
        BY <4>1, <4>2
    <3>2. r \in 0..Reach(w) /\ Misses(w, r) \in SUBSET Codes
      BY <2>1, <1>5, <1>11 DEF Misses
    <3>3. Cardinality(Misses(w, r)) <= syncing[w].removed
      BY <3>2, <1>1 DEF SyncFacts
    <3> QED
      BY <3>1, <3>2, <3>3, <1>1, FewCodes
  <2>2. CASE ~(r <= o)
    <3>1. ASSUME NEW c \in Misses(w, r)' PROVE c \in Misses(w, o)
      <4> SUFFICES ASSUME c \notin Misses(w, o) PROVE FALSE
        OBVIOUS
      <4>0. c \in Codes /\ Base(w, c) # 0 /\ Base(w, c)' = Base(w, c) /\ (Ahead(w, r, c)' <=> Ahead(w, r, c)) /\ (Behind(w, r, c)' <=> Behind(w, r, c))
        BY <3>1, <1>0, <1>10 DEF Misses, Ahead, Behind
      <4>1. CASE ~Fresh(w, c)'
        <5>1. ~OnPage(w, c)' /\ Ahead(w, o, c) /\ ~Ahead(w, r, c)
          BY <4>0, <4>1, <3>1, <1>14 DEF Misses
        <5>2. PICK i \in DOMAIN listed : i > o /\ listed[i].code = c /\ ~(i > r)
          BY <5>1 DEF Ahead
        <5>3. PICK k \in 1..n : k = i - o
          BY <5>2, <1>2, <1>5
        <5>4. page[k].code = c
          BY <5>2, <5>3, <1>2, <1>7
        <5> QED
          BY <5>1, <5>4, <1>7, <1>9 DEF OnPage
      <4>2. CASE Fresh(w, c)'
        <5>1. Behind(w, r, c) /\ r # 0
          BY <4>0, <4>2, <3>1, <2>2, <1>5 DEF Misses
        <5>2. PICK i \in DOMAIN listed : i > r /\ listed[i].code = c /\ listed[i].version < Base(w, c)
          BY <5>1 DEF Behind
        <5>3. i > o
          BY <5>2, <2>2, <1>2, <1>5
        <5>4. Behind(w, o, c)
          BY <5>2, <5>3 DEF Behind
        <5>5. ~Ahead(w, o, c)
          <6>1. \A j \in DOMAIN listed : listed[j].code = c => j = i
            BY <4>0, <5>2, <1>2, ListsAssumption
          <6>2. ~(listed[i].version >= Base(w, c))
            BY <5>2, <4>0, <1>1, <1>2
          <6> QED
            BY <6>1, <6>2 DEF Ahead
        <5> QED
          BY <5>4, <5>5, <4>0 DEF Misses
      <4> QED
        BY <4>1, <4>2
    <3> QED
      BY <3>1, <1>1, <1>13, FewCodes
  <2> QED
    BY <2>1, <2>2
<1>17. syncing'[w].stage # "writing" => syncing'[w].page = <<>>
  BY <1>7, <1>8, <1>9, EmptySeq
<1>18. SyncFacts(w)'
  BY <1>9, <1>11, <1>15, <1>16, <1>17 DEF SyncFacts
<1>19. Catalogue(page)
  <2> SUFFICES ASSUME NEW i \in 1..n, NEW j \in 1..n, page[i].code = page[j].code, page[i].code # NoCode
               PROVE  i = j
    BY <1>7 DEF Catalogue
  <2>1. PICK a \in DOMAIN listed, b \in DOMAIN listed : a = o + i /\ b = o + j /\ page[i] = listed[a] /\ page[j] = listed[b]
    BY <1>7
  <2>2. a = b
    BY <2>1, <1>2
  <2> QED
    BY <2>1, <2>2, <1>5
<1> QED
  BY <1>1, <1>9, <1>18, <1>19

\* The upserts of a page leave what the sync has of each product the same.
LEMMA WriteCovers ==
  ASSUME SyncTypes, NEW w \in Workers, SyncFacts(w), Sync!WritePage(w)
  PROVE  syncing'[w] \in SyncRuns /\ Catalogue(syncing'[w].base) /\ Catalogue(syncing'[w].page) /\ SyncFacts(w)'
<1>0. Sync!Running(w) /\ syncing[w].stage = "writing" /\ listed' = listed
  BY DEF Sync!WritePage, Sync!At, Sync!Running
<1>1. /\ syncing[w] \in SyncRuns /\ syncing[w].offset \in Nat /\ syncing[w].removed \in Nat /\ syncing[w].total \in Nat
      /\ syncing[w].wrote \in [Codes -> Nat] /\ \A c \in Codes : Base(w, c) \in Nat
      /\ Len(syncing[w].page) \in Nat /\ Reach(w) \in Nat /\ Catalogue(syncing[w].base) /\ Catalogue(syncing[w].page)
      /\ DOMAIN syncing[w].page = 1..Len(syncing[w].page)
      /\ \A i \in DOMAIN syncing[w].page : syncing[w].page[i].version \in Nat
  BY <1>0, RunFacts DEF SyncTypes
<1>2. PICK wrote : wrote = [c \in Codes |-> IF \E row \in Sync!Coded(w) : row.code = c
                                            THEN (CHOOSE row \in Sync!Coded(w) : row.code = c).version
                                            ELSE syncing[w].wrote[c]]
  OBVIOUS
<1>3. PICK next \in Nat : next = Sync!NextOffset(w) /\ next = Reach(w)
  BY <1>1 DEF Sync!NextOffset, Reach
<1>4. PICK stages \in {"read", "reading"} :
        /\ stages = IF next >= syncing[w].total \/ next > SafetyLimit THEN "read" ELSE "reading"
        /\ syncing'[w] = [syncing[w] EXCEPT !.wrote = wrote, !.offset = next, !.page = <<>>, !.stage = stages]
  BY <1>2, <1>3 DEF Sync!WritePage, SyncTypes
<1>5. \A c \in Codes : IF OnPage(w, c)
                       THEN \E i \in DOMAIN syncing[w].page : syncing[w].page[i].code = c /\ wrote[c] = syncing[w].page[i].version
                       ELSE wrote[c] = syncing[w].wrote[c]
  <2> SUFFICES ASSUME NEW c \in Codes
               PROVE  IF OnPage(w, c)
                      THEN \E i \in DOMAIN syncing[w].page : syncing[w].page[i].code = c /\ wrote[c] = syncing[w].page[i].version
                      ELSE wrote[c] = syncing[w].wrote[c]
    OBVIOUS
  <2>1. OnPage(w, c) <=> \E row \in Sync!Coded(w) : row.code = c
    BY ListsAssumption DEF OnPage, Sync!Coded, Sync!InPage
  <2>2. CASE OnPage(w, c)
    <3>1. PICK row \in Sync!Coded(w) : row.code = c /\ wrote[c] = row.version
      BY <2>1, <2>2, <1>2
    <3> QED
      BY <2>2, <3>1 DEF Sync!Coded, Sync!InPage
  <2>3. CASE ~OnPage(w, c)
    BY <2>1, <2>3, <1>2
  <2> QED
    BY <2>2, <2>3
<1>6. wrote \in [Codes -> Nat]
  <2>1. \A c \in Codes : wrote[c] \in Nat
    BY <1>1, <1>5
  <2> QED
    BY <2>1, <1>2
<1>7. <<>> \in Seq(Products) /\ Len(<<>>) = 0 /\ DOMAIN <<>> = {}
  BY EmptySeq
<1>8. /\ syncing'[w] \in SyncRuns /\ syncing'[w].stage = stages /\ syncing'[w].page = <<>> /\ syncing'[w].total = syncing[w].total
      /\ syncing'[w].offset = next /\ syncing'[w].wrote = wrote /\ syncing'[w].base = syncing[w].base
      /\ syncing'[w].removed = syncing[w].removed
  BY <1>1, <1>4, <1>6, <1>7 DEF SyncRuns, SyncStages
<1>9. \A c \in Codes : Base(w, c)' = Base(w, c)
  BY <1>8 DEF Base, Sync!VersionIn
<1>10. \A c \in Codes : Fresh(w, c)' <=> Fresh(w, c)
  <2> SUFFICES ASSUME NEW c \in Codes PROVE Fresh(w, c)' <=> Fresh(w, c)
    OBVIOUS
  <2>1. ~OnPage(w, c)'
    BY <1>7, <1>8 DEF OnPage
  <2>2. Fresh(w, c)' <=> wrote[c] >= Base(w, c)
    BY <2>1, <1>8, <1>9 DEF Fresh
  <2>3. CASE OnPage(w, c)
    <3>1. PICK i \in DOMAIN syncing[w].page : syncing[w].page[i].code = c /\ wrote[c] = syncing[w].page[i].version
      BY <2>3, <1>5
    <3>2. \A j \in DOMAIN syncing[w].page : syncing[w].page[j].code = c => j = i
      BY <3>1, <1>1, ListsAssumption DEF Catalogue
    <3> QED
      BY <2>2, <2>3, <3>1, <3>2 DEF Fresh
  <2>4. CASE ~OnPage(w, c)
    BY <2>2, <2>4, <1>5 DEF Fresh
  <2> QED
    BY <2>3, <2>4
<1>11. Stale(w)' = Stale(w)
  BY <1>9, <1>10 DEF Stale
<1>12. \A r : Misses(w, r)' = Misses(w, r)
  BY <1>0, <1>9, <1>10 DEF Misses, Ahead, Behind
<1>13. Reach(w)' = Reach(w)
  BY <1>3, <1>7, <1>8 DEF Reach
<1>14. Ending(w)' => Ending(w)
  BY <1>0, <1>1, <1>3, <1>4, <1>8, ListsAssumption DEF Ending
<1>15. Going(w)' => Going(w)
  BY <1>0, <1>1, <1>3, <1>4, <1>8, ListsAssumption DEF Ending, Going
<1>16. SyncFacts(w)'
  BY <1>8, <1>11, <1>12, <1>13, <1>14, <1>15 DEF SyncFacts
<1>17. Catalogue(<<>>)
  BY EmptySeq DEF Catalogue
<1> QED
  BY <1>1, <1>8, <1>16, <1>17

\* The token leaves the reading as it is.
LEMMA ResolveCovers ==
  ASSUME SyncTypes, NEW w \in Workers, SyncFacts(w), Sync!ResolveToken(w)
  PROVE  syncing'[w] \in SyncRuns /\ Catalogue(syncing'[w].base) /\ Catalogue(syncing'[w].page) /\ SyncFacts(w)'
<1>0. Sync!Running(w) /\ syncing[w].stage = "starting" /\ listed' = listed
  BY DEF Sync!ResolveToken, Sync!At, Sync!Running
<1>1. /\ syncing[w] \in SyncRuns /\ Catalogue(syncing[w].base) /\ Catalogue(syncing[w].page) /\ secret \in Nat /\ token \in Nat
  BY <1>0 DEF SyncTypes
<1>2. PICK t \in Nat, e \in BOOLEAN : syncing'[w] = [syncing[w] EXCEPT !.stage = "reading", !.exchanged = e, !.token = t]
  <2>1. syncing'[w] = [syncing[w] EXCEPT !.stage = "reading", !.exchanged = (Sync!Cached = 0),
                                         !.token = IF Sync!Cached # 0 THEN Sync!Cached ELSE secret]
    BY DEF Sync!ResolveToken, SyncTypes
  <2> QED
    BY <2>1, <1>1 DEF Sync!Cached
<1>3. /\ syncing'[w] \in SyncRuns /\ syncing'[w].stage = "reading" /\ syncing'[w].page = syncing[w].page
      /\ syncing'[w].offset = syncing[w].offset /\ syncing'[w].wrote = syncing[w].wrote /\ syncing'[w].base = syncing[w].base
      /\ syncing'[w].removed = syncing[w].removed
  BY <1>1, <1>2 DEF SyncRuns, SyncStages
<1>4. \A c : Base(w, c)' = Base(w, c)
  BY <1>3 DEF Base, Sync!VersionIn
<1>5. \A c : Fresh(w, c)' <=> Fresh(w, c)
  BY <1>3, <1>4 DEF Fresh, OnPage
<1>6. \A r : Misses(w, r)' = Misses(w, r)
  BY <1>0, <1>4, <1>5 DEF Misses, Ahead, Behind
<1>7. Reach(w)' = Reach(w) /\ Going(w) /\ ~Ending(w)'
  BY <1>0, <1>3 DEF Reach, Going, Ending
<1>8. SyncFacts(w)'
  BY <1>0, <1>3, <1>6, <1>7 DEF SyncFacts
<1> QED
  BY <1>1, <1>3, <1>8

\* The step of a sync leaves the others alone.
LEMMA RunMoves ==
  ASSUME SyncInv, NEW w \in Workers, UNCHANGED listed, secret' \in Nat, token' \in Nat,
         syncing' = [v \in Workers |-> syncing'[v]], \A v \in Workers \ {w} : syncing'[v] = syncing[v],
         \/ syncing'[w] = Sync!NoRun
         \/ syncing'[w] \in SyncRuns /\ Catalogue(syncing'[w].base) /\ Catalogue(syncing'[w].page) /\ SyncFacts(w)'
  PROVE  SyncInv'
<1> DEFINE Kinds == {Sync!NoRun} \union SyncRuns
           Sound(r) == r \in SyncRuns /\ Catalogue(r.base) /\ Catalogue(r.page)
<1>1. \A v \in Workers \ {w} : syncing'[v] \in Kinds /\ (Sync!Running(v)' => Sound(syncing'[v]))
  BY DEF SyncInv, SyncTypes, Sync!Running
<1>2. syncing'[w] \in Kinds /\ (Sync!Running(w)' => Sound(syncing'[w]))
  BY DEF Sync!Running, Sync!NoRun
<1> HIDE DEF Kinds, Sound
<1>3. \A v \in Workers : syncing'[v] \in Kinds /\ (Sync!Running(v)' => Sound(syncing'[v]))
  BY <1>1, <1>2
<1>4. Catalogue(listed)'
  BY DEF SyncInv, SyncTypes, Catalogue
<1>5. syncing' \in [Workers -> Kinds]
  <2>1. ASSUME NEW f, \A v \in Workers : f[v] \in Kinds PROVE [v \in Workers |-> f[v]] \in [Workers -> Kinds]
    BY <2>1
  <2>2. [v \in Workers |-> syncing'[v]] \in [Workers -> Kinds]
    BY <2>1, <1>3
  <2> QED
    BY <2>2
<1>6. SyncTypes'
  BY <1>3, <1>4, <1>5 DEF SyncTypes, Kinds, Sound
<1>7. \A v \in Workers \ {w} : Covers(v)'
  BY SyncRests DEF SyncInv
<1>8. Covers(w)'
  BY DEF Covers, Sync!Running, Sync!NoRun
<1> QED
  BY <1>6, <1>7, <1>8 DEF SyncInv

LEMMA SyncKept ==
  ASSUME SyncInv, Sync!SyncNext
  PROVE  SyncInv'
<1>0. SyncTypes /\ secret \in Nat /\ token \in Nat /\ syncing \in [Workers -> {Sync!NoRun} \union SyncRuns]
  BY DEF SyncInv, SyncTypes
<1>1. ASSUME UNCHANGED <<listed, syncing>>, secret' \in Nat, token' \in Nat PROVE SyncInv'
  <2>1. SyncTypes'
    BY <1>0, <1>1 DEF SyncTypes, Catalogue, Sync!Running
  <2>2. \A w \in Workers : Covers(w)'
    BY <1>1, SyncRests DEF SyncInv
  <2> QED
    BY <2>1, <2>2 DEF SyncInv
<1>2. CASE Sync!AskSync \/ Sync!TokenExpires
  BY <1>0, <1>1, <1>2 DEF Sync!AskSync, Sync!TokenExpires
<1>3. CASE Sync!NewSecret
  BY <1>0, <1>1, <1>3 DEF Sync!NewSecret
<1>4. CASE Sync!AddProduct \/ Sync!Reprice
  <2>1. Catalogue(listed)' /\ \A w \in Workers : Covers(w)'
    BY <1>4, AddCovers, RepriceCovers
  <2>2. UNCHANGED <<secret, token, syncing>>
    BY <1>4 DEF Sync!AddProduct, Sync!Reprice
  <2>3. SyncTypes'
    BY <2>1, <2>2, <1>0 DEF SyncTypes, Catalogue, Sync!Running
  <2> QED
    BY <2>1, <2>3 DEF SyncInv
<1>5. CASE Sync!RemoveProduct
  BY <1>5, RemoveCovers DEF SyncInv
<1>6. ASSUME NEW w \in Workers, Sync!Start(w) \/ Sync!ResolveToken(w) \/ Sync!ReadPage(w) \/ Sync!WritePage(w)
      PROVE  SyncInv'
  <2>1. PICK r : syncing' = [syncing EXCEPT ![w] = r]
    BY <1>6 DEF Sync!Start, Sync!ResolveToken, Sync!ReadPage, Sync!WritePage
  <2>2. UNCHANGED <<listed, secret, token>>
    BY <1>6 DEF Sync!Start, Sync!ResolveToken, Sync!ReadPage, Sync!WritePage
  <2>3. Sync!Start(w) \/ SyncFacts(w)
    BY <1>6 DEF SyncInv, Covers, Sync!Running, Sync!At, Sync!ResolveToken, Sync!ReadPage, Sync!WritePage
  <2>4. syncing'[w] \in SyncRuns /\ Catalogue(syncing'[w].base) /\ Catalogue(syncing'[w].page) /\ SyncFacts(w)'
    BY <1>0, <1>6, <2>3, StartCovers, ResolveCovers, ReadCovers, WriteCovers
  <2> QED
    BY <2>1, <2>2, <2>4, <1>0, RunMoves
<1>7. ASSUME NEW w \in Workers, Sync!Finish(w) \/ Sync!Fail(w)
      PROVE  SyncInv'
  <2>1. syncing' = [syncing EXCEPT ![w] = Sync!NoRun] /\ UNCHANGED <<listed, secret>>
    BY <1>7 DEF Sync!Finish, Sync!Fail
  <2>2. token' \in Nat
    <3>1. token' = token \/ (Sync!Running(w) /\ token' = syncing[w].token)
      BY <1>7 DEF Sync!Finish, Sync!Fail, Sync!At, Sync!Running
    <3> QED
      BY <3>1, <1>0 DEF SyncTypes, SyncRuns
  <2> QED
    BY <2>1, <2>2, <1>0, RunMoves
<1> QED
  BY <1>2, <1>3, <1>4, <1>5, <1>6, <1>7 DEF Sync!SyncNext, Sync!SyncStep

LEMMA SyncBegins ==
  ASSUME Sync!SyncInit
  PROVE  SyncInv
<1>1. PICK list \in Lists : listed = [i \in DOMAIN list |-> [code |-> list[i], version |-> 1]]
  BY DEF Sync!SyncInit
<1>2. secret = 0 /\ token = 0 /\ syncing = [w \in Workers |-> Sync!NoRun]
  BY DEF Sync!SyncInit
<1>3. list \in Seq(Codes \union {NoCode}) /\ \A i, j \in DOMAIN list : list[i] = list[j] /\ list[i] # NoCode => i = j
  BY ListsAssumption
<1>4. Len(list) \in Nat /\ DOMAIN list = 1..Len(list) /\ \A i \in 1..Len(list) : list[i] \in Codes \union {NoCode}
  BY <1>3, LenProperties, ElementOfSeq
<1>5. listed \in Seq(Products) /\ DOMAIN listed = DOMAIN list /\ \A i \in DOMAIN list : listed[i].code = list[i]
  <2>1. \A i \in 1..Len(list) : [code |-> list[i], version |-> 1] \in Products
    BY <1>4 DEF Products
  <2> QED
    BY <1>1, <1>4, <2>1
<1>6. Catalogue(listed)
  BY <1>3, <1>5 DEF Catalogue
<1> QED
  BY <1>2, <1>6 DEF SyncInv, SyncTypes, Covers, Sync!Running, Sync!NoRun

SyncPart == part = "sync" => SyncInv

LEMMA SyncSafe ==
  BackOfficeSpec => []SyncPart
<1>1. BackOfficeInit => SyncPart
  BY SyncBegins DEF BackOfficeInit, SyncPart
<1>2. SyncPart /\ [BackOfficeNext]_backOffice => SyncPart'
  <2> SUFFICES ASSUME SyncPart, [BackOfficeNext]_backOffice, part' = "sync"
               PROVE  SyncInv'
    BY DEF SyncPart
  <2>1. CASE Syncs
    BY <2>1, SyncKept DEF Syncs, SyncPart
  <2>2. CASE ~Syncs
    <3>1. part' = part /\ UNCHANGED <<listed, secret, token, syncing>>
      BY <2>2 DEF BackOfficeNext, Notifies, Parses, Administers, PlansOrders, Talks, Chats, backOffice, sync
    <3>2. SyncTypes'
      BY <3>1 DEF SyncPart, SyncInv, SyncTypes, Catalogue, Sync!Running
    <3>3. \A w \in Workers : Covers(w)'
      BY <3>1, SyncRests DEF SyncPart, SyncInv
    <3> QED
      BY <3>2, <3>3 DEF SyncInv
  <2> QED
    BY <2>1, <2>2
<1> QED
  BY <1>1, <1>2, PTL DEF BackOfficeSpec

\* A sync that comes to the end of the list has missed no more products than the
\* shop took out of it meanwhile, whatever the pages' lengths, the prices, what was
\* added in front and the syncs beside it (processKiotvietProductSync of
\* kiotviet-product-sync.ts).
THEOREM SyncMissesRemovals ==
  BackOfficeSpec => []SyncCovers
<1>1. SyncPart => SyncCovers
  <2> SUFFICES ASSUME SyncInv, NEW w \in Workers, Sync!At(w, "read"), syncing[w].offset <= SafetyLimit
               PROVE  Sync!Cardinality(Sync!Missed(w)) <= syncing[w].removed
    BY DEF SyncPart, SyncCovers, Sync!SyncCovers
  <2>1. SyncTypes /\ Sync!Running(w) /\ SyncFacts(w) /\ Ending(w)
    BY DEF SyncInv, Covers, Sync!Running, Sync!At, Ending
  <2>2. /\ syncing[w].removed \in Nat /\ syncing[w].page = <<>> /\ syncing[w].wrote \in [Codes -> Nat]
        /\ \A c \in Codes : Base(w, c) \in Nat
    BY <2>1, RunFacts DEF SyncFacts, Sync!At
  <2>3. ASSUME NEW c \in Sync!Missed(w) PROVE c \in Stale(w)
    <3>1. c \in Codes /\ Base(w, c) # 0 /\ Sync!Visible(w)[c] < Base(w, c)
      BY <2>3 DEF Sync!Missed, Base
    <3>2. syncing[w].wrote[c] # 0 => Sync!Visible(w)[c] = syncing[w].wrote[c]
      BY <3>1 DEF Sync!Visible
    <3>3. ~(syncing[w].wrote[c] >= Base(w, c))
      BY <2>2, <3>1, <3>2
    <3>4. ~OnPage(w, c)
      BY <2>2 DEF OnPage
    <3> QED
      BY <3>1, <3>3, <3>4 DEF Stale, Fresh
  <2>4. Cardinality(Stale(w)) <= syncing[w].removed /\ Stale(w) \in SUBSET Codes
    BY <2>1 DEF SyncFacts, Stale
  <2>5. Cardinality(Sync!Missed(w)) <= syncing[w].removed
    BY <2>2, <2>3, <2>4, FewCodes
  <2> QED
    BY <2>5, SyncCounts
<1> QED
  BY <1>1, SyncSafe, PTL

=============================================================================
