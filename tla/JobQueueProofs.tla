--------------------------- MODULE JobQueueProofs ---------------------------
(***************************************************************************)
(* Theorems of JobQueue for any number of jobs, workers, attempts and      *)
(* faults.                                                                 *)
(***************************************************************************)
EXTENDS JobQueue, SequenceTheorems, FiniteSetTheorems, TLAPS

\* What a worker has in hand in each phase: nothing when idle, no copy while
\* it sweeps, nothing due while it runs a job.
HandOK ==
  \A w \in Workers :
    /\ hand[w].phase = "idle" => hand[w] = EmptyHand
    /\ hand[w].phase = "sweep" => hand[w].copy = NoCopy
    /\ hand[w].phase = "run" => hand[w].due = {}

Types == TypeOK /\ HandOK

-----------------------------------------------------------------------------
(* Copies and hands *)

LEMMA AttemptsType == \A j \in Jobs : AttemptsOf(j) \in Nat \ {0} /\ AttemptsOf(j) <= Attempts
BY QueueAssumption DEF AttemptsOf

LEMMA RetriedType ==
  ASSUME NEW c \in Copies, MayRetry(c)
  PROVE  Retried(c) \in Copies /\ Retried(c).job = c.job /\ Retried(c).made = c.made + 1
BY AttemptsType, QueueAssumption DEF Copies, Retried, MayRetry

LEMMA HandTypes ==
  /\ EmptyHand \in Hand
  /\ \A due \in SUBSET Copies : [EmptyHand EXCEPT !.phase = "sweep", !.due = due] \in Hand
  /\ \A c \in Copies : [EmptyHand EXCEPT !.phase = "run", !.copy = c] \in Hand
  /\ \A due \in SUBSET Copies, c \in Copies : [phase |-> "move", due |-> due, copy |-> c] \in Hand
  /\ \A h \in Hand : [h EXCEPT !.phase = "sweep", !.copy = NoCopy] \in Hand
BY DEF EmptyHand, Hand, Phases

\* A worker takes something in hand; the others keep what they have.
LEMMA HoldTypes ==
  ASSUME Types, NEW w \in Workers, NEW h \in Hand, Holding(w, h),
         h.phase \in {"move", "run"} => h.copy \in Copies,
         h.phase = "idle" => h = EmptyHand,
         h.phase = "sweep" => h.copy = NoCopy,
         h.phase = "run" => h.due = {}
  PROVE  /\ hand' \in [Workers -> Hand]
         /\ \A v \in Workers : hand'[v].phase \in {"move", "run"} => hand'[v].copy \in Copies
         /\ HandOK'
         /\ \A v \in Workers : hand'[v] = IF v = w THEN h ELSE hand[v]
<1>1. /\ hand' \in [Workers -> Hand]
      /\ \A v \in Workers : hand'[v] = IF v = w THEN h ELSE hand[v]
  BY DEF Types, TypeOK, Holding
<1> QED
  BY <1>1 DEF Types, TypeOK, HandOK

LEMMA PushTypes ==
  ASSUME wait \in Seq(Copies), NEW c \in Copies, Push(c)
  PROVE  /\ wait' \in Seq(Copies)
         /\ Len(wait') = Len(wait) + 1
         /\ wait'[Len(wait) + 1] = c
         /\ \A k \in 1 .. Len(wait) : wait'[k] = wait[k]
BY DEF Push

LEMMA PopTypes ==
  ASSUME wait \in Seq(Copies), wait # <<>>
  PROVE  /\ Popped \in Seq(Copies)
         /\ Len(wait) \in 1 .. Len(wait) /\ wait[Len(wait)] \in Copies
         /\ Len(Popped) = Len(wait) - 1
         /\ \A k \in 1 .. Len(Popped) : k \in 1 .. Len(wait) /\ Popped[k] = wait[k]
<1>1. Len(wait) \in Nat \ {0}
  OBVIOUS
<1>2. /\ Popped \in Seq(Copies) /\ Len(Popped) = Len(wait) - 1
      /\ \A k \in 1 .. Len(wait) - 1 : Popped[k] = wait[k]
  BY <1>1, SubSeqProperties DEF Popped
<1> QED
  BY <1>1, <1>2

LEMMA PutBackTypes ==
  ASSUME Types, NEW c \in Copies, PutBack(c)
  PROVE  wait' \in Seq(Copies) /\ ripe' \subseteq delayed' /\ delayed' \subseteq Copies
BY PushTypes DEF Types, TypeOK, PutBack

-----------------------------------------------------------------------------
(* Type correctness *)

LEMMA TypesInit == Init => Types
<1> SUFFICES ASSUME Init PROVE Types
  OBVIOUS
<1>1. TypeOK
  <2>1. hand \in [Workers -> Hand] /\ \A w \in Workers : hand[w].phase = "idle"
    BY HandTypes DEF Init, EmptyHand
  <2> QED
    BY <2>1 DEF Init, TypeOK
<1>2. \A w \in Workers : hand[w] = EmptyHand
  BY DEF Init
<1> QED
  BY <1>1, <1>2 DEF Types, HandOK, EmptyHand

LEMMA TypesNext == Types /\ [Next]_vars => Types'
<1> SUFFICES ASSUME Types, [Next]_vars PROVE Types'
  OBVIOUS
<1> USE DEF redis
<1>1. ASSUME NEW j \in Jobs, Add(j) PROVE Types'
  <2>1. [job |-> j, made |-> 0] \in Copies
    BY QueueAssumption DEF Copies
  <2> QED
    BY <1>1, <2>1, PushTypes DEF Add, Types, TypeOK, HandOK
<1>2. ASSUME NEW c \in Copies, Ripen(c) PROVE Types'
  BY <1>2 DEF Ripen, Types, TypeOK, HandOK
<1>3. ASSUME NEW w \in Workers, ReadDue(w) PROVE Types'
  <2> DEFINE h == [EmptyHand EXCEPT !.phase = "sweep", !.due = ripe]
  <2>1. h \in Hand /\ h.phase = "sweep" /\ h.copy = NoCopy
    BY HandTypes DEF Types, TypeOK, EmptyHand
  <2>2. Holding(w, h)
    BY <1>3 DEF ReadDue
  <2> HIDE DEF h
  <2> QED
    BY <1>3, <2>1, <2>2, HoldTypes DEF ReadDue, Types, TypeOK
<1>4. ASSUME NEW w \in Workers, RemoveDue(w) PROVE Types'
  <2>0. hand[w] \in Hand
    BY DEF Types, TypeOK
  <2>1. PICK c \in hand[w].due :
          /\ delayed' = delayed \ {c} /\ ripe' = ripe \ {c}
          /\ Holding(w, [phase |-> "move", due |-> hand[w].due \ {c}, copy |-> c])
    BY <1>4 DEF RemoveDue
  <2> DEFINE h == [phase |-> "move", due |-> hand[w].due \ {c}, copy |-> c]
  <2>2. h \in Hand /\ h.phase = "move" /\ h.copy \in Copies
    BY <2>0, HandTypes DEF Hand
  <2>3. Holding(w, h)
    BY <2>1
  <2> HIDE DEF h
  <2> QED
    BY <1>4, <2>1, <2>2, <2>3, HoldTypes DEF RemoveDue, Types, TypeOK
<1>5. ASSUME NEW w \in Workers, PushDue(w) PROVE Types'
  <2> DEFINE h == [hand[w] EXCEPT !.phase = "sweep", !.copy = NoCopy]
  <2>1. h \in Hand /\ h.phase = "sweep" /\ h.copy = NoCopy /\ hand[w].copy \in Copies
    BY <1>5, HandTypes DEF PushDue, Types, TypeOK, Hand
  <2>2. Holding(w, h)
    BY <1>5 DEF PushDue
  <2> HIDE DEF h
  <2> QED
    BY <1>5, <2>1, <2>2, HoldTypes, PushTypes DEF PushDue, Types, TypeOK
<1>6. ASSUME NEW w \in Workers, Holding(w, EmptyHand)
      PROVE  /\ hand' \in [Workers -> Hand]
             /\ \A v \in Workers : hand'[v].phase \in {"move", "run"} => hand'[v].copy \in Copies
             /\ HandOK'
  <2>1. EmptyHand \in Hand /\ EmptyHand.phase = "idle"
    BY HandTypes DEF EmptyHand
  <2> QED
    BY <1>6, <2>1, HoldTypes
<1>7. ASSUME NEW w \in Workers, Pop(w) PROVE Types'
  <2>1. CASE wait # <<>>
    <3> DEFINE h == [EmptyHand EXCEPT !.phase = "run", !.copy = wait[Len(wait)]]
    <3>0. Popped \in Seq(Copies) /\ wait[Len(wait)] \in Copies
      BY <2>1, PopTypes DEF Types, TypeOK
    <3>1. h \in Hand /\ h.phase = "run" /\ h.due = {} /\ h.copy \in Copies
      BY <3>0, HandTypes DEF EmptyHand
    <3>2. Holding(w, h)
      BY <1>7, <2>1 DEF Pop
    <3> HIDE DEF h
    <3> QED
      BY <1>7, <2>1, <3>0, <3>1, <3>2, HoldTypes DEF Pop, Types, TypeOK
  <2>2. CASE wait = <<>>
    BY <1>6, <1>7, <2>2 DEF Pop, Types, TypeOK
  <2> QED
    BY <2>1, <2>2
<1>8. ASSUME NEW w \in Workers, hand[w].phase = "run"
      PROVE  /\ hand[w].copy \in Copies
             /\ MayRetry(hand[w].copy) => Retried(hand[w].copy) \in Copies
  BY <1>8, RetriedType DEF Types, TypeOK
<1>9. ASSUME NEW w \in Workers, Finish(w) PROVE Types'
  BY <1>6, <1>8, <1>9 DEF Finish, Types, TypeOK, Copies
<1>10. ASSUME NEW w \in Workers, Fail(w) PROVE Types'
  <2>1. CASE MayRetry(hand[w].copy) /\ PutBack(Retried(hand[w].copy)) /\ UNCHANGED answered
    BY <1>6, <1>8, <1>10, <2>1, PutBackTypes DEF Fail, Types, TypeOK
  <2>2. CASE answered' = answered \cup {hand[w].copy.job} /\ UNCHANGED redis
    BY <1>6, <1>8, <1>10, <2>2 DEF Fail, Types, TypeOK, Copies
  <2> QED
    BY <1>10, <2>1, <2>2 DEF Fail
<1>11. ASSUME NEW w \in Workers, Crash(w) PROVE Types'
  BY <1>6, <1>11 DEF Crash, Fault, Types, TypeOK
<1>12. ASSUME NEW w \in Workers, CommandFails(w) PROVE Types'
  <2>1. wait' \in Seq(Copies) /\ ripe' \subseteq delayed' /\ delayed' \subseteq Copies
    <3>1. CASE hand[w].phase = "sweep" /\ UNCHANGED wait
      BY <1>12, <3>1 DEF CommandFails, Types, TypeOK
    <3>2. CASE /\ hand[w].phase = "sweep" /\ wait # <<>>
               /\ wait' = Popped /\ UNCHANGED <<delayed, ripe>>
      BY <3>2, PopTypes DEF Types, TypeOK
    <3>3. CASE hand[w].phase = "move" /\ Push(hand[w].copy) /\ UNCHANGED <<delayed, ripe>>
      BY <3>3, PushTypes DEF Types, TypeOK
    <3>4. CASE /\ hand[w].phase = "run" /\ MayRetry(hand[w].copy)
               /\ PutBack(Retried(hand[w].copy))
      BY <1>8, <3>4, PutBackTypes
    <3> QED
      BY <1>12, <3>1, <3>2, <3>3, <3>4 DEF CommandFails
  <2> QED
    BY <1>6, <1>12, <2>1 DEF CommandFails, Fault, Types, TypeOK
<1>13. CASE UNCHANGED vars
  BY <1>13 DEF vars, Types, TypeOK, HandOK
<1> QED
  BY <1>1, <1>2, <1>3, <1>4, <1>5, <1>7, <1>9, <1>10, <1>11, <1>12, <1>13
  DEF Next, WorkerStep

\* Redis and the workers' memory keep their types, through any interleaving,
\* crash or failed command (bullmq-lite.ts:129-189).
THEOREM TypeCorrect == Spec => []TypeOK
<1>1. Spec => []Types
  BY TypesInit, TypesNext, PTL DEF Spec
<1> QED
  BY <1>1, PTL DEF Types

-----------------------------------------------------------------------------
(* Where copies are *)

Waiting(c) == \E k \in 1 .. Len(wait) : wait[k] = c
InHandOf(w, c) == c \in hand[w].due \/ c = hand[w].copy

\* Everywhere, as a condition on a copy
Found == {c \in Copies : \/ Waiting(c) \/ c \in delayed
                         \/ \E w \in Workers : InHandOf(w, c)}

LEMMA EverywhereFound == Types => Everywhere = Found
<1> SUFFICES ASSUME Types PROVE Everywhere = Found
  OBVIOUS
<1>1. /\ wait \in Seq(Copies) /\ delayed \subseteq Copies /\ NoCopy \notin Copies
      /\ \A w \in Workers : hand[w].due \subseteq Copies /\ hand[w].copy \in Copies \cup {NoCopy}
  BY NoCopyAssumption DEF Types, TypeOK, Hand
<1>2. \A k \in 1 .. Len(wait) : wait[k] \in Copies
  BY <1>1
<1>3. ASSUME NEW c
      PROVE  c \in Everywhere <=>
               \/ \E k \in 1 .. Len(wait) : c = wait[k]
               \/ c \in delayed
               \/ \E w \in Workers : c \in hand[w].due
               \/ c # NoCopy /\ \E w \in Workers : c = hand[w].copy
  <2> DEFINE InList == {wait[k] : k \in 1 .. Len(wait)}
             Due == UNION {hand[w].due : w \in Workers}
             InHand == {hand[w].copy : w \in Workers}
  <2>1. c \in InList <=> \E k \in 1 .. Len(wait) : c = wait[k]
    BY Zenon
  <2>2. c \in Due <=> \E w \in Workers : c \in hand[w].due
    BY Zenon
  <2>3. c \in InHand <=> \E w \in Workers : c = hand[w].copy
    BY Zenon
  <2>4. Everywhere = InList \cup delayed \cup Due \cup (InHand \ {NoCopy})
    BY SMT DEF Everywhere
  <2> HIDE DEF InList, Due, InHand
  <2> QED
    BY <2>1, <2>2, <2>3, <2>4
<1>4. ASSUME NEW c \in Copies
      PROVE  c \in Found <=>
               \/ \E k \in 1 .. Len(wait) : c = wait[k]
               \/ c \in delayed
               \/ \E w \in Workers : c \in hand[w].due \/ c = hand[w].copy
  BY <1>4 DEF Found, Waiting, InHandOf
<1>5. Everywhere \subseteq Copies /\ Found \subseteq Copies
  BY <1>1, <1>2, <1>3 DEF Found
<1>6. \A c \in Copies : c \in Everywhere <=> c \in Found
  BY <1>1, <1>3, <1>4
<1> QED
  BY <1>5, <1>6

\* The same in the next state
LEMMA NextFound == Types' => Everywhere' = Found'
<1> SUFFICES ASSUME Types' PROVE Everywhere' = Found'
  OBVIOUS
<1>1. /\ wait' \in Seq(Copies) /\ delayed' \subseteq Copies /\ NoCopy \notin Copies
      /\ \A w \in Workers : hand'[w].due \subseteq Copies /\ hand'[w].copy \in Copies \cup {NoCopy}
  BY NoCopyAssumption DEF Types, TypeOK, Hand
<1>2. \A k \in 1 .. Len(wait') : wait'[k] \in Copies
  BY <1>1
<1>3. ASSUME NEW c
      PROVE  c \in Everywhere' <=>
               \/ \E k \in 1 .. Len(wait') : c = wait'[k]
               \/ c \in delayed'
               \/ \E w \in Workers : c \in hand'[w].due
               \/ c # NoCopy /\ \E w \in Workers : c = hand'[w].copy
  <2> DEFINE InList == {wait'[k] : k \in 1 .. Len(wait')}
             Due == UNION {hand'[w].due : w \in Workers}
             InHand == {hand'[w].copy : w \in Workers}
  <2>1. c \in InList <=> \E k \in 1 .. Len(wait') : c = wait'[k]
    BY Zenon
  <2>2. c \in Due <=> \E w \in Workers : c \in hand'[w].due
    BY Zenon
  <2>3. c \in InHand <=> \E w \in Workers : c = hand'[w].copy
    BY Zenon
  <2>4. Everywhere' = InList \cup delayed' \cup Due \cup (InHand \ {NoCopy})
    BY SMT DEF Everywhere
  <2> HIDE DEF InList, Due, InHand
  <2> QED
    BY <2>1, <2>2, <2>3, <2>4
<1>4. ASSUME NEW c \in Copies
      PROVE  c \in Found' <=>
               \/ \E k \in 1 .. Len(wait') : c = wait'[k]
               \/ c \in delayed'
               \/ \E w \in Workers : c \in hand'[w].due \/ c = hand'[w].copy
  BY <1>4 DEF Found, Waiting, InHandOf
<1>5. Everywhere' \subseteq Copies /\ Found' \subseteq Copies
  BY <1>1, <1>2, <1>3 DEF Found
<1>6. \A c \in Copies : c \in Everywhere' <=> c \in Found'
  BY <1>1, <1>3, <1>4
<1> QED
  BY <1>5, <1>6

\* RPUSH adds one copy to the list, BRPOP takes one off.
LEMMA PushWaiting ==
  ASSUME wait \in Seq(Copies), NEW c \in Copies, Push(c)
  PROVE  \A d : Waiting(d)' <=> Waiting(d) \/ d = c
<1>1. Len(wait) \in Nat
  OBVIOUS
<1> QED
  BY <1>1, PushTypes DEF Waiting

LEMMA PopWaiting ==
  ASSUME wait \in Seq(Copies), wait # <<>>, wait' = Popped
  PROVE  \A d : /\ Waiting(d)' => Waiting(d)
                /\ Waiting(d) => Waiting(d)' \/ d = wait[Len(wait)]
                /\ Waiting(wait[Len(wait)])
<1>1. Len(wait) \in Nat \ {0}
  OBVIOUS
<1>2. ASSUME NEW k \in 1 .. Len(wait), k # Len(wait)
      PROVE  k \in 1 .. Len(Popped) /\ Popped[k] = wait[k]
  BY <1>1, <1>2, PopTypes
<1> QED
  BY <1>1, <1>2, PopTypes DEF Waiting

\* A copy that is put back is found again, and nothing else moves.
LEMMA PutBackWhere ==
  ASSUME Types, NEW c \in Copies, PutBack(c)
  PROVE  /\ Waiting(c)' \/ c \in delayed'
         /\ \A d : Waiting(d) \/ d \in delayed => Waiting(d)' \/ d \in delayed'
         /\ \A d : Waiting(d)' \/ d \in delayed' => Waiting(d) \/ d \in delayed \/ d = c
<1>1. CASE c.job \in Prompt
  BY <1>1, PushWaiting DEF PutBack, Types, TypeOK
<1>2. CASE c.job \notin Prompt
  <2>1. wait' = wait /\ delayed' = delayed \cup {c}
    BY <1>2 DEF PutBack
  <2> QED
    BY <2>1 DEF Waiting
<1> QED
  BY <1>1, <1>2
\* Stored says where a copy is when no worker has it.
Stored(c) == Waiting(c) \/ c \in delayed

\* How each step moves copies: what is stored, and what the worker w that takes
\* the step has in hand, before and after.
LEMMA HandMove ==
  ASSUME Types, NEW w \in Workers, NEW h \in Hand, Holding(w, h), NEW c \in Copies
  PROVE  /\ c \in Found <=>
              Stored(c) \/ InHandOf(w, c) \/ \E v \in Workers \ {w} : InHandOf(v, c)
         /\ c \in Found' <=>
              Stored(c)' \/ c \in h.due \/ c = h.copy \/ \E v \in Workers \ {w} : InHandOf(v, c)
<1>1. \A v \in Workers : hand'[v] = IF v = w THEN h ELSE hand[v]
  BY DEF Types, TypeOK, Holding
<1>2. InHandOf(w, c)' <=> c \in h.due \/ c = h.copy
  BY <1>1 DEF InHandOf
<1>3. \A v \in Workers \ {w} : InHandOf(v, c)' <=> InHandOf(v, c)
  BY <1>1 DEF InHandOf
<1>4. c \in Found' <=> Stored(c)' \/ \E v \in Workers : InHandOf(v, c)'
  BY DEF Found, Stored
<1>5. c \in Found <=> Stored(c) \/ \E v \in Workers : InHandOf(v, c)
  BY DEF Found, Stored
<1> QED
  BY <1>2, <1>3, <1>4, <1>5

LEMMA EmptyMove ==
  ASSUME Types, NEW w \in Workers, Holding(w, EmptyHand), NEW c \in Copies
  PROVE  c \in Found' <=> Stored(c)' \/ \E v \in Workers \ {w} : InHandOf(v, c)
<1>1. EmptyHand \in Hand /\ EmptyHand.due = {} /\ EmptyHand.copy # c
  BY HandTypes, NoCopyAssumption DEF EmptyHand
<1> QED
  BY <1>1, HandMove

\* Every copy is an old one, a new job or the retry of a copy a worker runs.
LEMMA NewCopies ==
  ASSUME Types, [Next]_vars, NEW c \in Found'
  PROVE  \/ c \in Found
         \/ c.made = 0 /\ c.job \in Jobs /\ Add(c.job)
         \/ \E d \in Found : MayRetry(d) /\ c = Retried(d)
<1> DEFINE P == \/ c \in Found
                \/ c.made = 0 /\ c.job \in Jobs /\ Add(c.job)
                \/ \E d \in Found : MayRetry(d) /\ c = Retried(d)
<1> SUFFICES P
  OBVIOUS
<1>0. c \in Copies /\ wait \in Seq(Copies)
  BY DEF Found, Types, TypeOK
<1> USE DEF redis
<1>1. CASE UNCHANGED <<wait, delayed, hand>>
  BY <1>1 DEF Found, Waiting, InHandOf
<1>2. ASSUME NEW j \in Jobs, Add(j) PROVE P
  <2>1. [job |-> j, made |-> 0] \in Copies
    BY QueueAssumption DEF Copies
  <2>2. Waiting(c)' => Waiting(c) \/ c = [job |-> j, made |-> 0]
    BY <1>0, <1>2, <2>1, PushWaiting DEF Add
  <2> QED
    BY <1>0, <1>2, <2>2 DEF Found, InHandOf, Add
<1>3. ASSUME NEW w \in Workers, Holding(w, EmptyHand), Stored(c)' => Stored(c)
      PROVE  P
  BY <1>0, <1>3, EmptyMove, HandTypes, HandMove
\* The copy in hand is somewhere, and so is what is due.
<1>4. ASSUME NEW w \in Workers, NEW h \in Hand, Holding(w, h),
             h.copy # c \/ h.copy = hand[w].copy \/ Stored(c),
             c \in h.due => c \in hand[w].due \/ Stored(c),
             Stored(c)' => Stored(c) \/ c = hand[w].copy
      PROVE  P
  BY <1>0, <1>4, HandMove DEF InHandOf
<1>5. ASSUME NEW w \in Workers, hand[w].phase = "run", MayRetry(hand[w].copy),
             PutBack(Retried(hand[w].copy)), Holding(w, EmptyHand)
      PROVE  P
  <2>1. /\ hand[w].copy \in Copies /\ Retried(hand[w].copy) \in Copies
        /\ hand[w].copy \in Found
    BY <1>5, RetriedType DEF Types, TypeOK, Found, InHandOf
  <2>2. Stored(c)' => Stored(c) \/ c = Retried(hand[w].copy)
    BY <1>5, <2>1, PutBackWhere DEF Stored
  <2> QED
    BY <1>3, <1>5, <2>1, <2>2
<1>6. ASSUME NEW w \in Workers, ReadDue(w) PROVE P
  <2> DEFINE h == [EmptyHand EXCEPT !.phase = "sweep", !.due = ripe]
  <2>1. h \in Hand /\ h.copy = NoCopy /\ h.due = ripe /\ ripe \subseteq delayed
    BY HandTypes DEF Types, TypeOK, EmptyHand
  <2>2. Holding(w, h) /\ (Stored(c)' <=> Stored(c))
    BY <1>6 DEF ReadDue, Stored, Waiting
  <2> HIDE DEF h
  <2> QED
    BY <1>0, <1>4, <2>1, <2>2, NoCopyAssumption DEF Stored
<1>7. ASSUME NEW w \in Workers, RemoveDue(w) PROVE P
  <2>0. hand[w] \in Hand
    BY DEF Types, TypeOK
  <2>1. PICK d \in hand[w].due :
          /\ delayed' = delayed \ {d}
          /\ Holding(w, [phase |-> "move", due |-> hand[w].due \ {d}, copy |-> d])
    BY <1>7 DEF RemoveDue
  <2> DEFINE h == [phase |-> "move", due |-> hand[w].due \ {d}, copy |-> d]
  <2>2. h \in Hand /\ h.copy = d /\ h.due = hand[w].due \ {d}
    BY <2>0, HandTypes DEF Hand
  <2>3. Holding(w, h) /\ (Stored(c)' => Stored(c))
    BY <1>7, <2>1 DEF RemoveDue, Stored, Waiting
  <2> HIDE DEF h
  <2> QED
    BY <1>0, <2>1, <2>2, <2>3, HandMove DEF InHandOf
<1>8. ASSUME NEW w \in Workers, PushDue(w) PROVE P
  <2> DEFINE h == [hand[w] EXCEPT !.phase = "sweep", !.copy = NoCopy]
  <2>1. h \in Hand /\ h.copy = NoCopy /\ h.due = hand[w].due /\ hand[w].copy \in Copies
    BY <1>8, HandTypes DEF PushDue, Types, TypeOK, Hand
  <2>2. Holding(w, h) /\ (Stored(c)' => Stored(c) \/ c = hand[w].copy)
    BY <1>0, <1>8, <2>1, PushWaiting DEF PushDue, Stored
  <2> HIDE DEF h
  <2> QED
    BY <1>0, <1>4, <2>1, <2>2, NoCopyAssumption
<1>9. ASSUME NEW w \in Workers, Pop(w) PROVE P
  <2>1. CASE wait = <<>>
    BY <1>3, <1>9, <2>1 DEF Pop, Stored, Waiting
  <2>2. CASE wait # <<>>
    <3> DEFINE d == wait[Len(wait)]
               h == [EmptyHand EXCEPT !.phase = "run", !.copy = d]
    <3>1. d \in Copies /\ Waiting(d)
      BY <1>0, <2>2, PopTypes DEF Waiting
    <3>2. h \in Hand /\ h.copy = d /\ h.due = {}
      BY <3>1, HandTypes DEF EmptyHand
    <3>3. Holding(w, h) /\ (Stored(c)' => Stored(c))
      BY <1>0, <1>9, <2>2, PopWaiting DEF Pop, Stored
    <3> HIDE DEF h
    <3> QED
      BY <1>4, <3>1, <3>2, <3>3 DEF Stored
  <2> QED
    BY <2>1, <2>2
<1>10. ASSUME NEW w \in Workers, Finish(w) \/ Crash(w) PROVE P
  BY <1>3, <1>10 DEF Finish, Crash, Stored, Waiting
<1>11. ASSUME NEW w \in Workers, Fail(w) PROVE P
  <2>1. CASE UNCHANGED redis
    BY <1>3, <1>11, <2>1 DEF Fail, Stored, Waiting
  <2>2. CASE MayRetry(hand[w].copy) /\ PutBack(Retried(hand[w].copy))
    BY <1>5, <1>11, <2>2 DEF Fail
  <2> QED
    BY <1>11, <2>1, <2>2 DEF Fail
<1>12. ASSUME NEW w \in Workers, CommandFails(w) PROVE P
  <2>0. Holding(w, EmptyHand)
    BY <1>12 DEF CommandFails
  <2>1. CASE UNCHANGED wait /\ delayed' \subseteq delayed
    BY <1>3, <2>0, <2>1 DEF Stored, Waiting
  <2>2. CASE wait # <<>> /\ wait' = Popped /\ UNCHANGED delayed
    BY <1>0, <1>3, <2>0, <2>2, PopWaiting DEF Stored
  <2>3. CASE hand[w].phase = "move" /\ Push(hand[w].copy) /\ UNCHANGED delayed
    <3>1. hand[w].copy \in Copies
      BY <2>3 DEF Types, TypeOK
    <3>2. Stored(c)' => Stored(c) \/ c = hand[w].copy
      BY <1>0, <2>3, <3>1, PushWaiting DEF Stored
    <3> QED
      BY <1>0, <1>3, <2>0, <3>1, <3>2 DEF Found, InHandOf
  <2>4. CASE /\ hand[w].phase = "run" /\ MayRetry(hand[w].copy)
             /\ PutBack(Retried(hand[w].copy))
    BY <1>5, <2>0, <2>4
  <2> QED
    BY <1>12, <2>1, <2>2, <2>3, <2>4 DEF CommandFails
<1>13. CASE UNCHANGED vars \/ \E d \in Copies : Ripen(d)
  BY <1>1, <1>13 DEF vars, Ripen
<1> QED
  BY <1>2, <1>6, <1>7, <1>8, <1>9, <1>10, <1>11, <1>12, <1>13 DEF Next, WorkerStep

\* No processor is ever called past its job's attempts, however many workers
\* duplicate a job between ZRANGEBYSCORE and RPUSH (bullmq-lite.ts:129-138, 167-182).
THEOREM AttemptsHold == Spec => []AttemptsRespected
<1>1. Init => AttemptsRespected
  <2> SUFFICES ASSUME Init, NEW c \in Everywhere PROVE FALSE
    BY DEF AttemptsRespected
  <2>1. c \in Found
    BY TypesInit, EverywhereFound
  <2>2. c \in Copies /\ ~Waiting(c) /\ c \notin delayed /\ \A w \in Workers : ~InHandOf(w, c)
    BY <2>1, NoCopyAssumption DEF Init, Found, Waiting, InHandOf, EmptyHand
  <2> QED
    BY <2>1, <2>2 DEF Found
<1>2. Types /\ AttemptsRespected /\ [Next]_vars => AttemptsRespected'
  <2> SUFFICES ASSUME Types, AttemptsRespected, [Next]_vars, NEW c \in Everywhere'
               PROVE  c.made < AttemptsOf(c.job)
    BY DEF AttemptsRespected
  <2>0. c \in Found' /\ \A d \in Found : d.made < AttemptsOf(d.job)
    BY TypesNext, NextFound, EverywhereFound DEF AttemptsRespected
  <2>1. c.job \in Jobs
    BY <2>0 DEF Found, Copies
  <2>2. ASSUME NEW d \in Found, MayRetry(d), c = Retried(d)
        PROVE  c.made < AttemptsOf(c.job)
    BY <2>2, RetriedType DEF Found, MayRetry
  <2> QED
    BY <2>0, <2>1, <2>2, NewCopies, AttemptsType
<1>3. Spec => []Types
  BY TypesInit, TypesNext, PTL DEF Spec
<1> QED
  BY <1>1, <1>2, <1>3, PTL DEF Spec
-----------------------------------------------------------------------------
(* Nothing is lost without a fault *)

\* A step that is no fault leaves every copy, or a retry of it, or its job
\* answered.
LEMMA KeptCopies ==
  ASSUME Types, [Next]_vars, faults' = faults, NEW c \in Found
  PROVE  c.job \in answered' \/ \E d \in Found' : d.job = c.job
<1> DEFINE P == c.job \in answered' \/ \E d \in Found' : d.job = c.job
<1> SUFFICES P
  OBVIOUS
<1>0. c \in Copies /\ wait \in Seq(Copies)
  BY DEF Found, Types, TypeOK
<1> USE DEF redis
<1>1. CASE UNCHANGED <<wait, delayed, hand>>
  BY <1>0, <1>1 DEF Found, Waiting, InHandOf
<1>2. ASSUME NEW j \in Jobs, Add(j) PROVE P
  <2>1. [job |-> j, made |-> 0] \in Copies
    BY QueueAssumption DEF Copies
  <2>2. Waiting(c) => Waiting(c)'
    BY <1>0, <1>2, <2>1, PushWaiting DEF Add
  <2> QED
    BY <1>0, <1>2, <2>2 DEF Found, InHandOf, Add
\* The worker keeps what it holds, or stores it.
<1>3. ASSUME NEW w \in Workers, NEW h \in Hand, Holding(w, h),
             InHandOf(w, c) => c \in h.due \/ c = h.copy \/ Stored(c)',
             Stored(c) => Stored(c)' \/ c \in h.due \/ c = h.copy
      PROVE  P
  BY <1>0, <1>3, HandMove
<1>4. ASSUME NEW w \in Workers, Holding(w, EmptyHand), Stored(c) => Stored(c)', c # hand[w].copy,
             hand[w].due = {}
      PROVE  P
  BY <1>0, <1>3, <1>4, HandTypes DEF InHandOf
<1>5. ASSUME NEW w \in Workers, ReadDue(w) PROVE P
  <2> DEFINE h == [EmptyHand EXCEPT !.phase = "sweep", !.due = ripe]
  <2>1. h \in Hand
    BY HandTypes DEF Types, TypeOK
  <2>2. Holding(w, h) /\ (Stored(c)' <=> Stored(c))
    BY <1>5 DEF ReadDue, Stored, Waiting
  <2>3. ~InHandOf(w, c)
    BY <1>0, <1>5, NoCopyAssumption DEF ReadDue, InHandOf, Types, HandOK, EmptyHand
  <2> HIDE DEF h
  <2> QED
    BY <1>3, <2>1, <2>2, <2>3
<1>6. ASSUME NEW w \in Workers, RemoveDue(w) PROVE P
  <2>0. hand[w] \in Hand /\ hand[w].copy # c
    BY <1>0, <1>6, NoCopyAssumption DEF Types, TypeOK, HandOK, RemoveDue
  <2>1. PICK d \in hand[w].due :
          /\ delayed' = delayed \ {d}
          /\ Holding(w, [phase |-> "move", due |-> hand[w].due \ {d}, copy |-> d])
    BY <1>6 DEF RemoveDue
  <2> DEFINE h == [phase |-> "move", due |-> hand[w].due \ {d}, copy |-> d]
  <2>2. h \in Hand /\ h.copy = d /\ h.due = hand[w].due \ {d}
    BY <2>0, HandTypes DEF Hand
  <2>3. Holding(w, h) /\ (Stored(c) => Stored(c)' \/ c = d)
    BY <1>6, <2>1 DEF RemoveDue, Stored, Waiting
  <2> HIDE DEF h
  <2> QED
    BY <1>3, <2>0, <2>2, <2>3 DEF InHandOf
<1>7. ASSUME NEW w \in Workers, PushDue(w) PROVE P
  <2> DEFINE h == [hand[w] EXCEPT !.phase = "sweep", !.copy = NoCopy]
  <2>1. h \in Hand /\ h.due = hand[w].due /\ hand[w].copy \in Copies
    BY <1>7, HandTypes DEF PushDue, Types, TypeOK, Hand
  <2>2. Holding(w, h) /\ (Stored(c) \/ c = hand[w].copy => Stored(c)')
    BY <1>0, <1>7, <2>1, PushWaiting DEF PushDue, Stored
  <2> HIDE DEF h
  <2> QED
    BY <1>3, <2>1, <2>2 DEF InHandOf
<1>8. ASSUME NEW w \in Workers, Pop(w) PROVE P
  <2>0. hand[w].copy # c /\ hand[w].due = {}
    BY <1>0, <1>8, NoCopyAssumption DEF Pop, Types, HandOK
  <2>1. CASE wait = <<>>
    BY <1>4, <1>8, <2>0, <2>1 DEF Pop, Stored, Waiting
  <2>2. CASE wait # <<>>
    <3> DEFINE d == wait[Len(wait)]
               h == [EmptyHand EXCEPT !.phase = "run", !.copy = d]
    <3>1. d \in Copies
      BY <1>0, <2>2, PopTypes
    <3>2. h \in Hand /\ h.copy = d
      BY <3>1, HandTypes DEF EmptyHand
    <3>3. Holding(w, h) /\ (Stored(c) => Stored(c)' \/ c = d)
      BY <1>0, <1>8, <2>2, PopWaiting DEF Pop, Stored
    <3> HIDE DEF h
    <3> QED
      BY <1>3, <2>0, <3>2, <3>3 DEF InHandOf
  <2> QED
    BY <2>1, <2>2
<1>9. ASSUME NEW w \in Workers, Finish(w) PROVE P
  <2>1. CASE c = hand[w].copy
    BY <1>9, <2>1 DEF Finish
  <2>2. CASE c # hand[w].copy
    BY <1>4, <1>9, <2>2 DEF Finish, Types, HandOK, Stored, Waiting
  <2> QED
    BY <2>1, <2>2
<1>10. ASSUME NEW w \in Workers, Fail(w) PROVE P
  <2>0. hand[w].phase = "run" /\ Holding(w, EmptyHand) /\ hand[w].due = {} /\ hand[w].copy \in Copies
    BY <1>10 DEF Fail, Types, TypeOK, HandOK
  <2>1. CASE UNCHANGED redis /\ c # hand[w].copy
    BY <1>4, <2>0, <2>1 DEF Stored, Waiting
  <2>2. CASE answered' = answered \cup {hand[w].copy.job} /\ c = hand[w].copy
    BY <2>2
  <2>3. CASE MayRetry(hand[w].copy) /\ PutBack(Retried(hand[w].copy))
    <3>1. PICK r \in Copies : r = Retried(hand[w].copy) /\ r.job = hand[w].copy.job
      BY <2>0, <2>3, RetriedType
    <3>2. /\ Stored(r)'
          /\ Stored(c) => Stored(c)'
      BY <2>3, <3>1, PutBackWhere DEF Stored
    <3>3. r \in Found'
      BY <2>0, <3>1, <3>2, EmptyMove
    <3>4. CASE c = hand[w].copy
      BY <3>1, <3>3, <3>4
    <3>5. CASE c # hand[w].copy
      BY <1>4, <2>0, <3>2, <3>5
    <3> QED
      BY <3>4, <3>5
  <2> QED
    BY <1>10, <2>1, <2>2, <2>3 DEF Fail
<1>11. ~\E w \in Workers : Crash(w) \/ CommandFails(w)
  BY DEF Crash, CommandFails, Fault, Types, TypeOK
<1>12. CASE UNCHANGED vars \/ \E d \in Copies : Ripen(d)
  BY <1>1, <1>12 DEF vars, Ripen
<1> QED
  BY <1>2, <1>5, <1>6, <1>7, <1>8, <1>9, <1>10, <1>11, <1>12 DEF Next, WorkerStep

\* What a step does to the jobs and the faults.
LEMMA JobsGrow ==
  ASSUME Types, [Next]_vars
  PROVE  /\ answered \subseteq answered' /\ added \subseteq added'
         /\ \A j \in added' \ added : \E c \in Found' : c.job = j
         /\ faults' \in {faults, faults + 1}
<1>1. ASSUME NEW j \in Jobs, Add(j)
      PROVE  [job |-> j, made |-> 0] \in Found'
  <2>1. [job |-> j, made |-> 0] \in Copies /\ wait \in Seq(Copies)
    BY QueueAssumption DEF Copies, Types, TypeOK
  <2>2. Waiting([job |-> j, made |-> 0])'
    BY <1>1, <2>1, PushWaiting DEF Add
  <2> QED
    BY <2>1, <2>2 DEF Found
<1>2. \A j \in Jobs : Add(j) => added' = added \cup {j} /\ UNCHANGED <<answered, faults>>
  BY DEF Add
<1>3. ASSUME ~\E j \in Jobs : Add(j)
      PROVE  added' = added /\ answered \subseteq answered' /\ faults' \in {faults, faults + 1}
  BY <1>3 DEF Next, vars, Ripen, WorkerStep, ReadDue, RemoveDue, PushDue, Pop, Finish, Fail,
       Crash, CommandFails, Fault
<1> QED
  BY <1>1, <1>2, <1>3

\* Until the first crash or failed command, a job that was enqueued is answered
\* or still somewhere: no interleaving of workers loses one
\* (bullmq-lite.ts:129-138, 140-189).
THEOREM NothingIsLost == Spec => []NothingLost
<1>1. Init => NothingLost
  BY DEF Init, NothingLost
<1>2. Types /\ NothingLost /\ [Next]_vars => NothingLost'
  <2> SUFFICES ASSUME Types, NothingLost, [Next]_vars, faults' = 0,
                      NEW j \in added', j \notin answered'
               PROVE  \E c \in Everywhere' : c.job = j
    BY DEF NothingLost
  <2>0. Everywhere = Found /\ Everywhere' = Found'
    BY TypesNext, EverywhereFound, NextFound
  <2>1. faults = 0 /\ faults' = faults
    BY JobsGrow DEF Types, TypeOK
  <2>2. CASE j \notin added
    BY <2>0, <2>2, JobsGrow
  <2>3. CASE j \in added
    <3>1. PICK c \in Everywhere : c.job = j
      BY <2>1, <2>3, JobsGrow DEF NothingLost
    <3> QED
      BY <2>0, <2>1, <3>1, KeptCopies
  <2> QED
    BY <2>2, <2>3
<1>3. Spec => []Types
  BY TypesInit, TypesNext, PTL DEF Spec
<1> QED
  BY <1>1, <1>2, <1>3, PTL DEF Spec

-----------------------------------------------------------------------------
(* The queue delivers: JobQueue implements JobDelivery. *)

\* A copy that Redis has, or that a worker moves or runs, and not only one that
\* a sweep has read: what a sweep has read may have been moved by another.
Solid(c) == Stored(c) \/ \E w \in Workers : hand[w].copy = c
Firm(j) == \E c \in Copies : c.job = j /\ Solid(c)

\* The jobs that hang by what sweeps have read, if by anything.
Stray == {j \in added \ answered : ~Firm(j)}

\* The inductive invariant: copies are of jobs that were added, and a fault
\* loosens one job at most.
CopiesAdded == \A c \in Found : c.job \in added
StrayBounded == IsFiniteSet(Stray) /\ Cardinality(Stray) <= faults
DeliveryInv == answered \subseteq added /\ CopiesAdded /\ StrayBounded

\* How a step of worker w moves what is solid.
LEMMA SolidMove ==
  ASSUME Types, NEW w \in Workers, NEW h \in Hand, Holding(w, h), NEW c \in Copies
  PROVE  /\ Solid(c) <=> Stored(c) \/ hand[w].copy = c \/ \E v \in Workers \ {w} : hand[v].copy = c
         /\ Solid(c)' <=> Stored(c)' \/ h.copy = c \/ \E v \in Workers \ {w} : hand[v].copy = c
<1>1. \A v \in Workers : hand'[v] = IF v = w THEN h ELSE hand[v]
  BY DEF Types, TypeOK, Holding
<1> QED
  BY <1>1 DEF Solid

LEMMA SolidEmpties ==
  ASSUME Types, NEW w \in Workers, Holding(w, EmptyHand), NEW c \in Copies, c # hand[w].copy,
         Stored(c) => Stored(c)'
  PROVE  Solid(c) => Solid(c)'
<1>1. EmptyHand \in Hand
  BY HandTypes
<1> QED
  BY <1>1, SolidMove

\* A job that is put back is firm.
LEMMA PutBackFirm ==
  ASSUME Types, NEW w \in Workers, hand[w].phase = "run", MayRetry(hand[w].copy),
         PutBack(Retried(hand[w].copy)), Holding(w, EmptyHand), NEW c \in Copies, Solid(c)
  PROVE  Firm(c.job)'
<1>1. hand[w].copy \in Copies
  BY DEF Types, TypeOK
<1>2. PICK r \in Copies : r = Retried(hand[w].copy) /\ r.job = hand[w].copy.job
  BY <1>1, RetriedType
<1>3. Stored(r)' /\ (Stored(c) => Stored(c)')
  BY <1>2, PutBackWhere DEF Stored
<1>4. CASE c = hand[w].copy
  BY <1>2, <1>3, <1>4 DEF Firm, Solid
<1>5. CASE c # hand[w].copy
  BY <1>3, <1>5, SolidEmpties DEF Firm
<1> QED
  BY <1>4, <1>5

\* A step that is no fault leaves a job firm or answers it.
LEMMA FirmStays ==
  ASSUME Types, [Next]_vars, faults' = faults, NEW j, Firm(j)
  PROVE  Firm(j)' \/ j \in answered'
<1> USE DEF redis
<1>0. PICK c \in Copies : c.job = j /\ Solid(c)
  BY DEF Firm
<1>1. wait \in Seq(Copies)
  BY DEF Types, TypeOK
<1>2. ASSUME NEW w \in Workers, NEW h \in Hand, Holding(w, h),
             c = hand[w].copy => h.copy = c \/ Stored(c)',
             Stored(c) => Stored(c)' \/ h.copy = c
      PROVE  Firm(j)'
  BY <1>0, <1>2, SolidMove DEF Firm
<1>3. CASE UNCHANGED <<wait, delayed, hand>>
  BY <1>0, <1>3 DEF Firm, Solid, Stored, Waiting
<1>4. ASSUME NEW k \in Jobs, Add(k) PROVE Firm(j)'
  <2>1. [job |-> k, made |-> 0] \in Copies
    BY QueueAssumption DEF Copies
  <2>2. Waiting(c) => Waiting(c)'
    BY <1>1, <1>4, <2>1, PushWaiting DEF Add
  <2> QED
    BY <1>0, <1>4, <2>2 DEF Firm, Solid, Stored, Add
<1>5. ASSUME NEW w \in Workers, ReadDue(w) PROVE Firm(j)'
  <2> DEFINE h == [EmptyHand EXCEPT !.phase = "sweep", !.due = ripe]
  <2>1. h \in Hand /\ Holding(w, h)
    BY <1>5, HandTypes DEF ReadDue, Types, TypeOK
  <2>2. Stored(c) => Stored(c)'
    BY <1>5 DEF ReadDue, Stored, Waiting
  <2>3. hand[w].copy # c
    BY <1>5, NoCopyAssumption DEF ReadDue, Types, HandOK, EmptyHand
  <2> HIDE DEF h
  <2> QED
    BY <1>2, <2>1, <2>2, <2>3
<1>6. ASSUME NEW w \in Workers, RemoveDue(w) PROVE Firm(j)'
  <2>0. hand[w] \in Hand /\ hand[w].copy # c
    BY <1>6, NoCopyAssumption DEF Types, TypeOK, HandOK, RemoveDue
  <2>1. PICK d \in hand[w].due :
          /\ delayed' = delayed \ {d}
          /\ Holding(w, [phase |-> "move", due |-> hand[w].due \ {d}, copy |-> d])
    BY <1>6 DEF RemoveDue
  <2> DEFINE h == [phase |-> "move", due |-> hand[w].due \ {d}, copy |-> d]
  <2>2. h \in Hand /\ h.copy = d
    BY <2>0, HandTypes DEF Hand
  <2>3. Holding(w, h) /\ (Stored(c) => Stored(c)' \/ c = d)
    BY <1>6, <2>1 DEF RemoveDue, Stored, Waiting
  <2> HIDE DEF h
  <2> QED
    BY <1>2, <2>0, <2>2, <2>3
<1>7. ASSUME NEW w \in Workers, PushDue(w) PROVE Firm(j)'
  <2> DEFINE h == [hand[w] EXCEPT !.phase = "sweep", !.copy = NoCopy]
  <2>1. h \in Hand /\ hand[w].copy \in Copies
    BY <1>7, HandTypes DEF PushDue, Types, TypeOK, Hand
  <2>2. Holding(w, h) /\ (Stored(c) \/ c = hand[w].copy => Stored(c)')
    BY <1>1, <1>7, <2>1, PushWaiting DEF PushDue, Stored
  <2> HIDE DEF h
  <2> QED
    BY <1>2, <2>1, <2>2
<1>8. ASSUME NEW w \in Workers, Pop(w) PROVE Firm(j)'
  <2>0. hand[w].copy # c
    BY <1>8, NoCopyAssumption DEF Pop, Types, HandOK
  <2>1. CASE wait = <<>>
    BY <1>0, <1>8, <2>0, <2>1, SolidEmpties DEF Pop, Stored, Waiting, Firm
  <2>2. CASE wait # <<>>
    <3> DEFINE d == wait[Len(wait)]
               h == [EmptyHand EXCEPT !.phase = "run", !.copy = d]
    <3>1. d \in Copies
      BY <1>1, <2>2, PopTypes
    <3>2. h \in Hand /\ h.copy = d
      BY <3>1, HandTypes DEF EmptyHand
    <3>3. Holding(w, h) /\ (Stored(c) => Stored(c)' \/ c = d)
      BY <1>1, <1>8, <2>2, PopWaiting DEF Pop, Stored
    <3> HIDE DEF h
    <3> QED
      BY <1>2, <2>0, <3>2, <3>3
  <2> QED
    BY <2>1, <2>2
<1>9. ASSUME NEW w \in Workers, Finish(w) PROVE Firm(j)' \/ j \in answered'
  <2>1. CASE c = hand[w].copy
    BY <1>0, <1>9, <2>1 DEF Finish
  <2>2. CASE c # hand[w].copy
    BY <1>0, <1>9, <2>2, SolidEmpties DEF Finish, Stored, Waiting, Firm
  <2> QED
    BY <2>1, <2>2
<1>10. ASSUME NEW w \in Workers, Fail(w) PROVE Firm(j)' \/ j \in answered'
  <2>0. hand[w].phase = "run" /\ Holding(w, EmptyHand)
    BY <1>10 DEF Fail
  <2>1. CASE UNCHANGED redis /\ c # hand[w].copy
    BY <1>0, <2>0, <2>1, SolidEmpties DEF Stored, Waiting, Firm
  <2>2. CASE answered' = answered \cup {hand[w].copy.job} /\ c = hand[w].copy
    BY <1>0, <2>2
  <2>3. CASE MayRetry(hand[w].copy) /\ PutBack(Retried(hand[w].copy))
    BY <1>0, <2>0, <2>3, PutBackFirm
  <2> QED
    BY <1>10, <2>1, <2>2, <2>3 DEF Fail
<1>11. ~\E w \in Workers : Crash(w) \/ CommandFails(w)
  BY DEF Crash, CommandFails, Fault, Types, TypeOK
<1>12. CASE UNCHANGED vars \/ \E d \in Copies : Ripen(d)
  BY <1>3, <1>12 DEF vars, Ripen
<1> QED
  BY <1>4, <1>5, <1>6, <1>7, <1>8, <1>9, <1>10, <1>11, <1>12 DEF Next, WorkerStep

\* A fault loosens the job of one copy at most: the one in hand, or the one
\* that a command took out of Redis.
LEMMA FaultLoosens ==
  ASSUME Types, NEW w \in Workers, Crash(w) \/ CommandFails(w)
  PROVE  \E k : \A j : Firm(j) /\ j # k => Firm(j)'
<1> USE DEF redis
<1>0. /\ wait \in Seq(Copies) /\ Holding(w, EmptyHand)
      /\ hand[w].phase \in {"move", "run"} => hand[w].copy \in Copies
      /\ hand[w].phase = "sweep" => hand[w].copy = NoCopy
  BY DEF Types, TypeOK, HandOK, Crash, CommandFails
\* All copies but d stay where they are, or are in the hand of w.
<1>1. ASSUME NEW d, \A c \in Copies \ {d} : Solid(c) => Solid(c)'
      PROVE  \A j : Firm(j) /\ j # d.job => Firm(j)'
  BY <1>1 DEF Firm
<1>2. CASE Crash(w)
  <2>1. \A c \in Copies \ {hand[w].copy} : Solid(c) => Solid(c)'
    BY <1>0, <1>2, SolidEmpties DEF Crash, Stored, Waiting
  <2> QED
    BY <1>1, <2>1
<1>3. CASE CommandFails(w)
  <2>1. CASE hand[w].phase = "sweep" /\ UNCHANGED redis
    <3>1. \A c \in Copies \ {NoCopy} : Solid(c) => Solid(c)'
      BY <1>0, <2>1, SolidEmpties DEF Stored, Waiting
    <3> QED
      BY <1>1, <3>1
  <2>2. ASSUME NEW d \in hand[w].due, hand[w].phase = "sweep",
               delayed' = delayed \ {d}, UNCHANGED wait
        PROVE  \E k : \A j : Firm(j) /\ j # k => Firm(j)'
    <3>1. \A c \in Copies \ {d} : Solid(c) => Solid(c)'
      BY <1>0, <2>2, SolidEmpties, NoCopyAssumption DEF Stored, Waiting
    <3> QED
      BY <1>1, <3>1
  <2>3. CASE hand[w].phase = "sweep" /\ wait # <<>> /\ wait' = Popped /\ UNCHANGED delayed
    <3> DEFINE d == wait[Len(wait)]
    <3>1. \A c \in Copies \ {d} : Stored(c) => Stored(c)'
      BY <1>0, <2>3, PopWaiting DEF Stored
    <3>2. \A c \in Copies \ {d} : Solid(c) => Solid(c)'
      BY <1>0, <2>3, <3>1, SolidEmpties, NoCopyAssumption
    <3> HIDE DEF d
    <3> QED
      BY <1>1, <3>2
  <2>4. CASE hand[w].phase = "move" /\ Push(hand[w].copy) /\ UNCHANGED delayed
    <3>1. \A c \in Copies : Stored(c) \/ c = hand[w].copy => Stored(c)'
      BY <1>0, <2>4, PushWaiting DEF Stored
    <3>2. \A c \in Copies : Solid(c) => Solid(c)'
      BY <1>0, <3>1, SolidEmpties DEF Solid
    <3> QED
      BY <3>2 DEF Firm
  <2>5. CASE hand[w].phase = "run" /\ MayRetry(hand[w].copy) /\ PutBack(Retried(hand[w].copy))
    <3>1. \A c \in Copies : Solid(c) => Firm(c.job)'
      BY <1>0, <2>5, PutBackFirm
    <3> QED
      BY <3>1 DEF Firm
  <2> QED
    BY <1>3, <2>1, <2>2, <2>3, <2>4, <2>5 DEF CommandFails
<1> QED
  BY <1>2, <1>3

\* What a fault does to the jobs: nothing is added and nothing answered.
LEMMA FaultCounts ==
  ASSUME Types, NEW w \in Workers, Crash(w) \/ CommandFails(w)
  PROVE  added' = added /\ answered' = answered /\ faults' = faults + 1
BY DEF Crash, CommandFails, Fault

\* A step is a fault, or counts none.
LEMMA FaultOrNot ==
  ASSUME Types, [Next]_vars
  PROVE  faults' = faults \/ \E w \in Workers : Crash(w) \/ CommandFails(w)
BY DEF Next, vars, Add, Ripen, WorkerStep, ReadDue, RemoveDue, PushDue, Pop, Finish, Fail

LEMMA DeliveryInvInit == Init => DeliveryInv
<1> SUFFICES ASSUME Init PROVE DeliveryInv
  OBVIOUS
<1>1. CopiesAdded
  BY NoCopyAssumption DEF Init, CopiesAdded, Found, Waiting, InHandOf, EmptyHand
<1>2. answered = {} /\ Stray = {} /\ faults = 0
  BY DEF Init, Stray
<1> QED
  BY <1>1, <1>2, FS_EmptySet DEF DeliveryInv, StrayBounded

LEMMA DeliveryInvNext == Types /\ DeliveryInv /\ [Next]_vars => DeliveryInv'
<1> SUFFICES ASSUME Types, DeliveryInv, [Next]_vars PROVE DeliveryInv'
  OBVIOUS
<1> USE DEF DeliveryInv
<1>1. CopiesAdded'
  <2> SUFFICES ASSUME NEW c \in Found' PROVE c.job \in added'
    BY DEF CopiesAdded
  <2>1. CASE c \in Found
    BY <2>1, JobsGrow DEF CopiesAdded
  <2>2. CASE c.job \in Jobs /\ Add(c.job)
    BY <2>2 DEF Add
  <2>3. ASSUME NEW d \in Found, MayRetry(d), c = Retried(d) PROVE c.job \in added'
    BY <2>3, RetriedType, JobsGrow DEF CopiesAdded, Found
  <2> QED
    BY <2>1, <2>2, <2>3, NewCopies
<1>0. answered' \subseteq added'
  <2>1. ASSUME NEW w \in Workers, hand[w].phase = "run", answered' \subseteq answered \cup {hand[w].copy.job}
        PROVE  answered' \subseteq added'
    <3>1. hand[w].copy \in Found
      BY <2>1 DEF Types, TypeOK, Found, InHandOf
    <3> QED
      BY <2>1, <3>1, JobsGrow DEF CopiesAdded
  <2>2. ASSUME answered' = answered PROVE answered' \subseteq added'
    BY <2>2, JobsGrow
  <2> QED
    BY <2>1, <2>2 DEF Next, vars, Add, Ripen, WorkerStep, ReadDue, RemoveDue, PushDue, Pop, Finish,
       Fail, Crash, CommandFails
\* A job that has just been added is firm.
<1>2. ASSUME NEW j \in added', j \notin added PROVE Firm(j)'
  <2>1. PICK c \in Found' : c.job = j
    BY <1>2, JobsGrow
  <2>2. j \in Jobs /\ Add(j)
    BY <1>2 DEF Next, vars, Add, Ripen, WorkerStep, ReadDue, RemoveDue, PushDue, Pop, Finish, Fail,
         Crash, CommandFails
  <2>3. [job |-> j, made |-> 0] \in Copies /\ wait \in Seq(Copies)
    BY <2>2, QueueAssumption DEF Copies, Types, TypeOK
  <2>4. Waiting([job |-> j, made |-> 0])'
    BY <2>2, <2>3, PushWaiting DEF Add
  <2> QED
    BY <2>3, <2>4 DEF Firm, Solid, Stored
<1>3. faults \in Nat /\ IsFiniteSet(Stray) /\ Cardinality(Stray) <= faults
  BY DEF Types, TypeOK, StrayBounded
<1>4. ASSUME faults' = faults PROVE StrayBounded'
  <2>1. Stray' \in SUBSET Stray
    BY <1>2, <1>4, FirmStays, JobsGrow DEF Stray
  <2>2. IsFiniteSet(Stray') /\ Cardinality(Stray') <= Cardinality(Stray)
    BY <1>3, <2>1, FS_Subset
  <2>3. Cardinality(Stray) \in Nat /\ Cardinality(Stray') \in Nat
    BY <1>3, <2>2, FS_CardinalityType
  <2> QED
    BY <1>3, <1>4, <2>2, <2>3 DEF StrayBounded
<1>5. ASSUME NEW w \in Workers, Crash(w) \/ CommandFails(w) PROVE StrayBounded'
  <2>1. PICK k : \A j : Firm(j) /\ j # k => Firm(j)'
    BY <1>5, FaultLoosens
  <2>2. added' = added /\ answered' = answered /\ faults' = faults + 1
    BY <1>5, FaultCounts
  <2>3. Stray' \subseteq Stray \cup {k}
    BY <2>1, <2>2 DEF Stray
  <2>4. /\ IsFiniteSet(Stray \cup {k})
        /\ Cardinality(Stray \cup {k}) \in Nat
        /\ Cardinality(Stray \cup {k}) <= faults + 1
    <3>1. /\ IsFiniteSet(Stray \cup {k})
          /\ Cardinality(Stray \cup {k}) = Cardinality(Stray)
             \/ Cardinality(Stray \cup {k}) = Cardinality(Stray) + 1
      BY <1>3, FS_AddElement
    <3>2. Cardinality(Stray) \in Nat
      BY <1>3, FS_CardinalityType
    <3> QED
      BY <1>3, <3>1, <3>2
  <2>5. IsFiniteSet(Stray') /\ Cardinality(Stray') <= Cardinality(Stray \cup {k})
    BY <2>3, <2>4, FS_Subset
  <2>6. Cardinality(Stray') \in Nat
    BY <2>5, FS_CardinalityType
  <2> QED
    BY <1>3, <2>2, <2>4, <2>5, <2>6 DEF StrayBounded
<1> QED
  BY <1>0, <1>1, <1>4, <1>5, FaultOrNot

\* A job of which there is a copy.
Live(j) == \E c \in Found : c.job = j

LEMMA StatusOf ==
  ASSUME Types, NEW j
  PROVE  Status(j) = IF j \in answered THEN "answered"
                     ELSE IF j \notin added THEN "new"
                     ELSE IF Live(j) THEN "live" ELSE "lost"
<1>1. (\E c \in Everywhere : c.job = j) <=> Live(j)
  BY EverywhereFound DEF Live
<1> QED
  BY <1>1 DEF Status

LEMMA StatusNext ==
  ASSUME Types', NEW j
  PROVE  Status(j)' = IF j \in answered' THEN "answered"
                      ELSE IF j \notin added' THEN "new"
                      ELSE IF Live(j)' THEN "live" ELSE "lost"
<1>1. (\E c \in Everywhere' : c.job = j) <=> Live(j)'
  BY NextFound DEF Live
<1> QED
  BY <1>1 DEF Status

\* No job comes to life but by Add, and none dies but by an answer or a fault.
LEMMA LifeGoesOn ==
  ASSUME Types, [Next]_vars, NEW j
  PROVE  /\ Live(j)' => Live(j) \/ (j \in Jobs /\ Add(j))
         /\ Live(j) /\ faults' = faults => Live(j)' \/ j \in answered'
<1>1. ASSUME NEW c \in Found', c.job = j PROVE Live(j) \/ (j \in Jobs /\ Add(j))
  <2>1. ASSUME NEW d \in Found, MayRetry(d), c = Retried(d) PROVE Live(j)
    BY <1>1, <2>1, RetriedType DEF Found, Live
  <2> QED
    BY <1>1, <2>1, NewCopies DEF Live
<1> QED
  BY <1>1, KeptCopies DEF Live

LEMMA StatusType == \A j : Status(j) \in {"new", "live", "answered", "lost"}
BY DEF Status

\* A step that is no fault, and neither adds nor answers, changes no status.
LEMMA StatusStays ==
  ASSUME Types, [Next]_vars, UNCHANGED <<added, faults>>, NEW j, j \in answered' <=> j \in answered
  PROVE  Status(j)' = Status(j)
<1>1. ~Add(j)
  BY DEF Add
<1>2. j \notin answered => (Live(j)' <=> Live(j))
  BY <1>1, LifeGoesOn
<1> QED
  BY <1>2, StatusOf, StatusNext, TypesNext

\* The jobs' statuses, as JobDelivery sees them
Seen == [j \in Jobs |-> Status(j)]

LEMMA DeliveryStep ==
  ASSUME Types, DeliveryInv, DeliveryInv', [Next]_vars
  PROVE  Delivery!Next \/ UNCHANGED <<Seen, faults>>
<1> USE DEF DeliveryInv
<1>0. Types'
  BY TypesNext
<1>1. Seen' = [j \in Jobs |-> Status(j)']
  BY DEF Seen
\* A job that is added becomes live.
<1>2. ASSUME NEW j \in Jobs, Add(j) PROVE Delivery!Add(j)
  <2>1. added' = added \cup {j} /\ j \notin added /\ UNCHANGED <<answered, faults>>
    BY <1>2 DEF Add
  <2>2. Status(j) = "new"
    BY <2>1, StatusOf
  <2>3. Live(j)'
    BY <2>1, JobsGrow DEF Live
  <2>4. Status(j)' = "live"
    BY <1>0, <2>1, <2>3, StatusNext
  <2>5. ASSUME NEW k, k # j PROVE Status(k)' = Status(k)
    <3>1. ~Add(k)
      BY <2>1, <2>5 DEF Add
    <3>2. k \notin answered => (Live(k)' <=> Live(k))
      BY <2>1, <3>1, LifeGoesOn
    <3> QED
      BY <1>0, <2>1, <2>5, <3>2, StatusOf, StatusNext
  <2>6. Seen' = [Seen EXCEPT ![j] = "live"]
    BY <1>1, <2>4, <2>5 DEF Seen
  <2> QED
    BY <2>1, <2>2, <2>6 DEF Delivery!Add, Seen
\* The processor's answer, unless another worker's came first.
<1>3. ASSUME NEW w \in Workers, hand[w].phase = "run", UNCHANGED <<added, faults>>,
             answered' = answered \cup {hand[w].copy.job}
      PROVE  (\E j \in Jobs : Delivery!Answer(j)) \/ UNCHANGED <<Seen, faults>>
  <2>0. hand[w].copy \in Found
    BY <1>3 DEF Types, TypeOK, Found, InHandOf
  <2>1. PICK j \in Jobs : j = hand[w].copy.job /\ Live(j) /\ j \in added
    BY <2>0 DEF Live, Found, Copies, CopiesAdded
  <2>2. ASSUME NEW k, k # j PROVE Status(k)' = Status(k)
    BY <1>3, <2>1, <2>2, StatusStays
  <2>3. Status(j)' = "answered"
    BY <1>0, <1>3, <2>1, StatusNext
  <2>4. CASE j \in answered
    <3>1. Status(j) = "answered"
      BY <2>4, StatusOf
    <3> QED
      BY <1>1, <1>3, <2>2, <2>3, <3>1 DEF Seen
  <2>5. CASE j \notin answered
    <3>1. Status(j) = "live"
      BY <2>1, <2>5, StatusOf
    <3>2. Seen' = [Seen EXCEPT ![j] = "answered"]
      BY <1>1, <2>2, <2>3 DEF Seen
    <3>3. Delivery!Answer(j)
      BY <1>3, <2>1, <3>1, <3>2 DEF Delivery!Answer, Seen
    <3> QED
      BY <2>1, <3>3
  <2> QED
    BY <2>4, <2>5
\* A fault takes what hung by it.
<1>4. ASSUME NEW w \in Workers, Crash(w) \/ CommandFails(w) PROVE Delivery!Fault
  <2>1. added' = added /\ answered' = answered /\ faults' = faults + 1
    BY <1>4, FaultCounts
  <2>2. \A j : Live(j)' => Live(j)
    BY <2>1, LifeGoesOn DEF Add
  <2> DEFINE gone == {j \in Jobs : Status(j) = "live" /\ ~Live(j)'}
  <2>3. gone \in SUBSET Delivery!InState("live")
    BY DEF Delivery!InState
  <2>4. \A j \in Jobs : Status(j)' = IF j \in gone THEN "lost" ELSE Status(j)
    BY <1>0, <2>1, <2>2, StatusOf, StatusNext
  <2>5. Seen' = [j \in Jobs |-> IF j \in gone THEN "lost" ELSE Seen[j]]
    BY <1>1, <2>4 DEF Seen
  <2>6. Delivery!InState("lost")' \in SUBSET Stray'
    <3> SUFFICES ASSUME NEW j \in Jobs, Status(j)' = "lost" PROVE j \in Stray'
      BY DEF Delivery!InState
    <3>1. j \in added' /\ j \notin answered' /\ ~Live(j)'
      BY <1>0, StatusNext
    <3>2. ~Firm(j)'
      BY <3>1 DEF Live, Found, Firm, Solid, Stored, InHandOf
    <3> QED
      BY <3>1, <3>2 DEF Stray
  <2>7. Cardinality(Delivery!InState("lost")') <= faults'
    <3>1. IsFiniteSet(Stray') /\ Cardinality(Stray') <= faults' /\ faults' \in Nat
      BY <1>0 DEF StrayBounded, Types, TypeOK
    <3>2. /\ IsFiniteSet(Delivery!InState("lost")')
          /\ Cardinality(Delivery!InState("lost")') <= Cardinality(Stray')
      BY <2>6, <3>1, FS_Subset
    <3>3. Cardinality(Delivery!InState("lost")') \in Nat /\ Cardinality(Stray') \in Nat
      BY <3>1, <3>2, FS_CardinalityType
    <3> QED
      BY <3>1, <3>2, <3>3
  <2>8. Delivery!Cardinality(Delivery!InState("lost")') <= faults'
    BY <2>7 DEF Delivery!Cardinality, Cardinality
  <2> QED
    BY <2>1, <2>3, <2>5, <2>8 DEF Delivery!Fault, Seen
\* What moves copies only changes nothing.
<1>5. ASSUME UNCHANGED <<added, answered, faults>> PROVE UNCHANGED <<Seen, faults>>
  BY <1>1, <1>5, StatusStays DEF Seen
<1>6. ASSUME NEW w \in Workers, Finish(w) \/ Fail(w)
      PROVE  Delivery!Next \/ UNCHANGED <<Seen, faults>>
  BY <1>3, <1>5, <1>6 DEF Finish, Fail, Delivery!Next
<1>7. ASSUME NEW w \in Workers, ReadDue(w) \/ RemoveDue(w) \/ PushDue(w) \/ Pop(w)
      PROVE  UNCHANGED <<added, answered, faults>>
  BY <1>7 DEF ReadDue, RemoveDue, PushDue, Pop
<1>8. CASE UNCHANGED vars \/ \E c \in Copies : Ripen(c)
  BY <1>5, <1>8 DEF vars, Ripen
<1> QED
  BY <1>2, <1>4, <1>5, <1>6, <1>7, <1>8 DEF Next, WorkerStep, Delivery!Next

\* The queue keeps what it promises to the code that enqueues: seen from there,
\* every step of a worker, of the clock and of Redis is a job that is added, an
\* answer, a fault, or nothing, and n faults lose at most n jobs, whatever the
\* sweeps have read and moved (bullmq-lite.ts:110-189).
THEOREM DeliversSafely == Spec => Delivery!Safety
<1>1. Init => Delivery!Init
  <2> SUFFICES ASSUME Init PROVE Delivery!Init
    OBVIOUS
  <2>1. \A j : Status(j) = "new"
    BY DEF Init, Status
  <2> QED
    BY <2>1 DEF Init, Delivery!Init
<1>2. Types /\ DeliveryInv /\ DeliveryInv' /\ [Next]_vars 
      => [Delivery!Next]_<<[j \in Jobs |-> Status(j)], faults>>
  BY DeliveryStep DEF Seen
<1>3. Spec => []Types
  BY TypesInit, TypesNext, PTL DEF Spec
<1>4. Spec => []DeliveryInv
  BY <1>3, DeliveryInvInit, DeliveryInvNext, PTL DEF Spec
<1> QED
  BY <1>1, <1>2, <1>3, <1>4, PTL DEF Spec, Delivery!Safety
=============================================================================
