---------------------------- MODULE JobDelivery ----------------------------
(***************************************************************************)
(* What the job queue promises to the code that enqueues: every job is     *)
(* answered at least once, by a processor that returns or by a final       *)
(* failure, unless faults take it; n faults lose at most n jobs.           *)
(***************************************************************************)
EXTENDS Integers, FiniteSets

CONSTANT Jobs

VARIABLES status, faults

States == {"new", "live", "answered", "lost"}
InState(s) == {j \in Jobs : status[j] = s}

Init == /\ status = [j \in Jobs |-> "new"]
        /\ faults = 0

Add(j) == /\ status[j] = "new"
          /\ status' = [status EXCEPT ![j] = "live"]
          /\ UNCHANGED faults

Answer(j) == /\ status[j] = "live"
             /\ status' = [status EXCEPT ![j] = "answered"]
             /\ UNCHANGED faults

\* A fault, with the jobs that are lost by it, if any.
Fault == /\ faults' = faults + 1
         /\ \E gone \in SUBSET InState("live") :
              status' = [j \in Jobs |-> IF j \in gone THEN "lost" ELSE status[j]]
         /\ Cardinality(InState("lost")') <= faults'

Next == Fault \/ \E j \in Jobs : Add(j) \/ Answer(j)

\* What no job ever does, whatever becomes of it in the end.
Safety == Init /\ [][Next]_<<status, faults>>

Spec == /\ Safety
        /\ \A j \in Jobs : WF_<<status, faults>>(Answer(j))
=============================================================================
