----------------------------- MODULE EmbedPromise -----------------------------
(***************************************************************************)
(* What the embed queue promises to the captures that enqueue jobs, with   *)
(* leases, clocks, retries and crashes left out: at most QueueDepth jobs   *)
(* are open at a time, and each is settled once, as done or as dead.       *)
(***************************************************************************)
EXTENDS Integers, FiniteSets

CONSTANTS
    JobIds,         \* rowids of the jobs table
    QueueDepth      \* caps.queue_depth_max

VARIABLE outcome    \* what is known of each job

Open == {j \in JobIds : outcome[j] = "open"}

Init == outcome = [j \in JobIds |-> "none"]

Enqueue(j) ==
    /\ outcome[j] = "none"
    /\ Cardinality(Open) < QueueDepth
    /\ outcome' = [outcome EXCEPT ![j] = "open"]

Settle(j) ==
    /\ outcome[j] = "open"
    /\ \E o \in {"done", "dead"} : outcome' = [outcome EXCEPT ![j] = o]

Next == \E j \in JobIds : Enqueue(j) \/ Settle(j)

SafeSpec == Init /\ [][Next]_outcome

Spec == SafeSpec /\ \A j \in JobIds : WF_outcome(Settle(j))

=============================================================================
