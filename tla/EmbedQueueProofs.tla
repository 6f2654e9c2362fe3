--------------------------- MODULE EmbedQueueProofs ---------------------------
(***************************************************************************)
(* Proofs about the embed queue, for every value of its constants.         *)
(***************************************************************************)
EXTENDS EmbedQueue, FiniteSetTheorems, TLAPS

(* The deferral of a failed job is a natural number of clock units.        *)
LEMMA BackoffNat ==
    ASSUME NEW a \in Nat
    PROVE  Backoff(a) \in Nat
<1>1. BackoffExponent(a) \in 0..16
  BY DEF BackoffExponent
<1>2. 2^BackoffExponent(a) \in Nat
  BY <1>1, ShiftAssumption
<1> QED
  BY <1>2, CapsAssumption DEF Backoff

(* Clamping keeps a deadline within the clock's range.                     *)
LEMMA SaturateTime ==
    ASSUME NEW t \in Nat
    PROVE  Saturate(t) \in Time
  BY BoundsAssumption DEF Saturate, Time

(* Claiming keeps a job row well-typed and the event it names.             *)
LEMMA ClaimedRow ==
    ASSUME NEW j \in JobIds, jobs[j] \in JobRow, NEW t \in Time
    PROVE  Claimed(j, t) \in JobRow /\ Claimed(j, t).event = jobs[j].event
<1>1. "running" \in JobStates
  BY DEF JobStates
<1>2. jobs[j].attempts \in Nat /\ jobs[j].attempts + 1 \in Nat
  BY DEF JobRow
<1> DEFINE r == jobs[j]
           c == [r EXCEPT !.state = "running", !.started = t, !.attempts = @ + 1]
<1>3. r \in JobRow /\ r.attempts + 1 \in Nat /\ Claimed(j, t) = c
  BY <1>2 DEF Claimed
<1> HIDE DEF r
<1>4. c \in JobRow /\ c.event = r.event
  BY <1>1, <1>3 DEF JobRow
<1> QED
  BY <1>3, <1>4 DEF r

(* A capture keeps the types: the new rows are well-typed.                 *)
LEMMA CaptureType ==
    ASSUME TypeOK, CaptureEvent
    PROVE  TypeOK'
<1> USE BoundsAssumption
<1>1. PICK e \in EventIds :
         \/ \E j \in JobIds :
               /\ rawEvents' = [rawEvents EXCEPT ![e] = NewEvent(j)]
               /\ jobs' = [jobs EXCEPT ![j] = NewJob(e)]
         \/ /\ rawEvents' = [rawEvents EXCEPT ![e] = NewEvent(0)]
            /\ UNCHANGED jobs
  BY DEF CaptureEvent
<1>2. captured' \in 0..MaxCaptures
  BY DEF CaptureEvent, TypeOK
<1>3. \A j \in 0..MaxCaptures : NewEvent(j) \in EventRow
  BY DEF NewEvent, CaptureEvent, Contents, EventRow, TypeOK
<1>4. NewJob(e) \in JobRow /\ NewJob(e).event \in EventIds
  BY DEF NewJob, JobRow, JobStates, Time, EventIds, TypeOK
<1>5. CASE \E j \in JobIds :
              /\ rawEvents' = [rawEvents EXCEPT ![e] = NewEvent(j)]
              /\ jobs' = [jobs EXCEPT ![j] = NewJob(e)]
  <2>1. PICK j \in JobIds :
            /\ rawEvents' = [rawEvents EXCEPT ![e] = NewEvent(j)]
            /\ jobs' = [jobs EXCEPT ![j] = NewJob(e)]
    BY <1>5
  <2>2. j \in 0..MaxCaptures
    BY DEF JobIds
  <2>3. \A v \in Workers : \A l \in batch[v] : jobs'[l.job].state # "absent"
    BY <2>1 DEF NewJob, TypeOK, Lease
  <2>4. /\ rawEvents' \in [EventIds -> EventRow]
        /\ jobs' \in [JobIds -> JobRow]
        /\ \A k \in JobIds :
              jobs'[k].state # "absent" => jobs'[k].event \in EventIds
    BY <1>3, <1>4, <2>1, <2>2 DEF TypeOK
  <2> QED
    BY <1>2, <2>3, <2>4 DEF CaptureEvent, TypeOK
<1>6. CASE /\ rawEvents' = [rawEvents EXCEPT ![e] = NewEvent(0)]
           /\ UNCHANGED jobs
  BY <1>2, <1>3, <1>6 DEF CaptureEvent, TypeOK
<1> QED
  BY <1>1, <1>5, <1>6

(* A lease keeps the types: it copies what the claimed rows name.          *)
LEMMA LeaseType ==
    ASSUME TypeOK, NEW w \in Workers, LeaseEmbedJobs(w)
    PROVE  TypeOK'
<1>1. PICK S \in SUBSET JobIds :
         /\ IsClaim(S, tickNow[w])
         /\ jobs' = [j \in JobIds |->
               IF j \in S THEN Claimed(j, tickNow[w]) ELSE jobs[j]]
         /\ batch' = [batch EXCEPT ![w] = {Leased(j) : j \in S}]
         /\ phase' = [phase EXCEPT ![w] =
               IF S = {} THEN "idle" ELSE "embedding"]
  BY DEF LeaseEmbedJobs
<1>2. ASSUME NEW j \in S
      PROVE  /\ Leased(j) \in Lease
             /\ Claimed(j, tickNow[w]) \in JobRow
             /\ Claimed(j, tickNow[w]).event \in EventIds
  <2>1. jobs[j].event \in EventIds
    BY <1>1 DEF IsClaim, ReadyJobs, Ready, TypeOK
  <2>2. jobs[j] \in JobRow /\ tickNow[w] \in Time
    BY DEF TypeOK
  <2>3. rawEvents[jobs[j].event].content \in Contents
    BY <2>1 DEF TypeOK, EventRow
  <2>4. jobs[j].attempts + 1 \in Nat
    BY <2>2 DEF JobRow
  <2> QED
    BY <2>1, <2>2, <2>3, <2>4, ClaimedRow DEF Leased, Lease
<1>3. /\ jobs' \in [JobIds -> JobRow]
      /\ \A j \in JobIds :
            jobs'[j].state # "absent" => jobs'[j].event \in EventIds
  BY <1>1, <1>2 DEF TypeOK
<1>4. batch' \in [Workers -> SUBSET Lease]
  BY <1>1, <1>2 DEF TypeOK
<1>5. \A j \in JobIds : jobs[j].state # "absent" => jobs'[j].state # "absent"
  BY <1>1 DEF Claimed, TypeOK, JobRow
<1>6. \A j \in S : Leased(j).job = j /\ jobs'[j].state # "absent"
  BY <1>1 DEF Claimed, Leased, TypeOK, JobRow
<1>7. \A v \in Workers : \A l \in batch'[v] : jobs'[l.job].state # "absent"
  <2> TAKE v \in Workers
  <2> TAKE l \in batch'[v]
  <2>1. CASE v = w
    <3>1. l \in {Leased(j) : j \in S}
      BY <1>1, <2>1 DEF TypeOK
    <3> QED
      BY <1>6, <3>1
  <2>2. CASE v # w
    BY <1>1, <1>5, <2>2 DEF TypeOK, Lease
  <2> QED
    BY <2>1, <2>2
<1> QED
  BY <1>1, <1>3, <1>4, <1>7 DEF LeaseEmbedJobs, TypeOK

(* Settling a lease, either way, keeps the types.                          *)
LEMMA SettleType ==
    ASSUME TypeOK, NEW w \in Workers, NEW l \in batch[w], Drop(w, l),
           NEW r \in JobRow, r.state # "absent", r.event = jobs[l.job].event,
           jobs' = [jobs EXCEPT ![l.job] = r]
    PROVE  /\ jobs' \in [JobIds -> JobRow]
           /\ \A j \in JobIds :
                 jobs'[j].state # "absent" => jobs'[j].event \in EventIds
           /\ batch' \in [Workers -> SUBSET Lease]
           /\ phase' \in [Workers -> {"idle", "leasing", "embedding"}]
           /\ \A v \in Workers : \A k \in batch'[v] :
                 jobs'[k.job].state # "absent"
<1>1. l \in Lease /\ l.job \in JobIds
  BY DEF TypeOK, Lease
<1>2. jobs[l.job].event \in EventIds
  BY <1>1 DEF TypeOK
<1>3. \A v \in Workers : batch'[v] \subseteq batch[v]
  BY DEF Drop, TypeOK
<1>4. \A v \in Workers : \A k \in batch[v] : jobs'[k.job].state # "absent"
  BY <1>1 DEF TypeOK, Lease
<1> QED
  BY <1>1, <1>2, <1>3, <1>4 DEF Drop, TypeOK

LEMMA CompleteType ==
    ASSUME TypeOK, NEW w \in Workers, CompleteEmbedJob(w)
    PROVE  TypeOK'
<1>1. PICK l \in batch[w] :
         /\ embeddings' = [embeddings EXCEPT ![l.event] = l.content]
         /\ usage' = [usage EXCEPT ![l.job] = @ + 1]
         /\ jobs' = [jobs EXCEPT ![l.job].state = "done"]
         /\ Drop(w, l)
  BY DEF CompleteEmbedJob
<1> DEFINE r == [jobs[l.job] EXCEPT !.state = "done"]
<1>2. /\ l.job \in JobIds
      /\ l.event \in EventIds
      /\ l.content \in Contents
      /\ jobs[l.job] \in JobRow
  BY DEF TypeOK, Lease
<1>3. r \in JobRow /\ r.event = jobs[l.job].event /\ r.state # "absent"
  BY <1>2 DEF JobRow, JobStates
<1>4. jobs' = [jobs EXCEPT ![l.job] = r]
  BY <1>1
<1>5. embeddings' \in [EventIds -> Contents \cup {NoVector}]
  BY <1>1, <1>2 DEF TypeOK
<1>6. usage' \in [JobIds -> Nat]
  BY <1>1, <1>2 DEF TypeOK
<1> HIDE DEF r
<1>7. /\ jobs' \in [JobIds -> JobRow]
      /\ \A j \in JobIds :
            jobs'[j].state # "absent" => jobs'[j].event \in EventIds
      /\ batch' \in [Workers -> SUBSET Lease]
      /\ phase' \in [Workers -> {"idle", "leasing", "embedding"}]
      /\ \A v \in Workers : \A k \in batch'[v] :
            jobs'[k.job].state # "absent"
  BY <1>1, <1>3, <1>4, SettleType
<1> QED
  BY <1>5, <1>6, <1>7 DEF CompleteEmbedJob, TypeOK

LEMMA FailType ==
    ASSUME TypeOK, NEW w \in Workers, FailJob(w)
    PROVE  TypeOK'
<1>1. PICK l \in batch[w] :
         /\ \/ jobs' = [jobs EXCEPT ![l.job].state = "dead"]
            \/ jobs' = [jobs EXCEPT
                  ![l.job].state = "deferred",
                  ![l.job].scheduled =
                      Saturate(tickNow[w] + Backoff(l.attempts))]
         /\ Drop(w, l)
  BY DEF FailJob
<1> DEFINE due == Saturate(tickNow[w] + Backoff(l.attempts))
<1>2. /\ l.job \in JobIds
      /\ l.attempts \in Nat
      /\ jobs[l.job] \in JobRow
      /\ tickNow[w] \in Nat
  BY BoundsAssumption DEF TypeOK, Lease, Time
<1>3. due \in Time
  BY <1>2, BackoffNat, SaturateTime
<1> HIDE DEF due
<1>4. PICK r \in JobRow :
         /\ r.event = jobs[l.job].event
         /\ r.state # "absent"
         /\ jobs' = [jobs EXCEPT ![l.job] = r]
  <2>1. CASE jobs' = [jobs EXCEPT ![l.job].state = "dead"]
    <3> DEFINE r == [jobs[l.job] EXCEPT !.state = "dead"]
    <3>1. r \in JobRow /\ r.event = jobs[l.job].event /\ r.state # "absent"
      BY <1>2 DEF JobRow, JobStates
    <3> QED
      BY <2>1, <3>1
  <2>2. CASE jobs' = [jobs EXCEPT ![l.job].state = "deferred",
                                  ![l.job].scheduled = due]
    <3> DEFINE r == [jobs[l.job] EXCEPT !.state = "deferred",
                                        !.scheduled = due]
    <3>1. r \in JobRow /\ r.event = jobs[l.job].event /\ r.state # "absent"
      BY <1>2, <1>3 DEF JobRow, JobStates
    <3>2. jobs' = [jobs EXCEPT ![l.job] = r]
      BY <1>2, <2>2 DEF TypeOK
    <3> QED
      BY <3>1, <3>2
  <2> QED
    BY <1>1, <2>1, <2>2 DEF due
<1> QED
  BY <1>1, <1>4, SettleType DEF FailJob, TypeOK

-----------------------------------------------------------------------------
(* Every step keeps the types.                                             *)
LEMMA TypeStep == TypeOK /\ [Next]_vars => TypeOK'
<1> SUFFICES ASSUME TypeOK, [Next]_vars
             PROVE  TypeOK'
  OBVIOUS
<1>1. CASE Tick
  BY <1>1, BoundsAssumption DEF Tick, Time, TypeOK
<1>2. CASE CaptureEvent
  BY <1>2, CaptureType
<1>3. CASE ConsolidatePending
  <2>1. PICK S \in SUBSET Live :
           rawEvents' = [e \in EventIds |->
              IF e \in S THEN [rawEvents[e] EXCEPT !.consolidated = TRUE]
                         ELSE rawEvents[e]]
    BY <1>3 DEF ConsolidatePending
  <2>2. \A r \in EventRow : [r EXCEPT !.consolidated = TRUE] \in EventRow
    BY DEF EventRow
  <2>3. rawEvents' \in [EventIds -> EventRow]
    BY <2>1, <2>2 DEF TypeOK
  <2> QED
    BY <1>3, <2>3 DEF ConsolidatePending, TypeOK
<1>4. CASE RetainExpired
  <2>1. PICK del, emb :
           /\ rawEvents' = [e \in EventIds |->
                 IF e \in del THEN NoEvent ELSE rawEvents[e]]
           /\ embeddings' = [e \in EventIds |->
                 IF e \in del \cup emb THEN NoVector ELSE embeddings[e]]
    BY <1>4 DEF RetainExpired
  <2>2. NoEvent \in EventRow
    BY BoundsAssumption DEF NoEvent, EventRow, Contents, EmptyText
  <2>3. rawEvents' \in [EventIds -> EventRow]
    BY <2>1, <2>2 DEF TypeOK
  <2>4. embeddings' \in [EventIds -> Contents \cup {NoVector}]
    BY <2>1 DEF TypeOK
  <2> QED
    BY <1>4, <2>3, <2>4 DEF RetainExpired, TypeOK
<1>5. ASSUME NEW w \in Workers, StartTick(w)
      PROVE  TypeOK'
  BY <1>5 DEF StartTick, TypeOK
<1>6. ASSUME NEW w \in Workers, LeaseEmbedJobs(w)
      PROVE  TypeOK'
  BY <1>6, LeaseType
<1>7. ASSUME NEW w \in Workers, CompleteEmbedJob(w)
      PROVE  TypeOK'
  BY <1>7, CompleteType
<1>8. ASSUME NEW w \in Workers, FailJob(w)
      PROVE  TypeOK'
  BY <1>8, FailType
<1>9. ASSUME NEW w \in Workers, Abandon(w)
      PROVE  TypeOK'
  BY <1>9, BoundsAssumption DEF Abandon, TypeOK
<1>10. CASE UNCHANGED vars
  BY <1>10 DEF vars, TypeOK
<1> QED
  BY <1>1, <1>2, <1>3, <1>4, <1>5, <1>6, <1>7, <1>8, <1>9, <1>10
  DEF Next, WorkerStep

(* Type correctness: every table row, lease and clock reading stays in its *)
(* range, and every job row names an event id, through every interleaving. *)
THEOREM TypeCorrect == Spec => []TypeOK
<1>1. Init => TypeOK
  BY BoundsAssumption, CapsAssumption
  DEF Init, TypeOK, EventRow, JobRow, Time, EventIds, JobIds, Contents,
      JobStates, NoEvent, NoJob, EmptyText
<1> QED
  BY <1>1, TypeStep, PTL DEF Spec

-----------------------------------------------------------------------------
(* One worker.                                                             *)

LEMMA ActiveFinite ==
    ASSUME TypeOK
    PROVE  IsFiniteSet(ActiveJobs) /\ Cardinality(ActiveJobs) \in Nat
<1>1. IsFiniteSet(JobIds)
  BY BoundsAssumption, FS_Interval DEF JobIds
<1>2. ActiveJobs \in SUBSET JobIds
  BY DEF ActiveJobs
<1> QED
  BY <1>1, <1>2, FS_Subset, FS_CardinalityType

(* Steps that leave the jobs and the leases alone keep the invariant.      *)
LEMMA FrameStep ==
    ASSUME OneWorkerInv, TypeOK', UNCHANGED <<jobs, batch, abandons>>,
           \A w \in Workers : phase'[w] = phase[w] \/ batch[w] = {}
    PROVE  OneWorkerInv'
  BY DEF OneWorkerInv, LeasesSound, LeasesCurrent, AttemptsLeft,
         AttemptsBounded, QueueBounded, ActiveJobs, Holders

LEMMA CaptureStep ==
    ASSUME OneWorkerInv, TypeOK', CaptureEvent
    PROVE  OneWorkerInv'
<1>1. CASE UNCHANGED jobs
  BY <1>1, FrameStep DEF CaptureEvent
<1>2. CASE \E j \in JobIds, e \in EventIds :
              HasRoom /\ IsNextJobId(j) /\ jobs' = [jobs EXCEPT ![j] = NewJob(e)]
  <2>1. PICK j \in JobIds, e \in EventIds :
            HasRoom /\ IsNextJobId(j) /\ jobs' = [jobs EXCEPT ![j] = NewJob(e)]
    BY <1>2
  <2>2. UNCHANGED <<batch, phase, abandons>>
    BY DEF CaptureEvent
  <2>3. /\ jobs[j].state = "absent"
        /\ jobs'[j].state = "pending"
        /\ jobs'[j].attempts = 0
        /\ \A k \in JobIds : k # j => jobs'[k] = jobs[k]
    BY <2>1 DEF IsNextJobId, NewJob, OneWorkerInv, TypeOK
  <2>4. \A w \in Workers : \A l \in batch[w] : l.job \in JobIds /\ l.job # j
    BY <2>3 DEF OneWorkerInv, TypeOK, Lease
  <2>5. LeasesSound' /\ LeasesCurrent'
    BY <2>2, <2>3, <2>4 DEF OneWorkerInv, LeasesSound, LeasesCurrent
  <2>6. AttemptsLeft' /\ AttemptsBounded'
    BY <2>2, <2>3, CapsAssumption, BoundsAssumption
    DEF OneWorkerInv, AttemptsLeft, AttemptsBounded, Holders, TypeOK
  <2>7. QueueBounded'
    <3>1. ActiveJobs' \subseteq ActiveJobs \cup {j}
      BY <2>3 DEF ActiveJobs
    <3>2. /\ IsFiniteSet(ActiveJobs \cup {j})
          /\ Cardinality(ActiveJobs \cup {j}) <= Cardinality(ActiveJobs) + 1
      <4>1. IsFiniteSet(ActiveJobs) /\ Cardinality(ActiveJobs) \in Nat
        BY ActiveFinite DEF OneWorkerInv
      <4> HIDE DEF ActiveJobs
      <4>2. /\ IsFiniteSet(ActiveJobs \cup {j})
            /\ Cardinality(ActiveJobs \cup {j}) =
                 IF j \in ActiveJobs THEN Cardinality(ActiveJobs)
                                    ELSE Cardinality(ActiveJobs) + 1
        BY <4>1, FS_AddElement, Zenon
      <4> QED
        BY <4>1, <4>2
    <3>3. Cardinality(ActiveJobs') <= Cardinality(ActiveJobs \cup {j})
      BY <3>1, <3>2, FS_Subset
    <3>4. Cardinality(ActiveJobs) + 1 <= QueueDepth
      BY <2>1, ActiveFinite, CapsAssumption DEF HasRoom, OneWorkerInv
    <3>5. /\ Cardinality(ActiveJobs') \in Nat
          /\ Cardinality(ActiveJobs \cup {j}) \in Nat
      BY <3>1, <3>2, FS_Subset, FS_CardinalityType
    <3> QED
      BY <3>2, <3>3, <3>4, <3>5, ActiveFinite, CapsAssumption
      DEF QueueBounded, OneWorkerInv
  <2> QED
    BY <2>5, <2>6, <2>7 DEF OneWorkerInv
<1> QED
  BY <1>1, <1>2 DEF CaptureEvent

LEMMA LeaseStep ==
    ASSUME OneWorker, OneWorkerInv, TypeOK',
           NEW w \in Workers, LeaseEmbedJobs(w)
    PROVE  OneWorkerInv'
<1>1. PICK S \in SUBSET JobIds :
         /\ IsClaim(S, tickNow[w])
         /\ jobs' = [j \in JobIds |->
               IF j \in S THEN Claimed(j, tickNow[w]) ELSE jobs[j]]
         /\ batch' = [batch EXCEPT ![w] = {Leased(j) : j \in S}]
         /\ phase' = [phase EXCEPT ![w] =
               IF S = {} THEN "idle" ELSE "embedding"]
  BY DEF LeaseEmbedJobs
<1>2. Workers = {w} /\ abandons' = abandons
  BY DEF OneWorker, LeaseEmbedJobs
<1>3. batch[w] = {} /\ \A j \in JobIds : Holders(j) = {}
  BY <1>2 DEF LeaseEmbedJobs, OneWorkerInv, LeasesSound, Holders
<1>4. batch'[w] = {Leased(j) : j \in S}
  BY <1>1 DEF OneWorkerInv, TypeOK
<1>5. \A j \in S : /\ jobs[j].state \in Active
                   /\ jobs'[j].state = "running"
                   /\ jobs'[j].attempts = jobs[j].attempts + 1
                   /\ Leased(j).job = j
                   /\ Leased(j).attempts = jobs'[j].attempts
  <2> TAKE j \in S
  <2>1. jobs[j].state \in {"pending", "deferred", "running"}
    BY <1>1 DEF IsClaim, ReadyJobs, Ready
  <2>2. jobs'[j] = Claimed(j, tickNow[w]) /\ jobs[j] \in JobRow
    BY <1>1 DEF OneWorkerInv, TypeOK
  <2> QED
    BY <2>1, <2>2 DEF Active, Claimed, Leased, JobRow
<1>6. \A j \in JobIds \ S : jobs'[j] = jobs[j]
  BY <1>1
<1>7. LeasesSound'
  <2>1. phase'[w] # "embedding" => batch'[w] = {}
    BY <1>1, <1>4 DEF OneWorkerInv, TypeOK
  <2>2. ASSUME NEW l \in batch'[w]
        PROVE  /\ l.job \in S /\ l = Leased(l.job)
               /\ l.attempts = jobs'[l.job].attempts
               /\ jobs'[l.job].state = "running"
               /\ l.attempts \in Nat
    BY <1>4, <1>5 DEF OneWorkerInv, TypeOK, JobRow
  <2> QED
    BY <1>2, <2>1, <2>2 DEF LeasesSound
<1>8. LeasesCurrent'
  BY <1>2, <1>4, <1>5 DEF LeasesCurrent
<1>9. AttemptsBounded'
  <2>1. ASSUME NEW j \in S
        PROVE  jobs'[j].attempts <= MaxAttempts + abandons
    <3>1. jobs[j].attempts < MaxAttempts + abandons
      BY <1>3, <1>5, CapsAssumption, BoundsAssumption
      DEF Active, OneWorkerInv, AttemptsLeft, TypeOK, JobRow
    <3> QED
      BY <1>5, <3>1, CapsAssumption DEF OneWorkerInv, TypeOK, JobRow
  <2> QED
    BY <1>2, <1>6, <2>1 DEF AttemptsBounded, OneWorkerInv
<1>10. AttemptsLeft'
  <2>1. \A j \in S : w \in Holders(j)'
    BY <1>4, <1>5 DEF Holders
  <2> QED
    BY <1>2, <1>3, <1>5, <1>6, <2>1 DEF AttemptsLeft, OneWorkerInv
<1>11. QueueBounded'
  <2>1. ActiveJobs' = ActiveJobs
    BY <1>5, <1>6 DEF ActiveJobs, Active
  <2> QED
    BY <2>1 DEF OneWorkerInv, QueueBounded
<1> QED
  BY <1>7, <1>8, <1>9, <1>10, <1>11 DEF OneWorkerInv

(* Settling rewrites the row of the job the lease names: it was running,   *)
(* and no other lease names it.                                            *)
LEMMA SettleStep ==
    ASSUME OneWorker, OneWorkerInv, TypeOK', UNCHANGED abandons,
           NEW w \in Workers, NEW l \in batch[w], Drop(w, l),
           NEW r, jobs' = [jobs EXCEPT ![l.job] = r],
           r.attempts = jobs[l.job].attempts,
           \/ r.state \in Finished
           \/ r.state = "deferred" /\ r.attempts < MaxAttempts
    PROVE  OneWorkerInv'
<1>1. l.job \in JobIds /\ jobs[l.job].state = "running"
  BY DEF OneWorkerInv, TypeOK, Lease, LeasesCurrent
<1>2. Workers = {w}
  BY DEF OneWorker
<1>3. batch'[w] = batch[w] \ {l}
  BY DEF Drop, OneWorkerInv, TypeOK
<1>4. jobs'[l.job] = r /\ \A k \in JobIds : k # l.job => jobs'[k] = jobs[k]
  BY <1>1 DEF OneWorkerInv, TypeOK
<1>5. \A m \in batch'[w] :
         m \in batch[w] /\ m.job \in JobIds /\ jobs'[m.job] = jobs[m.job]
  BY <1>3, <1>4 DEF OneWorkerInv, LeasesSound, TypeOK, Lease
<1>6. LeasesSound'
  <2>1. phase'[w] # "embedding" => batch'[w] = {}
    BY <1>3 DEF Drop, OneWorkerInv, TypeOK
  <2> QED
    BY <1>2, <1>5, <2>1 DEF OneWorkerInv, LeasesSound
<1>7. LeasesCurrent'
  BY <1>2, <1>5 DEF OneWorkerInv, LeasesCurrent
<1>8. AttemptsBounded'
  BY <1>4 DEF OneWorkerInv, AttemptsBounded
<1>9. AttemptsLeft'
  <2>1. \A k \in JobIds : k # l.job => (Holders(k)' = {} => Holders(k) = {})
    BY <1>2, <1>3 DEF Holders
  <2> QED
    BY <1>4, <2>1 DEF OneWorkerInv, AttemptsLeft, Finished
<1>10. QueueBounded'
  <2>1. ActiveJobs' \subseteq ActiveJobs
    BY <1>1, <1>4 DEF ActiveJobs, Active
  <2>2. /\ Cardinality(ActiveJobs') <= Cardinality(ActiveJobs)
        /\ Cardinality(ActiveJobs') \in Nat
    BY <2>1, ActiveFinite, FS_Subset, FS_CardinalityType DEF OneWorkerInv
  <2> QED
    BY <2>2, ActiveFinite, CapsAssumption DEF OneWorkerInv, QueueBounded
<1> QED
  BY <1>6, <1>7, <1>8, <1>9, <1>10 DEF OneWorkerInv

LEMMA CompleteStep ==
    ASSUME OneWorker, OneWorkerInv, TypeOK',
           NEW w \in Workers, CompleteEmbedJob(w)
    PROVE  OneWorkerInv'
<1>1. PICK l \in batch[w] :
         jobs' = [jobs EXCEPT ![l.job].state = "done"] /\ Drop(w, l)
  BY DEF CompleteEmbedJob
<1>2. PICK r : /\ jobs' = [jobs EXCEPT ![l.job] = r]
               /\ r.attempts = jobs[l.job].attempts
               /\ r.state \in Finished
  <2> DEFINE r == [jobs[l.job] EXCEPT !.state = "done"]
  <2>1. jobs[l.job] \in JobRow
    BY DEF OneWorkerInv, TypeOK, Lease
  <2>2. r.attempts = jobs[l.job].attempts /\ r.state \in Finished
    BY <2>1 DEF JobRow, Finished
  <2> QED
    BY <1>1, <2>2
<1>3. UNCHANGED abandons
  BY DEF CompleteEmbedJob
<1> QED
  BY <1>1, <1>2, <1>3, SettleStep

LEMMA FailStep ==
    ASSUME OneWorker, OneWorkerInv, TypeOK', NEW w \in Workers, FailJob(w)
    PROVE  OneWorkerInv'
<1>1. PICK l \in batch[w] :
         /\ \/ jobs' = [jobs EXCEPT ![l.job].state = "dead"]
            \/ /\ ~Exhausted(l)
               /\ jobs' = [jobs EXCEPT
                     ![l.job].state = "deferred",
                     ![l.job].scheduled =
                         Saturate(tickNow[w] + Backoff(l.attempts))]
         /\ Drop(w, l)
  BY DEF FailJob
<1>2. /\ l.job \in JobIds
      /\ jobs[l.job] \in JobRow
      /\ l.attempts = jobs[l.job].attempts
      /\ l.attempts \in Nat
  BY DEF OneWorkerInv, TypeOK, Lease, LeasesCurrent
<1>3. PICK r : /\ jobs' = [jobs EXCEPT ![l.job] = r]
               /\ r.attempts = jobs[l.job].attempts
               /\ \/ r.state \in Finished
                  \/ r.state = "deferred" /\ r.attempts < MaxAttempts
  <2> DEFINE due == Saturate(tickNow[w] + Backoff(l.attempts))
  <2>1. CASE jobs' = [jobs EXCEPT ![l.job].state = "dead"]
    <3> DEFINE r == [jobs[l.job] EXCEPT !.state = "dead"]
    <3>1. r.attempts = jobs[l.job].attempts /\ r.state \in Finished
      BY <1>2 DEF JobRow, Finished
    <3> QED
      BY <2>1, <3>1
  <2>2. CASE /\ ~Exhausted(l)
             /\ jobs' = [jobs EXCEPT ![l.job].state = "deferred",
                                     ![l.job].scheduled = due]
    <3> DEFINE r == [jobs[l.job] EXCEPT !.state = "deferred",
                                        !.scheduled = due]
    <3>1. /\ r.attempts = jobs[l.job].attempts
          /\ r.state = "deferred"
          /\ r.attempts < MaxAttempts
      BY <1>2, <2>2, CapsAssumption DEF JobRow, Exhausted
    <3>2. jobs' = [jobs EXCEPT ![l.job] = r]
      BY <1>2, <2>2 DEF OneWorkerInv, TypeOK
    <3> QED
      BY <3>1, <3>2
  <2> QED
    BY <1>1, <2>1, <2>2
<1> QED
  BY <1>1, <1>3, SettleStep DEF FailJob

LEMMA AbandonStep ==
    ASSUME OneWorker, OneWorkerInv, TypeOK', NEW w \in Workers, Abandon(w)
    PROVE  OneWorkerInv'
<1>1. /\ Workers = {w} /\ batch'[w] = {} /\ jobs' = jobs
      /\ abandons' = abandons + 1
  BY DEF OneWorker, Abandon, OneWorkerInv, TypeOK
<1>2. LeasesSound' /\ LeasesCurrent'
  BY <1>1 DEF LeasesSound, LeasesCurrent
<1>3. \A j \in JobIds : jobs[j].attempts < MaxAttempts + abandons'
  BY <1>1, CapsAssumption
  DEF OneWorkerInv, AttemptsBounded, TypeOK, JobRow
<1>4. AttemptsLeft'
  BY <1>1, <1>3 DEF AttemptsLeft, OneWorkerInv
<1>5. AttemptsBounded'
  BY <1>1, <1>3, CapsAssumption DEF AttemptsBounded, OneWorkerInv, TypeOK, JobRow
<1>6. QueueBounded'
  BY <1>1 DEF OneWorkerInv, QueueBounded, ActiveJobs
<1> QED
  BY <1>2, <1>4, <1>5, <1>6 DEF OneWorkerInv

LEMMA OneWorkerStep ==
    ASSUME OneWorker, OneWorkerInv, [Next]_vars
    PROVE  OneWorkerInv'
<1>1. TypeOK'
  BY TypeStep DEF OneWorkerInv
<1>2. CASE Tick
  BY <1>1, <1>2, FrameStep DEF Tick
<1>3. CASE CaptureEvent
  BY <1>1, <1>3, CaptureStep
<1>4. CASE ConsolidatePending
  BY <1>1, <1>4, FrameStep DEF ConsolidatePending
<1>5. CASE RetainExpired
  BY <1>1, <1>5, FrameStep DEF RetainExpired
<1>6. ASSUME NEW w \in Workers, StartTick(w)
      PROVE  OneWorkerInv'
  <2>1. \A v \in Workers : phase'[v] = phase[v] \/ batch[v] = {}
    BY <1>6 DEF StartTick, OneWorkerInv, LeasesSound, TypeOK
  <2> QED
    BY <1>1, <1>6, <2>1, FrameStep DEF StartTick
<1>7. CASE UNCHANGED vars
  BY <1>1, <1>7, FrameStep DEF vars
<1> QED
  BY <1>1, <1>2, <1>3, <1>4, <1>5, <1>6, <1>7, LeaseStep, CompleteStep,
     FailStep, AbandonStep DEF Next, WorkerStep

LEMMA OneWorkerInit == Init => OneWorkerInv
<1> SUFFICES ASSUME Init
             PROVE  OneWorkerInv
  OBVIOUS
<1>1. TypeOK
  BY BoundsAssumption, CapsAssumption
  DEF Init, TypeOK, EventRow, JobRow, Time, EventIds, JobIds, Contents,
      JobStates, NoEvent, NoJob, EmptyText
<1>2. ActiveJobs = {}
  BY DEF Init, ActiveJobs, NoJob, Active
<1>3. QueueBounded
  BY <1>2, FS_EmptySet, CapsAssumption DEF QueueBounded
<1>4. LeasesSound /\ LeasesCurrent
  BY DEF Init, LeasesSound, LeasesCurrent
<1>5. AttemptsLeft /\ AttemptsBounded
  BY CapsAssumption, BoundsAssumption
  DEF Init, AttemptsLeft, AttemptsBounded, NoJob
<1> QED
  BY <1>1, <1>3, <1>4, <1>5 DEF OneWorkerInv

LEMMA OneWorkerInvariant ==
    ASSUME OneWorker
    PROVE  Spec => []OneWorkerInv
<1>1. OneWorkerInv /\ [Next]_vars => OneWorkerInv'
  BY OneWorkerStep
<1> QED
  BY <1>1, OneWorkerInit, PTL DEF Spec

(* With one worker on the database, no interleaving of captures, expiring  *)
(* leases, failures, crashes and retention makes more than queue_depth_max *)
(* jobs active or leases a job more than job_max_attempts times plus once  *)
(* for every crash or aborted tick.                                        *)
THEOREM OneWorkerSafe ==
    ASSUME OneWorker
    PROVE  Spec => [](QueueBounded /\ AttemptsBounded)
<1>1. OneWorkerInv => QueueBounded /\ AttemptsBounded
  BY DEF OneWorkerInv
<1> QED
  BY <1>1, OneWorkerInvariant, PTL

(* How one step of the code looks through the refinement mapping.          *)
LEMMA OutcomeStep ==
    ASSUME OneWorker, OneWorkerInv, Next
    PROVE  \/ \A j \in JobIds : Outcome(j)' = Outcome(j)
           \/ \E j \in JobIds :
                 /\ Outcome(j) = "none" /\ HasRoom /\ Outcome(j)' = "open"
                 /\ \A k \in JobIds : k # j => Outcome(k)' = Outcome(k)
           \/ \E j \in JobIds :
                 /\ Outcome(j) = "open" /\ Outcome(j)' \in {"done", "dead"}
                 /\ \A k \in JobIds : k # j => Outcome(k)' = Outcome(k)
<1>1. CASE UNCHANGED jobs
  BY <1>1 DEF Outcome
<1>2. CASE CaptureEvent
  <2>1. CASE UNCHANGED jobs
    BY <1>1, <2>1
  <2>2. CASE \E j \in JobIds, e \in EventIds :
             HasRoom /\ IsNextJobId(j) /\ jobs' = [jobs EXCEPT ![j] = NewJob(e)]
    <3>1. PICK j \in JobIds, e \in EventIds :
             HasRoom /\ IsNextJobId(j) /\ jobs' = [jobs EXCEPT ![j] = NewJob(e)]
      BY <2>2
    <3>2. /\ jobs[j].state = "absent"
          /\ jobs'[j].state = "pending"
          /\ \A k \in JobIds : k # j => jobs'[k] = jobs[k]
      BY <3>1 DEF IsNextJobId, NewJob, OneWorkerInv, TypeOK
    <3>3. /\ Outcome(j) = "none" /\ Outcome(j)' = "open"
          /\ \A k \in JobIds : k # j => Outcome(k)' = Outcome(k)
      BY <3>2 DEF Outcome, Active
    <3> QED
      BY <3>1, <3>3
  <2> QED
    BY <1>2, <2>1, <2>2 DEF CaptureEvent
<1>3. ASSUME NEW w \in Workers, LeaseEmbedJobs(w)
      PROVE  \A j \in JobIds : Outcome(j)' = Outcome(j)
  <2>1. PICK S \in SUBSET JobIds :
           /\ IsClaim(S, tickNow[w])
           /\ jobs' = [j \in JobIds |->
                 IF j \in S THEN Claimed(j, tickNow[w]) ELSE jobs[j]]
    BY <1>3 DEF LeaseEmbedJobs
  <2> TAKE j \in JobIds
  <2>2. CASE j \in S
    <3>1. jobs[j].state \in {"pending", "deferred", "running"}
      BY <2>1, <2>2 DEF IsClaim, ReadyJobs, Ready
    <3>2. jobs'[j] = Claimed(j, tickNow[w]) /\ jobs[j] \in JobRow
      BY <2>1, <2>2 DEF OneWorkerInv, TypeOK
    <3>3. jobs'[j].state = "running"
      BY <3>2 DEF Claimed, JobRow
    <3> QED
      BY <3>1, <3>3 DEF Outcome, Active
  <2>3. CASE j \notin S
    BY <2>1, <2>3 DEF Outcome
  <2> QED
    BY <2>2, <2>3
<1>4. ASSUME NEW w \in Workers, NEW l \in batch[w], NEW s \in JobStates,
             jobs'[l.job].state = s, s \in {"done", "dead", "deferred"},
             \A k \in JobIds : k # l.job => jobs'[k] = jobs[k]
      PROVE  \/ \A j \in JobIds : Outcome(j)' = Outcome(j)
             \/ \E j \in JobIds :
                   /\ Outcome(j) = "open" /\ Outcome(j)' \in {"done", "dead"}
                   /\ \A k \in JobIds : k # j => Outcome(k)' = Outcome(k)
  <2>1. l.job \in JobIds /\ jobs[l.job].state = "running"
    BY DEF OneWorkerInv, TypeOK, Lease, LeasesCurrent
  <2>2. \A k \in JobIds : k # l.job => Outcome(k)' = Outcome(k)
    BY <1>4 DEF Outcome
  <2>3. Outcome(l.job) = "open"
    BY <2>1 DEF Outcome, Active
  <2>4. Outcome(l.job)' \in {"open", "done", "dead"}
    BY <1>4 DEF Outcome, Active
  <2> QED
    BY <2>1, <2>2, <2>3, <2>4
<1>5. ASSUME NEW w \in Workers, Settle(w)
      PROVE  \E l \in batch[w] : \E s \in {"done", "dead", "deferred"} :
                /\ jobs'[l.job].state = s
                /\ \A k \in JobIds : k # l.job => jobs'[k] = jobs[k]
  <2>1. ASSUME NEW l \in batch[w]
        PROVE  l.job \in JobIds /\ jobs[l.job] \in JobRow
    BY DEF OneWorkerInv, TypeOK, Lease
  <2>2. CASE CompleteEmbedJob(w)
    <3>1. PICK l \in batch[w] : jobs' = [jobs EXCEPT ![l.job].state = "done"]
      BY <2>2 DEF CompleteEmbedJob
    <3>2. jobs'[l.job].state = "done"
      BY <2>1, <3>1 DEF OneWorkerInv, TypeOK, JobRow
    <3> QED
      BY <2>1, <3>1, <3>2 DEF OneWorkerInv, TypeOK
  <2>3. CASE FailJob(w)
    <3>1. PICK l \in batch[w] :
             \/ jobs' = [jobs EXCEPT ![l.job].state = "dead"]
             \/ jobs' = [jobs EXCEPT
                   ![l.job].state = "deferred",
                   ![l.job].scheduled =
                       Saturate(tickNow[w] + Backoff(l.attempts))]
      BY <2>3 DEF FailJob
    <3>2. jobs'[l.job].state \in {"dead", "deferred"}
      BY <2>1, <3>1 DEF OneWorkerInv, TypeOK, JobRow
    <3>3. \A k \in JobIds : k # l.job => jobs'[k] = jobs[k]
      BY <2>1, <3>1 DEF OneWorkerInv, TypeOK
    <3> QED
      BY <3>2, <3>3
  <2> QED
    BY <1>5, <2>2, <2>3 DEF Settle
<1>6. ASSUME NEW w \in Workers, WorkerStep(w)
      PROVE  \/ \A j \in JobIds : Outcome(j)' = Outcome(j)
             \/ \E j \in JobIds :
                   /\ Outcome(j) = "open" /\ Outcome(j)' \in {"done", "dead"}
                   /\ \A k \in JobIds : k # j => Outcome(k)' = Outcome(k)
  <2>1. CASE StartTick(w) \/ Abandon(w)
    BY <2>1 DEF StartTick, Abandon, Outcome
  <2>2. CASE Settle(w)
    <3>1. \A s \in {"done", "dead", "deferred"} : s \in JobStates
      BY DEF JobStates
    <3> QED
      BY <1>4, <1>5, <2>2, <3>1
  <2> QED
    BY <1>3, <1>6, <2>1, <2>2 DEF WorkerStep, Settle
<1>7. CASE Tick \/ ConsolidatePending \/ RetainExpired
  BY <1>1, <1>7 DEF Tick, ConsolidatePending, RetainExpired
<1> QED
  BY <1>2, <1>6, <1>7 DEF Next

(* With one worker a job that reached done or dead keeps that state: no    *)
(* late answer re-opens it.                                                *)
THEOREM OneWorkerSettlesOnce ==
    ASSUME OneWorker
    PROVE  Spec => SettledOnce
<1>1. ASSUME OneWorkerInv, [Next]_vars
      PROVE  [\A j \in JobIds :
                 jobs[j].state \in Finished =>
                    jobs'[j].state = jobs[j].state]_vars
  <2>1. CASE Next
    <3>1. \A j \in JobIds : jobs[j].state \in Finished =>
                               Outcome(j) = jobs[j].state
      BY DEF Outcome, Finished, Active
    <3>2. \A j \in JobIds : jobs[j].state \in Finished =>
                               Outcome(j)' = Outcome(j)
      <4> TAKE j \in JobIds
      <4>1. CASE \A k \in JobIds : Outcome(k)' = Outcome(k)
        BY <4>1
      <4>2. CASE \E i \in JobIds :
                    /\ Outcome(i) \in {"none", "open"}
                    /\ \A k \in JobIds : k # i => Outcome(k)' = Outcome(k)
        BY <3>1, <4>2 DEF Finished
      <4> QED
        BY <1>1, <2>1, <4>1, <4>2, OutcomeStep
    <3>3. \A j \in JobIds : Outcome(j)' \in Finished =>
                               Outcome(j)' = jobs'[j].state
      BY DEF Outcome, Finished, Active
    <3> QED
      BY <3>1, <3>2, <3>3
  <2>2. CASE UNCHANGED vars
    BY <2>2
  <2> QED
    BY <1>1, <2>1, <2>2
<1> QED
  BY <1>1, OneWorkerInvariant, PTL DEF Spec, SettledOnce

(* With one worker the queue implements EmbedPromise, liveness aside: jobs *)
(* are opened only under the cap and settled once.                         *)
THEOREM OneWorkerRefines ==
    ASSUME OneWorker
    PROVE  Spec => Promise!SafeSpec
<1> DEFINE outcomes == [j \in JobIds |-> Outcome(j)]
<1>1. Init => Promise!Init
  BY DEF Init, Promise!Init, Outcome, NoJob, Active
<1>2. ASSUME OneWorkerInv, [Next]_vars
      PROVE  [Promise!Next]_outcomes
  <2>1. CASE UNCHANGED vars
    BY <2>1 DEF vars, Outcome
  <2>2. CASE \A j \in JobIds : Outcome(j)' = Outcome(j)
    BY <2>2
  <2>3. Promise!Open = ActiveJobs
    <3>1. \A j \in JobIds : outcomes[j] = "open" <=> jobs[j].state \in Active
      BY <1>2 DEF Outcome, Active, OneWorkerInv, TypeOK, JobRow, JobStates
    <3>2. Promise!Open = {j \in JobIds : outcomes[j] = "open"}
      BY DEF Promise!Open
    <3> HIDE DEF outcomes
    <3> QED
      BY <3>1, <3>2 DEF ActiveJobs
  <2>4. CASE \E j \in JobIds :
                /\ Outcome(j) = "none" /\ HasRoom /\ Outcome(j)' = "open"
                /\ \A k \in JobIds : k # j => Outcome(k)' = Outcome(k)
    <3>1. PICK j \in JobIds :
             /\ Outcome(j) = "none" /\ HasRoom /\ Outcome(j)' = "open"
             /\ \A k \in JobIds : k # j => Outcome(k)' = Outcome(k)
      BY <2>4
    <3>2. outcomes' = [outcomes EXCEPT ![j] = "open"]
      BY <3>1
    <3>3. \A S : Promise!Cardinality(S) = Cardinality(S)
      BY DEF Promise!Cardinality, Cardinality, Promise!IsFiniteSet, IsFiniteSet
    <3>4. outcomes[j] = "none" /\ Promise!Cardinality(Promise!Open) < QueueDepth
      BY <2>3, <3>1, <3>3 DEF HasRoom
    <3>5. Promise!Enqueue(j)
      BY <3>2, <3>4 DEF Promise!Enqueue
    <3> QED
      BY <3>5 DEF Promise!Next
  <2>5. CASE \E j \in JobIds :
                /\ Outcome(j) = "open" /\ Outcome(j)' \in {"done", "dead"}
                /\ \A k \in JobIds : k # j => Outcome(k)' = Outcome(k)
    <3>1. PICK j \in JobIds :
             /\ Outcome(j) = "open" /\ Outcome(j)' \in {"done", "dead"}
             /\ \A k \in JobIds : k # j => Outcome(k)' = Outcome(k)
      BY <2>5
    <3>2. outcomes' = [outcomes EXCEPT ![j] = Outcome(j)']
      BY <3>1
    <3>3. Promise!Settle(j)
      BY <3>1, <3>2 DEF Promise!Settle
    <3> QED
      BY <3>3 DEF Promise!Next
  <2> QED
    BY <1>2, <2>1, <2>2, <2>4, <2>5, OutcomeStep
<1> QED
  BY <1>1, <1>2, OneWorkerInvariant, PTL DEF Spec, Promise!SafeSpec

-----------------------------------------------------------------------------
(* One worker: what is embedded.                                           *)
LEMMA EmbeddedFrame ==
    ASSUME EmbeddedInv, UNCHANGED <<rawEvents, jobs, embeddings>>,
           \A w \in Workers : batch'[w] \subseteq batch[w]
    PROVE  (EventsJoined /\ LeasesFresh /\ DoneIsEmbedded)'
<1>1. EventsJoined'
  BY DEF EmbeddedInv, EventsJoined, Live
<1>2. DoneIsEmbedded'
  BY DEF EmbeddedInv, DoneIsEmbedded, Live
<1>3. LeasesFresh'
  <2> SUFFICES ASSUME NEW w \in Workers, NEW l \in batch'[w]
               PROVE  /\ l.event = jobs[l.job].event
                      /\ \A m \in batch'[w] : m.event = l.event => m.content = l.content
                      /\ l.event \in Live /\ rawEvents[l.event].job \in JobIds =>
                            \/ l.content = rawEvents[l.event].content
                            \/ rawEvents[l.event].job # l.job
                               /\ jobs[rawEvents[l.event].job].state # "done"
    BY DEF LeasesFresh, Live
  <2>1. l \in batch[w] /\ batch'[w] \subseteq batch[w]
    OBVIOUS
  <2> QED
    BY <2>1 DEF EmbeddedInv, LeasesFresh
<1> QED
  BY <1>1, <1>2, <1>3

(* A new event gets a job of its own: no lease in memory is of that job.   *)
LEMMA EmbeddedCapture ==
    ASSUME EmbeddedInv, CaptureEvent
    PROVE  (EventsJoined /\ LeasesFresh /\ DoneIsEmbedded)'
<1>1. PICK e \in EventIds :
         /\ IsNextEventId(e)
         /\ \/ /\ HasRoom
               /\ \E j \in JobIds :
                     /\ IsNextJobId(j)
                     /\ rawEvents' = [rawEvents EXCEPT ![e] = NewEvent(j)]
                     /\ jobs' = [jobs EXCEPT ![j] = NewJob(e)]
            \/ /\ ~HasRoom
               /\ rawEvents' = [rawEvents EXCEPT ![e] = NewEvent(0)]
               /\ UNCHANGED jobs
  BY DEF CaptureEvent
<1>2. UNCHANGED <<embeddings, batch>>
  BY DEF CaptureEvent
<1>3. TypeOK
  BY DEF EmbeddedInv, OneWorkerInv
<1>4. Live' \subseteq Live \cup {e} /\ \A k \in EventIds : k # e => rawEvents'[k] = rawEvents[k]
  BY <1>1, <1>3 DEF Live, TypeOK
<1>5. CASE UNCHANGED jobs /\ rawEvents' = [rawEvents EXCEPT ![e] = NewEvent(0)]
  <2>1. rawEvents'[e].job \notin JobIds
    BY <1>3, <1>5 DEF NewEvent, JobIds, TypeOK
  <2>2. EventsJoined'
    BY <1>4, <1>5, <2>1 DEF EmbeddedInv, EventsJoined, Live
  <2>3. DoneIsEmbedded'
    BY <1>2, <1>4, <1>5, <2>1 DEF EmbeddedInv, DoneIsEmbedded, Live
  <2>4. LeasesFresh'
    BY <1>2, <1>4, <1>5, <2>1 DEF EmbeddedInv, LeasesFresh, Live
  <2> QED
    BY <2>2, <2>3, <2>4
<1>6. ASSUME NEW j \in JobIds, IsNextJobId(j),
             rawEvents' = [rawEvents EXCEPT ![e] = NewEvent(j)],
             jobs' = [jobs EXCEPT ![j] = NewJob(e)]
      PROVE  (EventsJoined /\ LeasesFresh /\ DoneIsEmbedded)'
  <2>1. rawEvents'[e].job = j /\ jobs'[j].state = "pending" /\ jobs'[j].event = e
    BY <1>3, <1>6 DEF NewEvent, NewJob, TypeOK
  <2>2. jobs[j].state = "absent" /\ \A k \in JobIds : k # j => jobs'[k] = jobs[k]
    BY <1>3, <1>6 DEF IsNextJobId, TypeOK
  <2>3. \A k \in Live : rawEvents[k].job \in JobIds => rawEvents[k].job # j
    BY <2>2 DEF EmbeddedInv, EventsJoined
  <2>4. \A w \in Workers : \A l \in batch[w] : l.job \in JobIds /\ l.job # j
    BY <1>3, <2>2 DEF TypeOK, Lease
  <2>5. EventsJoined'
    BY <1>4, <2>1, <2>2, <2>3 DEF EmbeddedInv, EventsJoined, Live
  <2>6. DoneIsEmbedded'
    BY <1>2, <1>4, <2>1, <2>2, <2>3 DEF EmbeddedInv, DoneIsEmbedded, Live
  <2>7. LeasesFresh'
    <3> SUFFICES ASSUME NEW w \in Workers, NEW l \in batch[w]
                 PROVE  /\ l.event = jobs'[l.job].event
                        /\ \A m \in batch[w] : m.event = l.event => m.content = l.content
                        /\ l.event \in Live' /\ rawEvents'[l.event].job \in JobIds =>
                              \/ l.content = rawEvents'[l.event].content
                              \/ rawEvents'[l.event].job # l.job
                                 /\ jobs'[rawEvents'[l.event].job].state # "done"
      BY <1>2 DEF LeasesFresh
    <3>1. l.event = jobs'[l.job].event
      BY <2>2, <2>4 DEF EmbeddedInv, LeasesFresh
    <3>2. \A m \in batch[w] : m.event = l.event => m.content = l.content
      BY DEF EmbeddedInv, LeasesFresh
    <3>3. CASE l.event = e
      BY <2>1, <2>4, <3>1, <3>2, <3>3
    <3>4. CASE l.event # e
      <4>1. \/ l.event \notin Live
            \/ rawEvents[l.event].job \notin JobIds
            \/ l.content = rawEvents[l.event].content
            \/ rawEvents[l.event].job # l.job
               /\ jobs[rawEvents[l.event].job].state # "done"
        BY DEF EmbeddedInv, LeasesFresh
      <4>2. l.event \in EventIds
        BY <1>3 DEF TypeOK, Lease
      <4>3. rawEvents'[l.event] = rawEvents[l.event] /\ (l.event \in Live' => l.event \in Live)
        BY <1>4, <3>4, <4>2
      <4> QED
        BY <2>2, <2>3, <3>1, <3>2, <4>1, <4>3
    <3> QED
      BY <3>3, <3>4
  <2> QED
    BY <2>5, <2>6, <2>7
<1> QED
  BY <1>1, <1>5, <1>6

(* Consolidation and retention: an event that retention may touch is       *)
(* consolidated, and one it deletes is not live any more.                  *)
LEMMA EmbeddedDream ==
    ASSUME EmbeddedInv, ConsolidatePending \/ RetainExpired
    PROVE  (EventsJoined /\ LeasesFresh /\ DoneIsEmbedded)'
<1>1. UNCHANGED <<jobs, batch>>
  BY DEF ConsolidatePending, RetainExpired
<1>2. /\ Live' \subseteq Live
      /\ \A e \in Live' :
            /\ rawEvents'[e].content = rawEvents[e].content
            /\ rawEvents'[e].job = rawEvents[e].job
            /\ ~rawEvents'[e].consolidated =>
                  ~rawEvents[e].consolidated /\ embeddings'[e] = embeddings[e]
  <2>0. TypeOK
    BY DEF EmbeddedInv, OneWorkerInv
  <2>1. CASE ConsolidatePending
    <3>1. PICK S \in SUBSET Live :
             rawEvents' = [e \in EventIds |->
                IF e \in S THEN [rawEvents[e] EXCEPT !.consolidated = TRUE]
                           ELSE rawEvents[e]]
      BY <2>1 DEF ConsolidatePending
    <3>2. \A e \in EventIds :
             /\ rawEvents'[e].content = rawEvents[e].content
             /\ rawEvents'[e].job = rawEvents[e].job
             /\ ~rawEvents'[e].consolidated => rawEvents'[e] = rawEvents[e]
      BY <2>0, <3>1 DEF TypeOK, EventRow
    <3>3. embeddings' = embeddings
      BY <2>1 DEF ConsolidatePending
    <3> QED
      BY <3>2, <3>3 DEF Live
  <2>2. CASE RetainExpired
    <3>1. PICK del \in SUBSET {e \in Live : rawEvents[e].consolidated},
               emb \in SUBSET {e \in Live : rawEvents[e].consolidated} :
             /\ rawEvents' = [e \in EventIds |->
                   IF e \in del THEN NoEvent ELSE rawEvents[e]]
             /\ embeddings' = [e \in EventIds |->
                   IF e \in del \cup emb THEN NoVector ELSE embeddings[e]]
      BY <2>2 DEF RetainExpired
    <3>2. \A e \in EventIds : e \in Live' => e \notin del /\ rawEvents'[e] = rawEvents[e]
      BY <3>1 DEF Live, NoEvent
    <3>3. \A e \in EventIds : e \in Live' /\ ~rawEvents[e].consolidated =>
             embeddings'[e] = embeddings[e]
      BY <3>1, <3>2
    <3>4. Live' \subseteq EventIds /\ Live \subseteq EventIds
      BY DEF Live
    <3>5. Live' \subseteq Live
      BY <3>2 DEF Live
    <3> QED
      BY <3>2, <3>3, <3>4, <3>5
  <2> QED
    BY <2>1, <2>2
<1>3. EventsJoined'
  BY <1>1, <1>2 DEF EmbeddedInv, EventsJoined
<1>4. DoneIsEmbedded'
  BY <1>1, <1>2 DEF EmbeddedInv, DoneIsEmbedded
<1>5. LeasesFresh'
  <2> SUFFICES ASSUME NEW w \in Workers, NEW l \in batch[w]
               PROVE  /\ l.event = jobs[l.job].event
                      /\ \A m \in batch[w] : m.event = l.event => m.content = l.content
                      /\ l.event \in Live' /\ rawEvents'[l.event].job \in JobIds =>
                            \/ l.content = rawEvents'[l.event].content
                            \/ rawEvents'[l.event].job # l.job
                               /\ jobs[rawEvents'[l.event].job].state # "done"
    BY <1>1 DEF LeasesFresh
  <2> QED
    BY <1>2 DEF EmbeddedInv, LeasesFresh
<1> QED
  BY <1>3, <1>4, <1>5

(* A batch is read in one transaction, by the only worker.                 *)
LEMMA EmbeddedLease ==
    ASSUME OneWorker, EmbeddedInv, NEW w \in Workers, LeaseEmbedJobs(w)
    PROVE  (EventsJoined /\ LeasesFresh /\ DoneIsEmbedded)'
<1>1. PICK S \in SUBSET JobIds :
         /\ IsClaim(S, tickNow[w])
         /\ jobs' = [j \in JobIds |->
               IF j \in S THEN Claimed(j, tickNow[w]) ELSE jobs[j]]
         /\ batch' = [batch EXCEPT ![w] = {Leased(j) : j \in S}]
  BY DEF LeaseEmbedJobs
<1>2. UNCHANGED <<rawEvents, embeddings>> /\ TypeOK
  BY DEF LeaseEmbedJobs, EmbeddedInv, OneWorkerInv
<1>3. \A j \in JobIds :
         /\ jobs'[j].event = jobs[j].event
         /\ jobs'[j].state = "absent" => jobs[j].state = "absent"
         /\ jobs'[j].state = "done" => jobs[j].state = "done"
  <2>1. ASSUME NEW j \in JobIds
        PROVE  /\ jobs'[j].event = jobs[j].event
               /\ jobs'[j].state = "absent" => jobs[j].state = "absent"
               /\ jobs'[j].state = "done" => jobs[j].state = "done"
    <3>1. CASE j \in S
      BY <1>1, <1>2, <3>1 DEF Claimed, TypeOK, JobRow
    <3>2. CASE j \notin S
      BY <1>1, <3>2
    <3> QED
      BY <3>1, <3>2
  <2> QED
    BY <2>1
<1>4. EventsJoined'
  BY <1>2, <1>3 DEF EmbeddedInv, EventsJoined, Live
<1>5. DoneIsEmbedded'
  BY <1>2, <1>3 DEF EmbeddedInv, DoneIsEmbedded, Live
<1>6. LeasesFresh'
  <2> SUFFICES ASSUME NEW v \in Workers, NEW l \in batch'[v]
               PROVE  /\ l.event = jobs'[l.job].event
                      /\ \A m \in batch'[v] : m.event = l.event => m.content = l.content
                      /\ l.event \in Live => l.content = rawEvents[l.event].content
    BY <1>2 DEF LeasesFresh, Live
  <2>1. batch'[v] = {Leased(j) : j \in S}
    BY <1>1, <1>2 DEF OneWorker, TypeOK
  <2>2. \A m \in batch'[v] :
           /\ m.job \in JobIds
           /\ m.event = jobs[m.job].event
           /\ m.content = rawEvents[m.event].content
    BY <2>1 DEF Leased
  <2> QED
    BY <1>3, <2>2
<1> QED
  BY <1>4, <1>5, <1>6

(* An answer: what it writes over an event is that event's text, unless    *)
(* the event's own job is still to come.                                   *)
LEMMA EmbeddedComplete ==
    ASSUME OneWorker, EmbeddedInv, NEW w \in Workers, CompleteEmbedJob(w)
    PROVE  (EventsJoined /\ LeasesFresh /\ DoneIsEmbedded)'
<1>1. PICK l \in batch[w] :
         /\ embeddings' = [embeddings EXCEPT ![l.event] = l.content]
         /\ jobs' = [jobs EXCEPT ![l.job].state = "done"]
         /\ batch' = [batch EXCEPT ![w] = @ \ {l}]
  BY DEF CompleteEmbedJob, Drop
<1>2. UNCHANGED rawEvents /\ TypeOK
  BY DEF CompleteEmbedJob, EmbeddedInv, OneWorkerInv
<1>3. l.job \in JobIds /\ l.event \in EventIds /\ l.event = jobs[l.job].event
  BY <1>2 DEF TypeOK, Lease, EmbeddedInv, LeasesFresh
<1>4. /\ \A j \in JobIds : jobs'[j].event = jobs[j].event
      /\ \A j \in JobIds : jobs'[j].state = IF j = l.job THEN "done" ELSE jobs[j].state
  BY <1>1, <1>2, <1>3 DEF TypeOK, JobRow
<1>5. EventsJoined'
  BY <1>2, <1>4 DEF EmbeddedInv, EventsJoined, Live
<1>6. \A e \in Live : rawEvents[e].job = l.job => e = l.event /\ l.content = rawEvents[e].content
  BY <1>3 DEF EmbeddedInv, EventsJoined, LeasesFresh
<1>7. DoneIsEmbedded'
  <2> SUFFICES ASSUME NEW e \in Live, ~rawEvents[e].consolidated,
                      rawEvents[e].job \in JobIds,
                      jobs'[rawEvents[e].job].state = "done"
               PROVE  embeddings'[e] = rawEvents[e].content
    BY <1>2 DEF DoneIsEmbedded, Live
  <2>0. e \in EventIds /\ embeddings \in [EventIds -> Contents \cup {NoVector}]
    BY <1>2 DEF Live, TypeOK
  <2>1. CASE rawEvents[e].job = l.job
    BY <1>1, <1>6, <2>0, <2>1
  <2>2. CASE rawEvents[e].job # l.job
    <3>1. jobs[rawEvents[e].job].state = "done"
      BY <1>4, <2>2
    <3>2. CASE e = l.event
      <4>1. l.content = rawEvents[e].content
        BY <3>1, <3>2 DEF EmbeddedInv, LeasesFresh
      <4> QED
        BY <1>1, <2>0, <3>2, <4>1
    <3>3. CASE e # l.event
      BY <1>1, <2>0, <3>1, <3>3 DEF EmbeddedInv, DoneIsEmbedded
    <3> QED
      BY <3>2, <3>3
  <2> QED
    BY <2>1, <2>2
<1>8. LeasesFresh'
  <2> SUFFICES ASSUME NEW v \in Workers, NEW m \in batch'[v]
               PROVE  /\ m.event = jobs'[m.job].event
                      /\ \A n \in batch'[v] : n.event = m.event => n.content = m.content
                      /\ m.event \in Live /\ rawEvents[m.event].job \in JobIds =>
                            \/ m.content = rawEvents[m.event].content
                            \/ rawEvents[m.event].job # m.job
                               /\ jobs'[rawEvents[m.event].job].state # "done"
    BY <1>2 DEF LeasesFresh, Live
  <2>1. v = w /\ batch'[v] \subseteq batch[v] /\ m \in batch[v] /\ m.job \in JobIds
    BY <1>1, <1>2 DEF OneWorker, TypeOK, Lease
  <2>2. m.event = jobs'[m.job].event
    BY <1>4, <2>1 DEF EmbeddedInv, LeasesFresh
  <2>3. \A n \in batch[v] : n.event = m.event => n.content = m.content
    BY <2>1 DEF EmbeddedInv, LeasesFresh
  <2>4. ASSUME m.event \in Live, rawEvents[m.event].job \in JobIds
        PROVE  \/ m.content = rawEvents[m.event].content
               \/ rawEvents[m.event].job # m.job
                  /\ jobs'[rawEvents[m.event].job].state # "done"
    <3>1. CASE rawEvents[m.event].job = l.job
      BY <1>6, <2>1, <2>3, <2>4, <3>1
    <3>2. CASE rawEvents[m.event].job # l.job
      BY <1>4, <2>1, <2>4, <3>2 DEF EmbeddedInv, LeasesFresh
    <3> QED
      BY <3>1, <3>2
  <2> QED
    BY <2>1, <2>2, <2>3, <2>4
<1> QED
  BY <1>5, <1>7, <1>8

(* A failure leaves the job for later, or dead: no job becomes done.       *)
LEMMA EmbeddedFail ==
    ASSUME EmbeddedInv, NEW w \in Workers, FailJob(w)
    PROVE  (EventsJoined /\ LeasesFresh /\ DoneIsEmbedded)'
<1>1. PICK l \in batch[w] :
         /\ \/ jobs' = [jobs EXCEPT ![l.job].state = "dead"]
            \/ jobs' = [jobs EXCEPT
                   ![l.job].state = "deferred",
                   ![l.job].scheduled = Saturate(tickNow[w] + Backoff(l.attempts))]
         /\ batch' = [batch EXCEPT ![w] = @ \ {l}]
  BY DEF FailJob, Drop
<1>2. UNCHANGED <<rawEvents, embeddings>> /\ TypeOK
  BY DEF FailJob, EmbeddedInv, OneWorkerInv
<1>3. l.job \in JobIds
  BY <1>2 DEF TypeOK, Lease
<1>4. /\ \A j \in JobIds : jobs'[j].event = jobs[j].event
      /\ \A j \in JobIds : jobs'[j].state = "absent" => jobs[j].state = "absent"
      /\ \A j \in JobIds : jobs'[j].state = "done" => jobs[j].state = "done"
  <2>1. jobs \in [JobIds -> JobRow]
    BY <1>2 DEF TypeOK
  <2>2. CASE jobs' = [jobs EXCEPT ![l.job].state = "dead"]
    BY <1>3, <2>1, <2>2 DEF JobRow
  <2>3. ASSUME NEW at, jobs' = [jobs EXCEPT ![l.job].state = "deferred",
                                            ![l.job].scheduled = at]
        PROVE  /\ \A j \in JobIds : jobs'[j].event = jobs[j].event
               /\ \A j \in JobIds : jobs'[j].state = "absent" => jobs[j].state = "absent"
               /\ \A j \in JobIds : jobs'[j].state = "done" => jobs[j].state = "done"
    BY <1>3, <2>1, <2>3 DEF JobRow
  <2> QED
    BY <1>1, <2>2, <2>3
<1>5. \A v \in Workers : batch'[v] \subseteq batch[v]
  BY <1>1, <1>2 DEF TypeOK
<1>6. EventsJoined'
  BY <1>2, <1>4 DEF EmbeddedInv, EventsJoined, Live
<1>7. DoneIsEmbedded'
  BY <1>2, <1>4 DEF EmbeddedInv, DoneIsEmbedded, Live
<1>8. LeasesFresh'
  <2> SUFFICES ASSUME NEW v \in Workers, NEW m \in batch'[v]
               PROVE  /\ m.event = jobs'[m.job].event
                      /\ \A n \in batch'[v] : n.event = m.event => n.content = m.content
                      /\ m.event \in Live /\ rawEvents[m.event].job \in JobIds =>
                            \/ m.content = rawEvents[m.event].content
                            \/ rawEvents[m.event].job # m.job
                               /\ jobs'[rawEvents[m.event].job].state # "done"
    BY <1>2 DEF LeasesFresh, Live
  <2>1. batch'[v] \subseteq batch[v] /\ m \in batch[v]
    BY <1>5
  <2>2. m.job \in JobIds
    BY <1>2, <2>1 DEF TypeOK, Lease
  <2> QED
    BY <1>4, <2>1, <2>2 DEF EmbeddedInv, LeasesFresh
<1> QED
  BY <1>6, <1>7, <1>8

LEMMA EmbeddedStep ==
    ASSUME OneWorker, EmbeddedInv, [Next]_vars
    PROVE  EmbeddedInv'
<1>1. OneWorkerInv'
  BY OneWorkerStep DEF EmbeddedInv
<1>2. CASE Tick \/ UNCHANGED vars
  BY <1>1, <1>2, EmbeddedFrame DEF Tick, vars, EmbeddedInv
<1>3. CASE CaptureEvent
  BY <1>1, <1>3, EmbeddedCapture DEF EmbeddedInv
<1>4. CASE ConsolidatePending \/ RetainExpired
  BY <1>1, <1>4, EmbeddedDream DEF EmbeddedInv
<1>5. ASSUME NEW w \in Workers, WorkerStep(w)
      PROVE  EmbeddedInv'
  <2>1. CASE StartTick(w)
    BY <1>1, <2>1, EmbeddedFrame DEF StartTick, EmbeddedInv
  <2>2. CASE Abandon(w)
    <3>1. \A v \in Workers : batch'[v] \subseteq batch[v]
      BY <2>2 DEF Abandon, EmbeddedInv, OneWorkerInv, TypeOK
    <3> QED
      BY <1>1, <2>2, <3>1, EmbeddedFrame DEF Abandon, EmbeddedInv
  <2> QED
    BY <1>1, <1>5, <2>1, <2>2, EmbeddedLease, EmbeddedComplete, EmbeddedFail
    DEF WorkerStep, EmbeddedInv
<1> QED
  BY <1>2, <1>3, <1>4, <1>5 DEF Next

(* With one worker a captured event whose job is done carries the vector   *)
(* of its own text until it is consolidated, although row ids are used     *)
(* again after retention and a lease may outlive its event.                *)
THEOREM OneWorkerEmbeds ==
    ASSUME OneWorker
    PROVE  Spec => []DoneIsEmbedded
<1>1. Init => EmbeddedInv
  <2>1. Init => Live = {}
    BY DEF Init, Live, NoEvent
  <2> QED
    BY <2>1, OneWorkerInit
    DEF Init, EmbeddedInv, EventsJoined, LeasesFresh, DoneIsEmbedded
<1>2. EmbeddedInv /\ [Next]_vars => EmbeddedInv'
  BY EmbeddedStep
<1>3. EmbeddedInv => DoneIsEmbedded
  BY DEF EmbeddedInv
<1> QED
  BY <1>1, <1>2, <1>3, PTL DEF Spec

-----------------------------------------------------------------------------
(* Any number of workers: leases may expire while their holders still work *)
(* on them, and a job may have several holders.                            *)

LEMMA HoldersFinite ==
    ASSUME NEW j
    PROVE  IsFiniteSet(Holders(j)) /\ Cardinality(Holders(j)) \in Nat
<1>1. Holders(j) \in SUBSET Workers
  BY DEF Holders
<1> QED
  BY <1>1, WorkersAssumption, FS_Subset, FS_CardinalityType

(* Steps that touch neither attempts, usage nor leases keep the invariant. *)
LEMMA SharedFrameStep ==
    ASSUME SharedInv, TypeOK', UNCHANGED <<usage, batch>>,
           \A w \in Workers : phase'[w] = phase[w] \/ batch[w] = {},
           \A j \in JobIds : /\ jobs'[j].attempts = jobs[j].attempts
                             /\ jobs'[j].state = jobs[j].state
    PROVE  SharedInv'
<1>1. \A w \in Workers : \A l \in batch[w] : l.job \in JobIds
  BY DEF SharedInv, TypeOK, Lease
<1>2. LeasesSound'
  BY <1>1 DEF SharedInv, LeasesSound
<1>3. UsageWithinAttempts'
  BY DEF SharedInv, UsageWithinAttempts, Holders
<1>4. DeadOnlyWhenExhausted' /\ AbsentNeverLeased'
  BY DEF SharedInv, DeadOnlyWhenExhausted, AbsentNeverLeased
<1> QED
  BY <1>2, <1>3, <1>4 DEF SharedInv

LEMMA SharedLeaseStep ==
    ASSUME SharedInv, TypeOK', NEW w \in Workers, LeaseEmbedJobs(w)
    PROVE  SharedInv'
<1>1. PICK S \in SUBSET JobIds :
         /\ IsClaim(S, tickNow[w])
         /\ jobs' = [j \in JobIds |->
               IF j \in S THEN Claimed(j, tickNow[w]) ELSE jobs[j]]
         /\ batch' = [batch EXCEPT ![w] = {Leased(j) : j \in S}]
         /\ phase' = [phase EXCEPT ![w] =
               IF S = {} THEN "idle" ELSE "embedding"]
  BY DEF LeaseEmbedJobs
<1>2. /\ batch[w] = {}
      /\ batch'[w] = {Leased(j) : j \in S}
      /\ \A v \in Workers : v # w => batch'[v] = batch[v] /\ phase'[v] = phase[v]
      /\ usage' = usage
  BY <1>1 DEF LeaseEmbedJobs, SharedInv, LeasesSound, TypeOK
<1>3. ASSUME NEW j \in S
      PROVE  /\ jobs'[j].state = "running"
             /\ jobs'[j].attempts = jobs[j].attempts + 1
             /\ Leased(j).job = j
             /\ Leased(j).attempts = jobs'[j].attempts
  <2>1. jobs'[j] = Claimed(j, tickNow[w]) /\ jobs[j] \in JobRow
    BY <1>1 DEF SharedInv, TypeOK
  <2> QED
    BY <2>1 DEF Claimed, Leased, JobRow
<1>4. \A j \in JobIds \ S : jobs'[j] = jobs[j]
  BY <1>1
<1>5. \A j \in JobIds : /\ jobs[j].attempts \in Nat
                        /\ jobs'[j].attempts \in Nat
                        /\ jobs[j].attempts <= jobs'[j].attempts
  BY <1>3, <1>4 DEF SharedInv, TypeOK, JobRow
<1>6. LeasesSound'
  <2>1. phase'[w] # "embedding" => batch'[w] = {}
    BY <1>1, <1>2 DEF SharedInv, TypeOK
  <2>2. ASSUME NEW l \in batch'[w]
        PROVE  /\ l.job \in S /\ l = Leased(l.job)
               /\ l.attempts <= jobs'[l.job].attempts
    BY <1>2, <1>3, <1>5
  <2>3. ASSUME NEW v \in Workers, v # w, NEW l \in batch[v]
        PROVE  l.attempts <= jobs'[l.job].attempts
    <3>1. /\ l.job \in JobIds
          /\ l.attempts \in Nat
          /\ l.attempts <= jobs[l.job].attempts
      BY DEF SharedInv, LeasesSound, TypeOK, Lease
    <3> QED
      BY <1>5, <3>1
  <2> QED
    BY <1>2, <2>1, <2>2, <2>3 DEF LeasesSound, SharedInv
<1>7. UsageWithinAttempts'
  <2> SUFFICES ASSUME NEW j \in JobIds
               PROVE  usage[j] + Cardinality(Holders(j)') <= jobs'[j].attempts
    BY <1>2 DEF UsageWithinAttempts
  <2>1. /\ usage[j] \in Nat
        /\ usage[j] + Cardinality(Holders(j)) <= jobs[j].attempts
        /\ Cardinality(Holders(j)) \in Nat /\ IsFiniteSet(Holders(j))
    BY HoldersFinite DEF SharedInv, UsageWithinAttempts, TypeOK
  <2>2. CASE j \in S
    <3>1. Holders(j)' \subseteq Holders(j) \cup {w}
      BY <1>2 DEF Holders
    <3>2. /\ IsFiniteSet(Holders(j) \cup {w})
          /\ Cardinality(Holders(j) \cup {w}) =
               IF w \in Holders(j) THEN Cardinality(Holders(j))
                                   ELSE Cardinality(Holders(j)) + 1
      BY <2>1, FS_AddElement, Zenon
    <3>3. /\ Cardinality(Holders(j)') <= Cardinality(Holders(j) \cup {w})
          /\ Cardinality(Holders(j)') \in Nat
      BY <3>1, <3>2, FS_Subset, FS_CardinalityType
    <3> QED
      BY <1>3, <1>5, <2>1, <2>2, <3>2, <3>3
  <2>3. CASE j \notin S
    <3>1. Holders(j)' \subseteq Holders(j)
      <4>1. \A l \in batch'[w] : l.job # j
        BY <1>2, <1>3, <2>3
      <4> QED
        BY <1>2, <4>1 DEF Holders
    <3>2. /\ Cardinality(Holders(j)') <= Cardinality(Holders(j))
          /\ Cardinality(Holders(j)') \in Nat
      BY <2>1, <3>1, FS_Subset, FS_CardinalityType
    <3> QED
      BY <1>4, <1>5, <2>1, <2>3, <3>2
  <2> QED
    BY <2>2, <2>3
<1>8. DeadOnlyWhenExhausted' /\ AbsentNeverLeased'
  BY <1>3, <1>4 DEF SharedInv, DeadOnlyWhenExhausted, AbsentNeverLeased
<1> QED
  BY <1>6, <1>7, <1>8 DEF SharedInv

(* Settling a lease: its holder lets go of the job, which is why one more  *)
(* usage row still fits under the attempts.                                *)
LEMMA SharedSettleStep ==
    ASSUME SharedInv, TypeOK', NEW w \in Workers, NEW l \in batch[w],
           Drop(w, l), NEW r, jobs' = [jobs EXCEPT ![l.job] = r],
           r.attempts = jobs[l.job].attempts, r.state # "absent",
           r.state = "dead" => l.attempts >= MaxAttempts,
           usage' = usage \/ usage' = [usage EXCEPT ![l.job] = @ + 1]
    PROVE  SharedInv'
<1>1. /\ l.job \in JobIds
      /\ l.attempts \in Nat
      /\ l.attempts <= jobs[l.job].attempts
      /\ w \in Holders(l.job)
  BY DEF SharedInv, TypeOK, Lease, LeasesSound, Holders
<1>2. /\ batch'[w] = batch[w] \ {l}
      /\ \A v \in Workers : v # w => batch'[v] = batch[v] /\ phase'[v] = phase[v]
  BY DEF Drop, SharedInv, TypeOK
<1>3. /\ jobs'[l.job] = r
      /\ \A k \in JobIds : k # l.job => jobs'[k] = jobs[k]
      /\ \A k \in JobIds : /\ jobs'[k].attempts = jobs[k].attempts
                           /\ jobs[k].attempts \in Nat
  BY <1>1 DEF SharedInv, TypeOK, JobRow
<1>4. LeasesSound'
  <2>1. phase'[w] # "embedding" => batch'[w] = {}
    BY <1>2 DEF Drop, SharedInv, TypeOK
  <2>2. \A v \in Workers : \A m \in batch'[v] : m \in batch[v] /\ m.job \in JobIds
    BY <1>2 DEF SharedInv, TypeOK, Lease
  <2> QED
    BY <1>2, <1>3, <2>1, <2>2 DEF LeasesSound, SharedInv
<1>5. DeadOnlyWhenExhausted'
  <2> SUFFICES ASSUME NEW j \in JobIds, jobs'[j].state = "dead"
               PROVE  jobs'[j].attempts >= MaxAttempts
    BY DEF DeadOnlyWhenExhausted
  <2>1. CASE j = l.job
    BY <1>1, <1>3, <2>1, CapsAssumption
  <2>2. CASE j # l.job
    BY <1>3, <2>2 DEF SharedInv, DeadOnlyWhenExhausted
  <2> QED
    BY <2>1, <2>2
<1>6. UsageWithinAttempts'
  <2> SUFFICES ASSUME NEW j \in JobIds
               PROVE  usage'[j] + Cardinality(Holders(j)') <= jobs'[j].attempts
    BY DEF UsageWithinAttempts
  <2>1. /\ usage[j] \in Nat
        /\ usage[j] + Cardinality(Holders(j)) <= jobs[j].attempts
        /\ Cardinality(Holders(j)) \in Nat /\ IsFiniteSet(Holders(j))
    BY HoldersFinite DEF SharedInv, UsageWithinAttempts, TypeOK
  <2>2. CASE j = l.job
    <3>1. Holders(j)' \subseteq Holders(j) \ {w}
      <4>1. \A m \in batch'[w] : m.job # j
        BY <1>2, <2>2 DEF SharedInv, LeasesSound
      <4> QED
        BY <1>2, <4>1 DEF Holders
    <3>2. /\ IsFiniteSet(Holders(j) \ {w})
          /\ Cardinality(Holders(j) \ {w}) = Cardinality(Holders(j)) - 1
      BY <1>1, <2>1, <2>2, FS_RemoveElement
    <3>3. /\ Cardinality(Holders(j)') <= Cardinality(Holders(j) \ {w})
          /\ Cardinality(Holders(j)') \in Nat
      BY <3>1, <3>2, FS_Subset, FS_CardinalityType
    <3>4. usage'[j] \in Nat /\ usage'[j] <= usage[j] + 1
      BY <1>1, <2>1, <2>2 DEF SharedInv, TypeOK
    <3> QED
      BY <1>3, <2>1, <3>2, <3>3, <3>4
  <2>3. CASE j # l.job
    <3>1. Holders(j)' \subseteq Holders(j)
      BY <1>2 DEF Holders
    <3>2. /\ Cardinality(Holders(j)') <= Cardinality(Holders(j))
          /\ Cardinality(Holders(j)') \in Nat
      BY <2>1, <3>1, FS_Subset, FS_CardinalityType
    <3>3. usage'[j] = usage[j]
      BY <1>1, <2>3 DEF SharedInv, TypeOK
    <3> QED
      BY <1>3, <2>1, <3>2, <3>3
  <2> QED
    BY <2>2, <2>3
<1>7. AbsentNeverLeased'
  BY <1>3 DEF AbsentNeverLeased, SharedInv
<1> QED
  BY <1>4, <1>5, <1>6, <1>7 DEF SharedInv

LEMMA SharedStep ==
    ASSUME SharedInv, [Next]_vars
    PROVE  SharedInv'
<1>1. TypeOK'
  BY TypeStep DEF SharedInv
<1>2. CASE /\ UNCHANGED <<jobs, usage, batch>>
           /\ \A w \in Workers : phase'[w] = phase[w] \/ batch[w] = {}
  BY <1>1, <1>2, SharedFrameStep
<1>3. CASE Tick \/ ConsolidatePending \/ RetainExpired \/ UNCHANGED vars
  BY <1>2, <1>3 DEF Tick, ConsolidatePending, RetainExpired, vars
<1>4. CASE CaptureEvent
  <2>1. CASE UNCHANGED jobs
    BY <1>2, <1>4, <2>1 DEF CaptureEvent
  <2>2. CASE \E j \in JobIds, e \in EventIds :
                IsNextJobId(j) /\ jobs' = [jobs EXCEPT ![j] = NewJob(e)]
    <3>1. PICK j \in JobIds, e \in EventIds :
             IsNextJobId(j) /\ jobs' = [jobs EXCEPT ![j] = NewJob(e)]
      BY <2>2
    <3>2. /\ \A k \in JobIds : k # j => jobs'[k] = jobs[k]
          /\ jobs'[j].state = "pending" /\ jobs'[j].attempts = 0
          /\ jobs[j].state = "absent"
      BY <3>1 DEF IsNextJobId, NewJob, SharedInv, TypeOK
    <3>3. UNCHANGED <<usage, batch, phase>>
      BY <1>4 DEF CaptureEvent
    <3>4. \A w \in Workers : \A l \in batch[w] : l.job # j /\ l.job \in JobIds
      BY <3>2 DEF SharedInv, TypeOK, Lease
    <3>5. jobs'[j].attempts = jobs[j].attempts
      BY <3>2 DEF SharedInv, AbsentNeverLeased
    <3>6. LeasesSound' /\ DeadOnlyWhenExhausted' /\ AbsentNeverLeased'
      BY <3>2, <3>3, <3>4
      DEF SharedInv, LeasesSound, DeadOnlyWhenExhausted, AbsentNeverLeased
    <3>7. UsageWithinAttempts'
      BY <3>2, <3>3, <3>5 DEF SharedInv, UsageWithinAttempts, Holders
    <3> QED
      BY <1>1, <3>6, <3>7 DEF SharedInv
  <2> QED
    BY <1>4, <2>1, <2>2 DEF CaptureEvent
<1>5. ASSUME NEW w \in Workers, StartTick(w)
      PROVE  SharedInv'
  <2>1. \A v \in Workers : phase'[v] = phase[v] \/ batch[v] = {}
    BY <1>5 DEF StartTick, SharedInv, LeasesSound, TypeOK
  <2> QED
    BY <1>2, <1>5, <2>1 DEF StartTick
<1>6. ASSUME NEW w \in Workers, Abandon(w)
      PROVE  SharedInv'
  <2>1. /\ batch'[w] = {}
        /\ \A v \in Workers : v # w => batch'[v] = batch[v] /\ phase'[v] = phase[v]
        /\ UNCHANGED <<jobs, usage>>
    BY <1>6 DEF Abandon, SharedInv, TypeOK
  <2>2. LeasesSound' /\ DeadOnlyWhenExhausted' /\ AbsentNeverLeased'
    BY <2>1
    DEF SharedInv, LeasesSound, DeadOnlyWhenExhausted, AbsentNeverLeased
  <2>3. ASSUME NEW j \in JobIds
        PROVE  usage'[j] + Cardinality(Holders(j)') <= jobs'[j].attempts
    <3>1. Holders(j)' \subseteq Holders(j)
      BY <2>1 DEF Holders
    <3>2. /\ Cardinality(Holders(j)') <= Cardinality(Holders(j))
          /\ Cardinality(Holders(j)') \in Nat
          /\ Cardinality(Holders(j)) \in Nat
      BY <3>1, HoldersFinite, FS_Subset, FS_CardinalityType
    <3>3. usage[j] + Cardinality(Holders(j)) <= jobs[j].attempts
      BY DEF SharedInv, UsageWithinAttempts
    <3>4. usage[j] \in Nat /\ jobs[j].attempts \in Nat
      BY DEF SharedInv, TypeOK, JobRow
    <3> QED
      BY <2>1, <3>2, <3>3, <3>4
  <2> QED
    BY <1>1, <2>2, <2>3 DEF SharedInv, UsageWithinAttempts
<1>7. ASSUME NEW w \in Workers, CompleteEmbedJob(w)
      PROVE  SharedInv'
  <2>1. PICK l \in batch[w] :
           /\ jobs' = [jobs EXCEPT ![l.job].state = "done"]
           /\ usage' = [usage EXCEPT ![l.job] = @ + 1]
           /\ Drop(w, l)
    BY <1>7 DEF CompleteEmbedJob
  <2>2. PICK r : /\ jobs' = [jobs EXCEPT ![l.job] = r]
                 /\ r.attempts = jobs[l.job].attempts
                 /\ r.state = "done"
    <3> DEFINE r == [jobs[l.job] EXCEPT !.state = "done"]
    <3>1. jobs[l.job] \in JobRow
      BY DEF SharedInv, TypeOK, Lease
    <3>2. r.attempts = jobs[l.job].attempts /\ r.state = "done"
      BY <3>1 DEF JobRow
    <3> QED
      BY <2>1, <3>2
  <2> QED
    BY <1>1, <2>1, <2>2, SharedSettleStep
<1>8. ASSUME NEW w \in Workers, FailJob(w)
      PROVE  SharedInv'
  <2>1. PICK l \in batch[w] :
           /\ \/ Exhausted(l) /\ jobs' = [jobs EXCEPT ![l.job].state = "dead"]
              \/ jobs' = [jobs EXCEPT
                    ![l.job].state = "deferred",
                    ![l.job].scheduled =
                        Saturate(tickNow[w] + Backoff(l.attempts))]
           /\ Drop(w, l)
    BY <1>8 DEF FailJob
  <2>2. PICK r : /\ jobs' = [jobs EXCEPT ![l.job] = r]
                 /\ r.attempts = jobs[l.job].attempts
                 /\ r.state # "absent"
                 /\ r.state = "dead" => l.attempts >= MaxAttempts
    <3> DEFINE due == Saturate(tickNow[w] + Backoff(l.attempts))
    <3>1. l.job \in JobIds /\ jobs[l.job] \in JobRow
      BY DEF SharedInv, TypeOK, Lease
    <3>2. CASE Exhausted(l) /\ jobs' = [jobs EXCEPT ![l.job].state = "dead"]
      <4> DEFINE r == [jobs[l.job] EXCEPT !.state = "dead"]
      <4>1. /\ r.attempts = jobs[l.job].attempts
            /\ r.state # "absent"
            /\ l.attempts >= MaxAttempts
        BY <3>1, <3>2 DEF JobRow, Exhausted
      <4> QED
        BY <3>2, <4>1
    <3>3. CASE jobs' = [jobs EXCEPT ![l.job].state = "deferred",
                                    ![l.job].scheduled = due]
      <4> DEFINE r == [jobs[l.job] EXCEPT !.state = "deferred",
                                          !.scheduled = due]
      <4>1. r.attempts = jobs[l.job].attempts /\ r.state = "deferred"
        BY <3>1 DEF JobRow
      <4>2. jobs' = [jobs EXCEPT ![l.job] = r]
        BY <3>1, <3>3 DEF SharedInv, TypeOK
      <4> QED
        BY <4>1, <4>2
    <3> QED
      BY <2>1, <3>2, <3>3
  <2>3. UNCHANGED usage
    BY <1>8 DEF FailJob
  <2> QED
    BY <1>1, <2>1, <2>2, <2>3, SharedSettleStep
<1> QED
  BY <1>1, <1>3, <1>4, <1>5, <1>6, <1>7, <1>8, SharedLeaseStep
  DEF Next, WorkerStep

(* Whatever the number of workers and however late their answers: a job    *)
(* has no more usage rows than leases, and only a job whose attempts were  *)
(* used up is dead.                                                        *)
THEOREM SharedSafe == Spec => [](UsageWithinAttempts /\ DeadOnlyWhenExhausted)
<1>1. Init => SharedInv
  <2> SUFFICES ASSUME Init
               PROVE  SharedInv
    OBVIOUS
  <2>1. TypeOK
    BY OneWorkerInit DEF OneWorkerInv
  <2>2. \A j \in JobIds : Holders(j) = {}
    BY DEF Init, Holders
  <2>3. UsageWithinAttempts
    BY <2>2, FS_EmptySet DEF Init, UsageWithinAttempts, NoJob
  <2>4. LeasesSound /\ AbsentNeverLeased /\ DeadOnlyWhenExhausted
    BY DEF Init, LeasesSound, AbsentNeverLeased, DeadOnlyWhenExhausted, NoJob
  <2> QED
    BY <2>1, <2>3, <2>4 DEF SharedInv
<1>2. SharedInv /\ [Next]_vars => SharedInv'
  BY SharedStep
<1>3. SharedInv => UsageWithinAttempts /\ DeadOnlyWhenExhausted
  BY DEF SharedInv
<1> QED
  BY <1>1, <1>2, <1>3, PTL DEF Spec

=============================================================================
