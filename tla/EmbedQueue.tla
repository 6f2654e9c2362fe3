------------------------------ MODULE EmbedQueue ------------------------------
(***************************************************************************)
(* The durable embed queue of memoryd: the jobs, raw_events and embeddings *)
(* tables, the captures that enqueue jobs, the workers that lease and      *)
(* settle them (worker.rs, store.rs), and the two background writers that  *)
(* touch the same rows, consolidation and the retention sweep (dream.rs).  *)
(*                                                                         *)
(* Every SQL transaction is one atomic step: SQLite serialises writers.    *)
(* What is not atomic is a worker's tick: it reads the clock once, leases  *)
(* a whole batch in one transaction, embeds the jobs one after another     *)
(* outside the store, and settles each of them in a transaction of its own *)
(* that names the job by id alone.                                         *)
(***************************************************************************)
EXTENDS Integers, FiniteSets

CONSTANTS
    Workers,        \* embed workers on the database (one per running daemon)
    MaxCaptures,    \* bound: captures in a behaviour, hence events and jobs
    QueueDepth,     \* caps.queue_depth_max
    Concurrency,    \* caps.worker_concurrency: jobs leased per tick
    MaxAttempts,    \* caps.job_max_attempts
    Visibility,     \* caps.lease_visibility_secs, in clock units
    BackoffBase,    \* caps.job_backoff_base_ms, in clock units
    Horizon,        \* bound: the last clock value told apart
    MaxAbandons     \* bound: crashes and aborted ticks in a behaviour

ASSUME BoundsAssumption ==
    /\ MaxCaptures \in Nat \ {0}
    /\ Horizon \in Nat
    /\ MaxAbandons \in Nat

ASSUME WorkersAssumption == IsFiniteSet(Workers)

ASSUME CapsAssumption ==
    /\ QueueDepth \in Nat
    /\ Concurrency \in Nat
    /\ MaxAttempts \in Nat \ {0}
    /\ Visibility \in Nat
    /\ BackoffBase \in Nat

(* 1 << exponent, over the exponents the code clamps to: a fact of         *)
(* arithmetic, evaluated by TLC, that the proofs cite.                     *)
ASSUME ShiftAssumption == \A n \in 0..16 : 2^n \in Nat

VARIABLES
    now,            \* wall clock, shared by all processes
    captured,       \* number of captures so far; names each event's content
    rawEvents,      \* the raw_events table, by rowid
    jobs,           \* the jobs table, by rowid
    embeddings,     \* content embedded for a raw event id, NoVector if no row
    usage,          \* provider_usage rows written for each job
    phase,          \* where each worker is in its tick
    tickNow,        \* the clock value each worker's tick works with
    batch,          \* leases each worker holds in memory
    abandons        \* crashes and aborted ticks so far

vars == <<now, captured, rawEvents, jobs, embeddings, usage,
          phase, tickNow, batch, abandons>>

-----------------------------------------------------------------------------
Time == 0..Horizon
EventIds == 1..MaxCaptures
JobIds == 1..MaxCaptures

(* Content is named by the capture it came from; 0 is the empty text a     *)
(* lease reads when the event's FTS row is gone.                           *)
Contents == 0..MaxCaptures
EmptyText == 0
NoVector == -1

JobStates == {"absent", "pending", "running", "deferred", "done", "dead"}
Active == {"pending", "deferred", "running"}
Finished == {"done", "dead"}

NoEvent == [content |-> EmptyText, job |-> 0, consolidated |-> FALSE]
NoJob == [state |-> "absent", event |-> 0, scheduled |-> 0, started |-> 0,
          attempts |-> 0]

Live == {e \in EventIds : rawEvents[e].content # EmptyText}
ActiveJobs == {j \in JobIds : jobs[j].state \in Active}

(* Past the horizon the clock only says "later": a time the model no longer *)
(* tells apart counts as elapsed, so a bounded clock never strands a job.   *)
Elapsed(t, at) == t <= at \/ at = Horizon

Saturate(t) == IF t < Horizon THEN t ELSE Horizon

-----------------------------------------------------------------------------
Init ==
    /\ now = 0
    /\ captured = 0
    /\ rawEvents = [e \in EventIds |-> NoEvent]
    /\ jobs = [j \in JobIds |-> NoJob]
    /\ embeddings = [e \in EventIds |-> NoVector]
    /\ usage = [j \in JobIds |-> 0]
    /\ phase = [w \in Workers |-> "idle"]
    /\ tickNow = [w \in Workers |-> 0]
    /\ batch = [w \in Workers |-> {}]
    /\ abandons = 0

Tick ==
    /\ now < Horizon
    /\ now' = now + 1
    /\ UNCHANGED <<captured, rawEvents, jobs, embeddings, usage, phase,
                   tickNow, batch, abandons>>

-----------------------------------------------------------------------------
(* Capture: one transaction inserts the event and, if fewer than the depth *)
(* cap of jobs are active, its embed job; otherwise the capture is degraded *)
(* (job = 0). raw_events has no AUTOINCREMENT, so the new rowid is one more *)
(* than the largest id still in the table; jobs rows are never deleted.    *)
IsNextEventId(e) ==
    /\ \A k \in Live : k < e
    /\ e = 1 \/ e - 1 \in Live

IsNextJobId(j) ==
    /\ jobs[j].state = "absent"
    /\ \A k \in JobIds : k < j => jobs[k].state # "absent"

HasRoom == Cardinality(ActiveJobs) < QueueDepth

NewEvent(job) == [content |-> captured + 1, job |-> job, consolidated |-> FALSE]
NewJob(e) == [state |-> "pending", event |-> e, scheduled |-> now,
              started |-> 0, attempts |-> 0]

CaptureEvent ==
    /\ captured < MaxCaptures
    /\ captured' = captured + 1
    /\ \E e \in EventIds :
          /\ IsNextEventId(e)
          /\ \/ /\ HasRoom
                /\ \E j \in JobIds :
                      /\ IsNextJobId(j)
                      /\ rawEvents' = [rawEvents EXCEPT ![e] = NewEvent(j)]
                      /\ jobs' = [jobs EXCEPT ![j] = NewJob(e)]
             \/ /\ ~HasRoom
                /\ rawEvents' = [rawEvents EXCEPT ![e] = NewEvent(0)]
                /\ UNCHANGED jobs
    /\ UNCHANGED <<now, embeddings, usage, phase, tickNow, batch, abandons>>

-----------------------------------------------------------------------------
(* A worker's tick. The clock is read before the lease transaction, which  *)
(* the writer thread may run later.                                        *)
StartTick(w) ==
    /\ phase[w] = "idle"
    /\ phase' = [phase EXCEPT ![w] = "leasing"]
    /\ tickNow' = [tickNow EXCEPT ![w] = now]
    /\ UNCHANGED <<now, captured, rawEvents, jobs, embeddings, usage, batch,
                   abandons>>

\* Mutant of Ready: an expired lease is never reclaimed.
ReadyNoReclaim(j, at) ==
    /\ jobs[j].state \in {"pending", "deferred"}
    /\ Elapsed(jobs[j].scheduled, at)

Ready(j, at) ==
    \/ /\ jobs[j].state \in {"pending", "deferred"}
       /\ Elapsed(jobs[j].scheduled, at)
    \/ /\ jobs[j].state = "running"
       /\ Elapsed(jobs[j].started + Visibility, at)

ReadyJobs(at) == {j \in JobIds : Ready(j, at)}

(* ORDER BY priority, scheduled_at, id: every embed job has priority 100.  *)
Before(j, k) ==
    \/ jobs[j].scheduled < jobs[k].scheduled
    \/ jobs[j].scheduled = jobs[k].scheduled /\ j < k

Limit == IF Concurrency = 0 THEN 1 ELSE Concurrency

(* The rows the UPDATE ... WHERE id IN (SELECT ... LIMIT) may claim.        *)
IsClaim(S, at) ==
    /\ S \subseteq ReadyJobs(at)
    /\ Cardinality(S) <= Limit
    /\ S = ReadyJobs(at) \/ Cardinality(S) = Limit
    /\ \A j \in S, k \in ReadyJobs(at) \ S : Before(j, k)

\* Mutant of Leased: the text is looked up by the job's id.
LeasedByJobId(j) ==
    [job |-> j, event |-> jobs[j].event, content |-> rawEvents[j].content,
     attempts |-> jobs[j].attempts + 1]

Leased(j) ==
    [job |-> j, event |-> jobs[j].event,
     content |-> rawEvents[jobs[j].event].content,
     attempts |-> jobs[j].attempts + 1]

Claimed(j, at) ==
    [jobs[j] EXCEPT !.state = "running", !.started = at, !.attempts = @ + 1]

LeaseEmbedJobs(w) ==
    /\ phase[w] = "leasing"
    /\ \E S \in SUBSET JobIds :
          /\ IsClaim(S, tickNow[w])
          /\ jobs' = [j \in JobIds |->
                IF j \in S THEN Claimed(j, tickNow[w]) ELSE jobs[j]]
          /\ batch' = [batch EXCEPT ![w] = {Leased(j) : j \in S}]
          /\ phase' = [phase EXCEPT ![w] = IF S = {} THEN "idle" ELSE "embedding"]
    /\ UNCHANGED <<now, captured, rawEvents, embeddings, usage, tickNow,
                   abandons>>

(* A settled lease leaves the batch; the tick ends with its last lease.     *)
Drop(w, l) ==
    /\ batch' = [batch EXCEPT ![w] = @ \ {l}]
    /\ phase' = [phase EXCEPT ![w] =
            IF batch[w] = {l} THEN "idle" ELSE "embedding"]

(* The adapter returned a vector: the embedding is upserted, the usage row *)
(* written and the job marked done, whatever state the job is in by now.   *)
CompleteEmbedJob(w) ==
    /\ phase[w] = "embedding"
    /\ \E l \in batch[w] :
          /\ embeddings' = [embeddings EXCEPT ![l.event] = l.content]
          /\ usage' = [usage EXCEPT ![l.job] = @ + 1]
          /\ jobs' = [jobs EXCEPT ![l.job].state = "done"]
          /\ Drop(w, l)
    /\ UNCHANGED <<now, captured, rawEvents, tickNow, abandons>>

BackoffExponent(attempts) ==
    IF attempts <= 1 THEN 0 ELSE IF attempts > 17 THEN 16 ELSE attempts - 1

Backoff(attempts) == BackoffBase * 2^BackoffExponent(attempts)

\* Mutant of Exhausted: one attempt too few.
ExhaustedEarly(l) == l.attempts + 1 >= MaxAttempts

Exhausted(l) == l.attempts >= MaxAttempts

(* The adapter failed or returned no usable vector.                        *)
FailJob(w) ==
    /\ phase[w] = "embedding"
    /\ \E l \in batch[w] :
          /\ \/ /\ Exhausted(l)
                /\ jobs' = [jobs EXCEPT ![l.job].state = "dead"]
             \/ /\ ~Exhausted(l)
                /\ jobs' = [jobs EXCEPT
                      ![l.job].state = "deferred",
                      ![l.job].scheduled =
                          Saturate(tickNow[w] + Backoff(l.attempts))]
          /\ Drop(w, l)
    /\ UNCHANGED <<now, captured, rawEvents, embeddings, usage, tickNow,
                   abandons>>

Settle(w) == CompleteEmbedJob(w) \/ FailJob(w)

(* The worker's process dies and restarts, or a store error aborts the tick *)
(* (the ?? after each write): its leases are forgotten, their rows stay     *)
(* running.                                                                *)
Abandon(w) ==
    /\ phase[w] # "idle"
    /\ abandons < MaxAbandons
    /\ abandons' = abandons + 1
    /\ phase' = [phase EXCEPT ![w] = "idle"]
    /\ batch' = [batch EXCEPT ![w] = {}]
    /\ UNCHANGED <<now, captured, rawEvents, jobs, embeddings, usage, tickNow>>

-----------------------------------------------------------------------------
(* Dream passes. Consolidation marks events without looking at their jobs. *)
ConsolidatePending ==
    /\ \E S \in SUBSET {e \in Live : ~rawEvents[e].consolidated} :
          /\ S # {}
          /\ rawEvents' = [e \in EventIds |->
                IF e \in S THEN [rawEvents[e] EXCEPT !.consolidated = TRUE]
                           ELSE rawEvents[e]]
    /\ UNCHANGED <<now, captured, jobs, embeddings, usage, phase, tickNow,
                   batch, abandons>>

(* An event's age is the client's own timestamp (an imported event is old  *)
(* on arrival), so any consolidated events may be past a horizon: del past *)
(* the raw one (deleted with their embeddings), emb past the embedding one. *)
RetainExpired ==
    /\ \E del, emb \in SUBSET {e \in Live : rawEvents[e].consolidated} :
          /\ rawEvents' = [e \in EventIds |->
                IF e \in del THEN NoEvent ELSE rawEvents[e]]
          /\ embeddings' = [e \in EventIds |->
                IF e \in del \cup emb THEN NoVector ELSE embeddings[e]]
    /\ UNCHANGED <<now, captured, jobs, usage, phase, tickNow, batch, abandons>>

-----------------------------------------------------------------------------
WorkerStep(w) ==
    \/ StartTick(w)
    \/ LeaseEmbedJobs(w)
    \/ CompleteEmbedJob(w)
    \/ FailJob(w)
    \/ Abandon(w)

Next ==
    \/ Tick
    \/ CaptureEvent
    \/ ConsolidatePending
    \/ RetainExpired
    \/ \E w \in Workers : WorkerStep(w)

Spec == Init /\ [][Next]_vars

(* Retention is an owner opt-in and off by default: both horizons are 0.   *)
NextKeepForever ==
    \/ Tick
    \/ CaptureEvent
    \/ ConsolidatePending
    \/ \E w \in Workers : WorkerStep(w)

SpecKeepForever == Init /\ [][NextKeepForever]_vars

(* The worker thread loops for as long as the daemon runs and every call of *)
(* its tick returns (adapter calls have timeouts), and time passes.         *)
Fairness ==
    /\ WF_vars(Tick)
    /\ \A w \in Workers :
          /\ WF_vars(StartTick(w))
          /\ WF_vars(LeaseEmbedJobs(w))
          /\ WF_vars(Settle(w))

FairSpec == Spec /\ Fairness

-----------------------------------------------------------------------------
Lease == [job : JobIds, event : EventIds, content : Contents, attempts : Nat]

EventRow == [content : Contents, job : 0..MaxCaptures, consolidated : BOOLEAN]
JobRow == [state : JobStates, event : 0..MaxCaptures, scheduled : Time,
           started : Time, attempts : Nat]

TypeOK ==
    /\ now \in Time
    /\ captured \in 0..MaxCaptures
    /\ rawEvents \in [EventIds -> EventRow]
    /\ jobs \in [JobIds -> JobRow]
    /\ embeddings \in [EventIds -> Contents \cup {NoVector}]
    /\ usage \in [JobIds -> Nat]
    /\ phase \in [Workers -> {"idle", "leasing", "embedding"}]
    /\ tickNow \in [Workers -> Time]
    /\ batch \in [Workers -> SUBSET Lease]
    /\ abandons \in 0..MaxAbandons
    /\ \A j \in JobIds : jobs[j].state # "absent" => jobs[j].event \in EventIds
    /\ \A w \in Workers : \A l \in batch[w] : jobs[l.job].state # "absent"

-----------------------------------------------------------------------------
Holders(j) == {w \in Workers : \E l \in batch[w] : l.job = j}

(* The governor's promise: no interleaving of captures, failures, reclaims *)
(* and crashes makes more jobs active than queue_depth_max.                *)
QueueBounded == Cardinality(ActiveJobs) <= QueueDepth

(* A job that reached done or dead keeps that state: no late answer of an  *)
(* earlier lease re-opens or re-labels it.                                 *)
SettledOnce ==
    [][\A j \in JobIds :
          jobs[j].state \in Finished => jobs'[j].state = jobs[j].state]_vars

(* However leases expire, are reclaimed and are answered late, a job's     *)
(* usage rows never exceed the leases taken for it, counting the leases    *)
(* still in some worker's memory as answered.                              *)
UsageWithinAttempts ==
    \A j \in JobIds : usage[j] + Cardinality(Holders(j)) <= jobs[j].attempts

(* A job is dead-lettered only when all its attempts were used.            *)
DeadOnlyWhenExhausted ==
    \A j \in JobIds : jobs[j].state = "dead" => jobs[j].attempts >= MaxAttempts

(* A job is leased at most job_max_attempts times, plus once for every     *)
(* crash or aborted tick, the only ways to lose a lease unanswered.        *)
AttemptsBounded ==
    \A j \in JobIds : jobs[j].attempts <= MaxAttempts + abandons

(* A captured event whose job is done carries the vector of its own text,  *)
(* until consolidation hands the event over to the retention sweep.        *)
DoneIsEmbedded ==
    \A e \in Live :
        /\ ~rawEvents[e].consolidated
        /\ rawEvents[e].job \in JobIds
        /\ jobs[rawEvents[e].job].state = "done"
        => embeddings[e] = rawEvents[e].content

(* What a capture can observe of its job, leases and retries left out.     *)
Outcome(j) ==
    IF jobs[j].state \in Active THEN "open"
    ELSE IF jobs[j].state = "absent" THEN "none" ELSE jobs[j].state

Promise == INSTANCE EmbedPromise WITH outcome <- [j \in JobIds |-> Outcome(j)]

(* With one worker the queue keeps EmbedPromise: a job is enqueued only    *)
(* under the cap, settled exactly once, and always settled in the end.     *)
KeepsPromise == Promise!Spec

-----------------------------------------------------------------------------
(* The inductive invariants the proofs rest on.                            *)

(* Any number of workers: leases are held only while embedding, a batch    *)
(* never holds two leases of one job, and no lease is from the future.     *)
LeasesSound ==
    \A w \in Workers :
        /\ phase[w] # "embedding" => batch[w] = {}
        /\ \A l, m \in batch[w] : l.job = m.job => l = m
        /\ \A l \in batch[w] : l.attempts <= jobs[l.job].attempts

(* One worker: a lease in memory is the latest one of a job still running. *)
LeasesCurrent ==
    \A w \in Workers : \A l \in batch[w] :
        /\ jobs[l.job].state = "running"
        /\ l.attempts = jobs[l.job].attempts

(* A running job whose lease nobody holds lost it to a crash or an abort.  *)
AttemptsLeft ==
    \A j \in JobIds :
        /\ jobs[j].state \in {"absent", "pending", "deferred"} =>
              jobs[j].attempts < MaxAttempts
        /\ jobs[j].state = "running" /\ Holders(j) = {} =>
              jobs[j].attempts < MaxAttempts + abandons

AbsentNeverLeased ==
    \A j \in JobIds : jobs[j].state = "absent" => jobs[j].attempts = 0

SharedInv ==
    /\ TypeOK
    /\ AbsentNeverLeased
    /\ LeasesSound
    /\ UsageWithinAttempts
    /\ DeadOnlyWhenExhausted

OneWorker == \A v, w \in Workers : v = w

OneWorkerInv ==
    /\ TypeOK
    /\ LeasesSound
    /\ LeasesCurrent
    /\ AttemptsLeft
    /\ AttemptsBounded
    /\ QueueBounded

(* One worker: an event is joined to its job by both rows, and whatever a  *)
(* lease in memory would write over an event is the event's own text, if   *)
(* the lease is of its job or its job is done already. The leases of a     *)
(* batch were read together, so those of one event agree.                  *)
EventsJoined ==
    \A e \in Live : rawEvents[e].job \in JobIds =>
        /\ jobs[rawEvents[e].job].state # "absent"
        /\ jobs[rawEvents[e].job].event = e

LeasesFresh ==
    \A w \in Workers : \A l \in batch[w] :
        /\ l.event = jobs[l.job].event
        /\ \A m \in batch[w] : m.event = l.event => m.content = l.content
        /\ l.event \in Live /\ rawEvents[l.event].job \in JobIds =>
              \/ l.content = rawEvents[l.event].content
              \/ rawEvents[l.event].job # l.job
                 /\ jobs[rawEvents[l.event].job].state # "done"

EmbeddedInv ==
    /\ OneWorkerInv
    /\ EventsJoined
    /\ LeasesFresh
    /\ DoneIsEmbedded

=============================================================================
