------------------------------ MODULE Provider ------------------------------
(***************************************************************************)
(* The processes of memoryd that call a provider, under one configuration: *)
(* the embed worker, whose HTTP retries are inside the attempts of a job,  *)
(* inside the ticks, with a fallback to the local adapter after a failed   *)
(* tick; the dream pass, which chats and embeds the memories; and recall,  *)
(* which compares the vectors both have stored with the query's (main.rs,  *)
(* worker.rs, store.rs, openaicompat.rs; Config and Adapters for the rest).*)
(*                                                                         *)
(* The endpoint answers, is overloaded or is unreachable, and changes at   *)
(* any time. A request takes no time of its own: time passes between the   *)
(* steps. Times are cut at the horizon. EmbedQueue has the queue itself,   *)
(* DreamPass the pass. One memory and one query stand for all of them.     *)
(***************************************************************************)
EXTENDS Adapters, FiniteSets

CONSTANTS
    Environments,   \* what a shell that starts memoryd may export
    CommandLines,   \* the flags it may be started with
    Jobs,           \* embed jobs, all enqueued at time 0
    Conditions,     \* what the endpoint may be: up, overloaded, unreachable
    MaxRetries,     \* MAX_PROVIDER_RETRIES
    RetryBase,      \* RETRY_BACKOFF_BASE
    RetryAfterCap,  \* RETRY_AFTER_CAP
    Concurrency,    \* worker_concurrency
    MaxAttempts,    \* job_max_attempts
    BackoffBase,    \* job_backoff_base_ms
    Visibility,     \* lease_visibility_secs
    Cooldown,       \* ADAPTER_FALLBACK_COOLDOWN_MS
    Horizon,        \* bound: the last clock value
    MaxStoreErrors  \* bound: ticks cut by a store error

ASSUME ProviderTimesAssumption ==
    /\ RetryBase \in Nat /\ RetryAfterCap \in Nat
    /\ BackoffBase \in Nat /\ Visibility \in Nat
    /\ Cooldown \in Nat /\ Horizon \in Nat

ASSUME ProviderCapsAssumption ==
    /\ IsFiniteSet(Jobs) /\ Jobs \cap {"none", "memory", "query"} = {}
    /\ Conditions \subseteq {"up", "overloaded", "unreachable"} /\ Conditions # {}
    /\ MaxRetries \in Nat
    /\ Concurrency \in Nat \ {0}
    /\ MaxAttempts \in Nat \ {0}
    /\ MaxStoreErrors \in Nat

VARIABLES
    config,         \* the configuration, the same for every process
    now,            \* wall clock
    endpoint,       \* the condition of the provider's endpoint
    jobs,           \* the jobs table: state, attempts, next time it is ready
    batch,          \* jobs leased by the tick and not yet settled
    adapter,        \* the adapter of the tick, "none" between ticks
    tickNow,        \* the clock value of the tick
    call,           \* the embed call under way: its job, retries, next try
    fallbackUntil,  \* the worker embeds locally until then
    requests,       \* HTTP requests sent for each job
    storeErrors,    \* ticks cut by a store error so far
    embeddings,     \* the embeddings table: owners and models
    fallbacks,      \* jobs completed by a fallback adapter
    chatted         \* whether a request for a chat completion has been sent

worker == <<batch, adapter, tickNow, call, fallbackUntil>>
stored == <<embeddings, fallbacks>>
vars == <<config, now, endpoint, jobs, worker, requests, storeErrors, stored, chatted>>

-----------------------------------------------------------------------------
Finished == {"done", "dead"}
NoCall == [job |-> "none", retries |-> 0, wake |-> 0]
Saturate(t) == IF t > Horizon THEN Horizon ELSE t

Init ==
    /\ \E env \in Environments, flags \in CommandLines :
          Starts(env, flags) /\ config = CommandLine(env, flags)
    /\ now = 0
    /\ endpoint \in Conditions
    /\ jobs = [j \in Jobs |-> [state |-> "pending", attempts |-> 0, at |-> 0]]
    /\ batch = {}
    /\ adapter = NoAdapter
    /\ tickNow = 0
    /\ call = NoCall
    /\ fallbackUntil = 0
    /\ requests = [j \in Jobs |-> 0]
    /\ storeErrors = 0
    /\ embeddings = {}
    /\ fallbacks = {}
    /\ chatted = FALSE

Tick ==
    /\ now < Horizon
    /\ now' = now + 1
    /\ UNCHANGED <<config, endpoint, jobs, worker, requests, storeErrors, stored, chatted>>

EndpointChanges ==
    /\ endpoint' \in Conditions \ {endpoint}
    /\ UNCHANGED <<config, now, jobs, worker, requests, storeErrors, stored, chatted>>

-----------------------------------------------------------------------------
(* The worker's loop: the adapter of the tick, the lease.                  *)
ReadyJobs == {j \in Jobs : jobs[j].state \notin Finished /\ jobs[j].at <= now}

IsClaim(S) ==
    /\ S \subseteq ReadyJobs
    /\ Cardinality(S) <= Concurrency
    /\ S = ReadyJobs \/ Cardinality(S) = Concurrency

PassAdapter == IF now < fallbackUntil THEN LocalAdapter ELSE EmbedFromProviderConfig(config)

Claimed(j) ==
    [state |-> "running", attempts |-> jobs[j].attempts + 1,
     at |-> Saturate(now + Visibility)]

StartTick ==
    /\ adapter = NoAdapter
    /\ \E S \in SUBSET Jobs :
          /\ S # {}
          /\ IsClaim(S)
          /\ batch' = S
          /\ jobs' = [j \in Jobs |-> IF j \in S THEN Claimed(j) ELSE jobs[j]]
    /\ adapter' = PassAdapter
    /\ tickNow' = now
    /\ UNCHANGED <<config, now, endpoint, call, fallbackUntil, requests, storeErrors,
                   stored, chatted>>

-----------------------------------------------------------------------------
(* Settling a job uses the clock value of the tick, however long ago.      *)
EndCall(j) ==
    /\ batch' = batch \ {j}
    /\ adapter' = IF batch = {j} THEN NoAdapter ELSE adapter
    /\ call' = NoCall
    /\ UNCHANGED <<tickNow, fallbackUntil>>

Backoff(attempts) == BackoffBase * 2^(attempts - 1)

Failed(j) ==
    IF jobs[j].attempts >= MaxAttempts
    THEN [jobs[j] EXCEPT !.state = "dead"]
    ELSE [state |-> "deferred", attempts |-> jobs[j].attempts,
          at |-> Saturate(tickNow + Backoff(jobs[j].attempts))]

CompleteJob(j) ==
    /\ jobs' = [jobs EXCEPT ![j].state = "done"]
    /\ embeddings' = embeddings \cup {<<j, ModelId(adapter)>>}
    /\ fallbacks' = IF adapter = EmbedFromProviderConfig(config) THEN fallbacks
                    ELSE fallbacks \cup {j}
    /\ EndCall(j)

FailJob(j) ==
    /\ jobs' = [jobs EXCEPT ![j] = Failed(j)]
    /\ UNCHANGED stored
    /\ EndCall(j)

RetryDelays(retries) ==
    {RetryBase * 2^retries} \cup (IF endpoint = "overloaded" THEN 0..RetryAfterCap ELSE {})

\* Mutant of MayRetry: one request too many.
MayRetryOnce(retries) == retries <= MaxRetries

MayRetry(retries) == retries < MaxRetries

Retry(j) ==
    /\ \E delay \in RetryDelays(call.retries) :
          call' = [job |-> j, retries |-> call.retries + 1, wake |-> Saturate(now + delay)]
    /\ UNCHANGED <<jobs, batch, adapter, tickNow, fallbackUntil, stored>>

Attempted(j) ==
    /\ adapter.kind = "openai_compat"
    /\ \/ call = NoCall /\ j \in batch
       \/ call.job = j /\ now >= call.wake

(* One HTTP request of the call: a status the code does not retry, or a    *)
(* body it cannot use, fails the call at once.                             *)
Request(j) ==
    /\ Attempted(j)
    /\ requests' = [requests EXCEPT ![j] = @ + 1]
    /\ \/ endpoint = "up" /\ CompleteJob(j)
       \/ endpoint = "up" /\ FailJob(j)
       \/ endpoint # "up" /\ MayRetry(call.retries) /\ Retry(j)
       \/ endpoint # "up" /\ ~MayRetry(call.retries) /\ FailJob(j)
    /\ UNCHANGED <<config, now, endpoint, storeErrors, chatted>>

EmbedInProcess(j) ==
    /\ adapter.kind \in InProcess
    /\ j \in batch
    /\ \/ CompleteJob(j)
       \/ MayFail(adapter) /\ FailJob(j)
    /\ UNCHANGED <<config, now, endpoint, requests, storeErrors, chatted>>

(* Only a store error fails a tick, at its lease or later. The worker then *)
(* probes the endpoint, unless it is already falling back.                 *)
TickFails ==
    /\ storeErrors < MaxStoreErrors
    /\ storeErrors' = storeErrors + 1
    /\ LET started == IF adapter = NoAdapter THEN now ELSE tickNow
           primary == EmbedFromProviderConfig(config)
       IN  fallbackUntil' = IF started >= fallbackUntil /\ Degraded(primary, endpoint)
                            THEN Saturate(started + Cooldown)
                            ELSE fallbackUntil
    /\ batch' = {}
    /\ adapter' = NoAdapter
    /\ call' = NoCall
    /\ UNCHANGED <<config, now, endpoint, jobs, tickNow, requests, stored, chatted>>

-----------------------------------------------------------------------------
(* A dream pass, of the daemon or of the command line: one probe, then the *)
(* language model if there is one, and the embeddings of the memories. A   *)
(* chat that fails ends the pass.                                          *)
DreamAdapter ==
    ForDream(EmbedFromProviderConfig(config),
             EffectiveForPass(FromProviderConfig(config), endpoint))

Associates(dreamer) ==
    /\ EmbedsSemantically(dreamer)
    /\ Reachable(dreamer, endpoint)
    /\ MayAnswer(EmbedSide(dreamer), endpoint)

DreamPass ==
    /\ LET dreamer == DreamAdapter
       IN  \E chats \in BOOLEAN, answered \in BOOLEAN, associates \in BOOLEAN :
              /\ chats => Chats(dreamer)
              /\ answered => MayAnswer(ChatSide(dreamer), endpoint)
              /\ associates => Associates(dreamer) /\ (chats => answered)
              /\ chatted' = (chatted \/ chats)
              /\ embeddings' = embeddings \cup
                                (IF associates THEN {<<"memory", EmbedModelId(dreamer)>>} ELSE {})
    /\ UNCHANGED <<config, now, endpoint, jobs, worker, requests, storeErrors, fallbacks>>

(* What recall compares: nothing without a usable vector of the query,     *)
(* which is cached, or embedded and cached; else what the model embedded.  *)
RecallAdapter == EmbedFromProviderConfig(config)
HasVector(owner) == <<owner, ModelId(RecallAdapter)>> \in embeddings

IsSemantic == Reachable(RecallAdapter, endpoint) /\ EmbedsSemantically(RecallAdapter)
HasQueryVector == HasVector("query") \/ MayAnswer(RecallAdapter, endpoint)

ComparedEvents == {j \in Jobs : IsSemantic /\ HasQueryVector /\ HasVector(j)}
ComparedMemories == {m \in {"memory"} : IsSemantic /\ HasQueryVector /\ HasVector(m)}

Recall ==
    /\ IsSemantic
    /\ ~HasVector("query")
    /\ MayAnswer(RecallAdapter, endpoint)
    /\ embeddings' = embeddings \cup {<<"query", ModelId(RecallAdapter)>>}
    /\ UNCHANGED <<config, now, endpoint, jobs, worker, requests, storeErrors, fallbacks, chatted>>

-----------------------------------------------------------------------------
WorkerStep ==
    \/ StartTick
    \/ \E j \in Jobs : Request(j) \/ EmbedInProcess(j)
    \/ TickFails

Next == Tick \/ EndpointChanges \/ WorkerStep \/ DreamPass \/ Recall

Spec == Init /\ [][Next]_vars

-----------------------------------------------------------------------------
JobRow == [state : {"pending", "running", "deferred"} \cup Finished,
           attempts : Nat, at : 0..Horizon]

TypeOK ==
    /\ Validate(config)
    /\ now \in 0..Horizon
    /\ endpoint \in Conditions
    /\ jobs \in [Jobs -> JobRow]
    /\ batch \subseteq Jobs
    /\ adapter = NoAdapter <=> batch = {}
    /\ tickNow \in 0..now
    /\ call.job \in batch \cup {"none"}
    /\ fallbackUntil \in 0..Horizon
    /\ requests \in [Jobs -> Nat]
    /\ storeErrors \in 0..MaxStoreErrors
    /\ fallbacks \subseteq Jobs
    /\ chatted \in BOOLEAN

-----------------------------------------------------------------------------
(* The retries of a call multiply with the attempts of its job, and no     *)
(* more: a job costs at most job_max_attempts * (1 + MAX_PROVIDER_RETRIES) *)
(* requests, and one attempt more per failed tick ("Total attempts = 1 +   *)
(* this", openaicompat.rs:28).                                             *)
RequestsBounded ==
    \A j \in Jobs :
        /\ requests[j] <= jobs[j].attempts * (1 + MaxRetries)
        /\ requests[j] <= (MaxAttempts + storeErrors) * (1 + MaxRetries)

(* Embeddings and chat are configured apart, and the worker, the dream     *)
(* pass and recall each choose their adapter: whatever the configuration   *)
(* and the endpoint when a vector was stored, recall compares the vector   *)
(* of every event embedded outside a fallback, and of every memory the     *)
(* pass embedded, as soon as it has a vector of the query ("keeping recall *)
(* and persisted vectors on one consistent embed model", adapters.rs:180). *)
VectorsAreRecalled ==
    IsSemantic /\ HasQueryVector =>
        /\ \A j \in Jobs : jobs[j].state = "done" /\ j \notin fallbacks => j \in ComparedEvents
        /\ \A row \in embeddings : row[1] = "memory" => "memory" \in ComparedMemories

(* A chat completion is asked of a provider only under a configuration     *)
(* with a spend cap, an http URL and no blank key, from whatever answers,  *)
(* variables and flags it was put together ("Paid APIs require explicit    *)
(* opt-in and a non-zero spend budget", ARCHITECTURE-PLAN.md:175).         *)
ChatIsBudgeted ==
    chatted =>
        /\ config.spendCap > 0
        /\ config.baseUrl \in {"http", "https"}
        /\ "blank" \notin config.apiKey

=============================================================================
