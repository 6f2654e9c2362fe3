---------------------------- MODULE ClientProofs ----------------------------
(***************************************************************************)
(* Proofs about what runs for a user beside the daemon's own threads: the  *)
(* processes that call a provider, the hooks in the config files of coding *)
(* agents, and the viewer.                                                 *)
(***************************************************************************)
EXTENDS Provider, AgentSetup, Console,
        FiniteSetTheorems, NaturalsInduction, WellFoundedInduction, TLAPS

-----------------------------------------------------------------------------
(***************************************************************************)
(* The processes that call a provider: any environments, jobs, endpoint    *)
(* conditions and caps.                                                    *)
(***************************************************************************)

(* Embed models: recall looks up what the worker and the pass store.       *)

EmbedAdapter == EmbedFromProviderConfig(config)

Whole(adapter1) == adapter1.kind \in {"null", "local", "openai_compat"}

(* Every vector but those of a fallback is stamped with the model of the   *)
(* embed adapter.                                                          *)
Stamped ==
    /\ \A j \in Jobs :
          jobs[j].state = "done" /\ j \notin fallbacks => <<j, EmbedAdapter.model>> \in embeddings
    /\ \A row \in embeddings : row[1] = "memory" => row = <<"memory", EmbedAdapter.model>>

(* A job is the job it was, but for its row.                               *)
JobsAreRows ==
    /\ jobs = [j \in Jobs |-> jobs[j]]
    /\ \A j \in Jobs :
          /\ jobs[j] = [state |-> jobs[j].state, attempts |-> jobs[j].attempts, at |-> jobs[j].at]
          /\ jobs[j].attempts \in Nat

(* No adapter is a split but the one of a dream pass.                      *)
LEMMA ResolveWhole ==
    ASSUME NEW c, NEW name
    PROVE  Whole(Resolve(c, name)) /\ Resolve(c, name) # NoAdapter
<1>1. Whole(Resolve(c, name))
  BY DEF Resolve, Whole, OpenAiCompat, LocalAdapter, NullAdapter
<1>2. NoAdapter.kind = "none"
  BY DEF NoAdapter
<1> QED
  BY <1>1, <1>2 DEF Whole

LEMMA AdaptersWhole ==
    /\ Whole(EmbedAdapter) /\ EmbedAdapter # NoAdapter
    /\ Whole(PassAdapter) /\ PassAdapter # NoAdapter
    /\ Whole(EffectiveForPass(FromProviderConfig(config), endpoint))
<1>1. Whole(EmbedAdapter) /\ EmbedAdapter # NoAdapter /\ Whole(FromProviderConfig(config))
  BY ResolveWhole DEF EmbedAdapter, EmbedFromProviderConfig, FromProviderConfig
<1>2. Whole(LocalAdapter) /\ LocalAdapter # NoAdapter
  BY DEF Whole, LocalAdapter, NoAdapter
<1> QED
  BY <1>1, <1>2 DEF PassAdapter, EmbedAdapter, EffectiveForPass

(* An adapter that is no split names its own model.                        *)
LEMMA WholeModel ==
    ASSUME NEW a, Whole(a)
    PROVE  /\ ModelId(a) = a.model /\ EmbedModelId(a) = a.model /\ Id(a) = a.kind
           /\ EmbedSide(a) = a /\ ChatSide(a) = a
  BY DEF Whole, ModelId, EmbedModelId, Id, EmbedSide, ChatSide

(* Whatever the chat side is, a pass embeds under the embed side's model.  *)
LEMMA DreamModel ==
    ASSUME NEW embed, NEW chat, Whole(embed), Whole(chat)
    PROVE  /\ EmbedModelId(ForDream(embed, chat)) = embed.model
           /\ ChatSide(ForDream(embed, chat)) = chat
<1>1. CASE Id(embed) = Id(chat) /\ ModelId(embed) = ModelId(chat)
  BY <1>1, WholeModel DEF ForDream
<1>2. CASE ~(Id(embed) = Id(chat) /\ ModelId(embed) = ModelId(chat))
  <2>1. ForDream(embed, chat) = Split(embed, chat)
    BY <1>2 DEF ForDream
  <2>2. /\ Split(embed, chat).kind = "split"
        /\ Split(embed, chat).embed = embed
        /\ Split(embed, chat).chat = chat
    BY DEF Split
  <2> QED
    BY <2>1, <2>2 DEF EmbedModelId, EmbedSide, ChatSide
<1> QED
  BY <1>1, <1>2


-----------------------------------------------------------------------------
(* How a lease and a settlement change the rows.                           *)

LEMMA RowFields ==
    ASSUME NEW s, NEW a, NEW t, NEW row, row = [state |-> s, attempts |-> a, at |-> t]
    PROVE  /\ row.state = s /\ row.attempts = a /\ row.at = t
           /\ row = [state |-> row.state, attempts |-> row.attempts, at |-> row.at]
  OBVIOUS

LEMMA CompleteRow ==
    ASSUME JobsAreRows, NEW j \in Jobs, CompleteJob(j)
    PROVE  /\ JobsAreRows'
           /\ jobs'[j].state = "done" /\ jobs'[j].attempts = jobs[j].attempts
           /\ \A k \in Jobs \ {j} : jobs'[k] = jobs[k]
<1>1. jobs' = [jobs EXCEPT ![j].state = "done"]
  BY DEF CompleteJob
<1>2. jobs'[j] = [state |-> "done", attempts |-> jobs[j].attempts, at |-> jobs[j].at]
  BY <1>1 DEF JobsAreRows
<1>3. \A k \in Jobs \ {j} : jobs'[k] = jobs[k]
  BY <1>1 DEF JobsAreRows
<1>4. jobs' = [k \in Jobs |-> jobs'[k]]
  BY <1>1 DEF JobsAreRows
<1> QED
  BY <1>2, <1>3, <1>4 DEF JobsAreRows

LEMMA FailRow ==
    ASSUME JobsAreRows, NEW j \in Jobs, FailJob(j)
    PROVE  /\ JobsAreRows'
           /\ \/ jobs'[j].state = "dead"
              \/ jobs'[j].state = "deferred" /\ ~(jobs[j].attempts >= MaxAttempts)
           /\ jobs'[j].attempts = jobs[j].attempts
           /\ \A k \in Jobs \ {j} : jobs'[k] = jobs[k]
<1>1. jobs' = [jobs EXCEPT ![j] = Failed(j)]
  BY DEF FailJob
<1>2. jobs'[j] = Failed(j)
  BY <1>1 DEF JobsAreRows
<1> DEFINE later == Saturate(tickNow + Backoff(jobs[j].attempts))
           dead == [state |-> "dead", attempts |-> jobs[j].attempts, at |-> jobs[j].at]
           deferred == [state |-> "deferred", attempts |-> jobs[j].attempts, at |-> later]
<1>3. \/ jobs'[j] = dead
      \/ jobs'[j] = deferred /\ ~(jobs[j].attempts >= MaxAttempts)
  <2> HIDE DEF later
  <2>1. [jobs[j] EXCEPT !.state = "dead"] = dead
    BY DEF JobsAreRows
  <2> QED
    BY <1>2, <2>1 DEF Failed, later
<1>4. \A k \in Jobs \ {j} : jobs'[k] = jobs[k]
  BY <1>1 DEF JobsAreRows
<1>5. jobs' = [k \in Jobs |-> jobs'[k]]
  BY <1>1 DEF JobsAreRows
<1> HIDE DEF later
<1>6. /\ jobs'[j] = [state |-> jobs'[j].state, attempts |-> jobs'[j].attempts, at |-> jobs'[j].at]
      /\ jobs'[j].attempts = jobs[j].attempts
  BY <1>3
<1>7. \/ jobs'[j].state = "dead"
      \/ jobs'[j].state = "deferred" /\ ~(jobs[j].attempts >= MaxAttempts)
  BY <1>3
<1> QED
  BY <1>4, <1>5, <1>6, <1>7 DEF JobsAreRows

LEMMA StartRows ==
    ASSUME JobsAreRows, StartTick
    PROVE  /\ JobsAreRows'
           /\ batch' \subseteq ReadyJobs
           /\ \A k \in Jobs :
                 IF k \in batch'
                 THEN jobs'[k].state = "running" /\ jobs'[k].attempts = jobs[k].attempts + 1
                 ELSE jobs'[k] = jobs[k]
<1>0. \A k \in Jobs : jobs[k].attempts \in Nat
  BY DEF JobsAreRows
<1>1. PICK S \in SUBSET Jobs :
          /\ S \subseteq ReadyJobs /\ batch' = S
          /\ jobs' = [j \in Jobs |-> IF j \in S THEN Claimed(j) ELSE jobs[j]]
  BY DEF StartTick, IsClaim
<1> DEFINE lease == Saturate(now + Visibility)
<1>2. \A k \in S : jobs'[k] = [state |-> "running", attempts |-> jobs[k].attempts + 1, at |-> lease]
  BY <1>1 DEF Claimed
<1>3. \A k \in Jobs \ S : jobs'[k] = jobs[k]
  BY <1>1
<1> HIDE DEF lease
<1>4. \A k \in S :
          /\ jobs'[k].state = "running" /\ jobs'[k].attempts = jobs[k].attempts + 1
          /\ jobs'[k] = [state |-> jobs'[k].state, attempts |-> jobs'[k].attempts, at |-> jobs'[k].at]
  <2>1. ASSUME NEW k \in S
        PROVE  /\ jobs'[k].state = "running" /\ jobs'[k].attempts = jobs[k].attempts + 1
               /\ jobs'[k] = [state |-> jobs'[k].state, attempts |-> jobs'[k].attempts,
                              at |-> jobs'[k].at]
    <3>1. jobs'[k] = [state |-> "running", attempts |-> jobs[k].attempts + 1, at |-> lease]
      BY <1>2
    <3> QED
      BY <3>1, RowFields
  <2> QED
    BY <2>1
<1>5. jobs' = [k \in Jobs |-> jobs'[k]]
  BY <1>1
<1>6. \A k \in Jobs : jobs'[k].attempts \in Nat
  <2>1. \A k \in S : jobs'[k].attempts \in Nat
    <3>1. ASSUME NEW k \in S
          PROVE  jobs'[k].attempts \in Nat
      <4>1. jobs'[k].attempts = jobs[k].attempts + 1
        BY <1>4
      <4>2. jobs[k].attempts \in Nat
        BY <1>0
      <4> QED
        BY <4>1, <4>2
    <3> QED
      BY <3>1
  <2>2. \A k \in Jobs \ S : jobs'[k].attempts \in Nat
    BY <1>0, <1>3
  <2> QED
    BY <2>1, <2>2
<1> QED
  BY <1>1, <1>3, <1>4, <1>5, <1>6 DEF JobsAreRows

(* A step of the worker starts a tick, sends a request it will repeat,     *)
(* settles a job, or cuts the tick; any other step leaves the jobs alone.  *)
LEMMA ProviderSteps ==
    ASSUME [Next]_vars
    PROVE  \/ StartTick
           \/ TickFails
           \/ \E j \in Jobs : Request(j)
           \/ \E j \in Jobs : EmbedInProcess(j)
           \/ DreamPass
           \/ Recall
           \/ UNCHANGED <<config, jobs, worker, requests, storeErrors, stored, chatted>>
  BY DEF Next, WorkerStep, Tick, EndpointChanges, vars, worker, stored

(* A step leaves every job a row of the queue with a count of its attempts *)
(* (lease_embed_jobs, complete_embed_job).                                 *)
THEOREM RowsInductive ==
    /\ Init => JobsAreRows
    /\ JobsAreRows /\ [Next]_vars => JobsAreRows'
<1>1. Init => JobsAreRows
  BY DEF Init, JobsAreRows
<1>2. ASSUME JobsAreRows, [Next]_vars
      PROVE  JobsAreRows'
  <2>1. CASE StartTick
    BY <1>2, <2>1, StartRows
  <2>2. ASSUME NEW j \in Jobs, CompleteJob(j) \/ FailJob(j)
        PROVE  JobsAreRows'
    BY <1>2, <2>2, CompleteRow, FailRow
  <2>3. CASE \E j \in Jobs : Request(j)
    <3>1. PICK j \in Jobs : CompleteJob(j) \/ FailJob(j) \/ Retry(j)
      BY <2>3 DEF Request
    <3>2. CASE Retry(j)
      BY <3>2, <1>2 DEF Retry, JobsAreRows
    <3> QED
      BY <3>1, <3>2, <2>2
  <2>4. CASE \E j \in Jobs : EmbedInProcess(j)
    BY <2>4, <2>2 DEF EmbedInProcess
  <2>5. CASE UNCHANGED jobs
    BY <2>5, <1>2 DEF JobsAreRows
  <2>6. TickFails \/ DreamPass \/ Recall => UNCHANGED jobs
    BY DEF TickFails, DreamPass, Recall
  <2> QED
    BY <1>2, <2>1, <2>3, <2>4, <2>5, <2>6, ProviderSteps
<1> QED
  BY <1>1, <1>2

-----------------------------------------------------------------------------
(* Recall and the vectors.                                                 *)

(* No step stores a vector under another model id than that of the embed   *)
(* adapter in use, fallbacks aside (worker.rs).                            *)
THEOREM StampedInductive ==
    /\ Init => Stamped
    /\ JobsAreRows /\ Stamped /\ [Next]_vars => Stamped'
<1>1. Init => Stamped
  BY DEF Init, Stamped
<1>2. ASSUME JobsAreRows, Stamped, [Next]_vars
      PROVE  Stamped'
  <2> DEFINE model == EmbedAdapter.model
  <2>1. config' = config => EmbedAdapter' = EmbedAdapter
    BY DEF EmbedAdapter, EmbedFromProviderConfig
  <2>2. ASSUME config' = config, jobs' = jobs, UNCHANGED stored
        PROVE  Stamped'
    BY <1>2, <2>1, <2>2 DEF Stamped, stored
  <2>3. CASE StartTick
    <3>1. /\ config' = config /\ UNCHANGED stored
          /\ \A k \in Jobs : jobs'[k].state = "done" => jobs[k].state = "done"
      BY <1>2, <2>3, StartRows DEF StartTick
    <3> QED
      BY <1>2, <3>1, <2>1 DEF Stamped, stored
  <2>4. ASSUME NEW j \in Jobs, CompleteJob(j), config' = config
        PROVE  Stamped'
    <3>1. /\ embeddings' = embeddings \cup {<<j, ModelId(adapter)>>}
          /\ adapter = EmbedAdapter \/ j \in fallbacks'
          /\ fallbacks \subseteq fallbacks'
      BY <2>4 DEF CompleteJob, EmbedAdapter
    <3>2. adapter = EmbedAdapter => ModelId(adapter) = model
      BY AdaptersWhole, WholeModel
    <3>3. \A k \in Jobs \ {j} : jobs'[k] = jobs[k]
      BY <1>2, <2>4, CompleteRow
    <3>4. j # "memory"
      BY ProviderCapsAssumption
    <3>5. \A k \in Jobs : jobs'[k].state = "done" /\ k \notin fallbacks' => <<k, model>> \in embeddings'
      BY <1>2, <3>1, <3>2, <3>3 DEF Stamped
    <3>6. \A row \in embeddings' : row[1] = "memory" => row = <<"memory", model>>
      BY <1>2, <3>1, <3>4 DEF Stamped
    <3> QED
      BY <3>5, <3>6, <2>1, <2>4 DEF Stamped
  <2>5. ASSUME NEW j \in Jobs, FailJob(j), config' = config
        PROVE  Stamped'
    <3>1. \A k \in Jobs : jobs'[k].state = "done" => jobs[k].state = "done"
      BY <1>2, <2>5, FailRow
    <3> QED
      BY <1>2, <3>1, <2>1, <2>5 DEF Stamped, FailJob, stored
  <2>6. CASE \E j \in Jobs : Request(j)
    BY <2>6, <2>2, <2>4, <2>5 DEF Request, Retry
  <2>7. CASE \E j \in Jobs : EmbedInProcess(j)
    BY <2>7, <2>4, <2>5 DEF EmbedInProcess
  <2>8. CASE DreamPass
    <3>1. /\ config' = config /\ jobs' = jobs /\ fallbacks' = fallbacks
          /\ \/ embeddings' = embeddings
             \/ embeddings' = embeddings \cup {<<"memory", EmbedModelId(DreamAdapter)>>}
      BY <2>8 DEF DreamPass
    <3>2. EmbedModelId(DreamAdapter) = model
      BY AdaptersWhole, DreamModel DEF DreamAdapter, EmbedAdapter
    <3> QED
      BY <1>2, <2>1, <3>1, <3>2 DEF Stamped
  <2>9. CASE Recall
    <3>1. /\ config' = config /\ jobs' = jobs /\ fallbacks' = fallbacks
          /\ embeddings' = embeddings \cup {<<"query", ModelId(RecallAdapter)>>}
      BY <2>9 DEF Recall
    <3> QED
      BY <1>2, <2>1, <3>1 DEF Stamped
  <2>10. TickFails => config' = config /\ jobs' = jobs /\ UNCHANGED stored
    BY DEF TickFails
  <2> QED
    BY <1>2, <2>2, <2>3, <2>6, <2>7, <2>8, <2>9, <2>10, ProviderSteps
<1> QED
  BY <1>1, <1>2

(* What is stamped with the embed adapter's model is what recall compares. *)
THEOREM RecallFindsVectors == Spec => []VectorsAreRecalled
<1>1. Stamped => VectorsAreRecalled
  <2>1. ModelId(RecallAdapter) = EmbedAdapter.model
    BY AdaptersWhole, WholeModel DEF RecallAdapter, EmbedAdapter
  <2>2. ASSUME Stamped, IsSemantic, HasQueryVector, NEW j \in Jobs,
               jobs[j].state = "done", j \notin fallbacks
        PROVE  j \in ComparedEvents
    BY <2>1, <2>2 DEF Stamped, ComparedEvents, HasVector
  <2>3. ASSUME Stamped, IsSemantic, HasQueryVector, NEW row \in embeddings, row[1] = "memory"
        PROVE  "memory" \in ComparedMemories
    <3>1. row = <<"memory", EmbedAdapter.model>>
      BY <2>3 DEF Stamped
    <3> QED
      BY <2>1, <2>3, <3>1 DEF ComparedMemories, HasVector
  <2> QED
    BY <2>2, <2>3 DEF VectorsAreRecalled
<1>2. Spec => [](JobsAreRows /\ Stamped)
  BY RowsInductive, StampedInductive, PTL DEF Spec
<1> QED
  BY <1>1, <1>2, PTL

-----------------------------------------------------------------------------
(* Budgets.                                                                *)

Opted ==
    /\ Validate(config)
    /\ config.spendCap \in Nat
    /\ chatted => config.adapter = "openai_compat"

(* The spend cap of a configuration is the variable's, or zero.            *)
LEMMA SpendCapIsRead ==
    ASSUME NEW env, NEW flags, EnvIsRead(env)
    PROVE  CommandLine(env, flags).spendCap \in Nat
<1> DEFINE given == [Defaults EXCEPT !.bind = flags.bind, !.token = flags.token]
           read == ApplyEnv(given, env)
<1>1. given.spendCap = 0 /\ "spendCap" \in DOMAIN given
  BY DEF Defaults
<1>2. read.spendCap = Given(env.SPEND_CAP_USD, given.spendCap)
  <2> HIDE DEF given
  <2> QED
    BY <1>1 DEF ApplyEnv
<1>3. "spendCap" \in DOMAIN read
  <2> HIDE DEF given
  <2> QED
    BY <1>1 DEF ApplyEnv
<1>4. CommandLine(env, flags).spendCap = read.spendCap
  <2>1. CommandLine(env, flags) = [read EXCEPT !.adapter = Given(flags.adapter, @)]
    BY DEF CommandLine
  <2> HIDE DEF read
  <2> QED
    BY <2>1, <1>3
<1>5. Given(env.SPEND_CAP_USD, 0) \in Nat
  BY DEF Given, EnvIsRead, Unset
<1> QED
  BY <1>1, <1>2, <1>4, <1>5

(* No step runs with a configuration that did not pass validation, or sends *)
(* a chat completion with the local adapters (config.rs, validate).        *)
THEOREM OptedInductive ==
    /\ Init => Opted
    /\ Opted /\ [Next]_vars => Opted'
<1>1. Init => Opted
  BY SpendCapIsRead DEF Init, Starts, Opted
<1>2. ASSUME Opted, [Next]_vars
      PROVE  Opted'
  <2>1. ASSUME config' = config, chatted' => chatted \/ config.adapter = "openai_compat"
        PROVE  Opted'
    BY <1>2, <2>1 DEF Opted
  <2>2. CASE DreamPass
    <3>1. config' = config /\ (chatted' => chatted \/ Chats(DreamAdapter))
      BY <2>2 DEF DreamPass
    <3>2. ASSUME Chats(DreamAdapter)
          PROVE  config.adapter = "openai_compat"
      <4>1. ChatSide(DreamAdapter) = EffectiveForPass(FromProviderConfig(config), endpoint)
        BY AdaptersWhole, DreamModel DEF DreamAdapter, EmbedAdapter
      <4>2. FromProviderConfig(config).kind = "openai_compat"
        BY <3>2, <4>1 DEF Chats, EffectiveForPass, LocalAdapter
      <4> QED
        BY <4>2 DEF FromProviderConfig, Resolve, LocalAdapter, NullAdapter
    <3> QED
      BY <2>1, <3>1, <3>2
  <2>3. \A j \in Jobs : Request(j) \/ EmbedInProcess(j) => UNCHANGED <<config, chatted>>
    BY DEF Request, EmbedInProcess
  <2>4. StartTick \/ TickFails \/ Recall => UNCHANGED <<config, chatted>>
    BY DEF StartTick, TickFails, Recall
  <2> QED
    BY <1>2, <2>1, <2>2, <2>3, <2>4, ProviderSteps
<1> QED
  BY <1>1, <1>2

(* Only the default adapter chats, and validation asks it for a budget.    *)
THEOREM ChatsAreBudgeted == Spec => []ChatIsBudgeted
<1>1. Opted => ChatIsBudgeted
  BY DEF Opted, ChatIsBudgeted, Validate, EndpointIsUsable, BudgetIsGiven, InProcess
<1>2. Spec => []Opted
  BY OptedInductive, PTL DEF Spec
<1> QED
  BY <1>1, <1>2, PTL

-----------------------------------------------------------------------------
(* Retries, attempts and ticks.                                            *)

Cost(n) == n * (1 + MaxRetries)

(* What has been sent for a job: the full price of each attempt that is    *)
(* over, and the tries of the call under way.                              *)
Tries(j) == IF call.job = j THEN call.retries ELSE 0
Allowed(j) ==
    IF j \in batch THEN Cost(jobs[j].attempts - 1) + Tries(j) ELSE Cost(jobs[j].attempts)

CallIsLeased ==
    /\ batch \subseteq Jobs
    /\ adapter = NoAdapter => batch = {}
    /\ call.job # "none" =>
          /\ call.job \in batch
          /\ call.retries \in 1..MaxRetries
          /\ adapter.kind = "openai_compat"

(* A job is leased once more than its cap only after a failed tick.        *)
AttemptsBounded ==
    /\ storeErrors \in Nat
    /\ \A j \in batch : jobs[j].attempts >= 1
    /\ \A j \in Jobs : jobs[j].attempts <= MaxAttempts + storeErrors
    /\ \A j \in Jobs : j \notin batch /\ jobs[j].state \notin Finished =>
                       jobs[j].attempts < MaxAttempts + storeErrors

Paid ==
    /\ requests \in [Jobs -> Nat]
    /\ \A j \in Jobs : requests[j] <= Allowed(j)

Nested == CallIsLeased /\ AttemptsBounded /\ Paid

LEMMA CostFacts ==
    ASSUME NEW n \in Nat
    PROVE  /\ Cost(n) \in Nat
           /\ Cost(n + 1) = Cost(n) + 1 + MaxRetries
           /\ n >= 1 => Cost(n) = Cost(n - 1) + 1 + MaxRetries
  BY ProviderCapsAssumption DEF Cost

LEMMA CostMonotone ==
    ASSUME NEW n \in Nat, NEW k \in Nat, n <= k
    PROVE  Cost(n) <= Cost(k)
<1>1. Cost(k) = Cost(n) + (k - n) * (1 + MaxRetries)
  BY ProviderCapsAssumption DEF Cost
<1>2. (k - n) * (1 + MaxRetries) \in Nat
  BY ProviderCapsAssumption
<1>3. Cost(n) \in Nat
  BY CostFacts
<1> QED
  BY <1>1, <1>2, <1>3

(* A settled job has paid for its attempts and no more.                    *)
LEMMA SettleNested ==
    ASSUME JobsAreRows, Nested, NEW j \in batch, CompleteJob(j) \/ FailJob(j),
           call.job \in {"none", j}, storeErrors' = storeErrors,
           requests' \in [Jobs -> Nat], requests'[j] <= Cost(jobs[j].attempts),
           \A k \in Jobs \ {j} : requests'[k] = requests[k]
    PROVE  Nested'
<1>1. j \in Jobs
  BY DEF Nested, CallIsLeased
<1>2. EndCall(j)
  BY DEF CompleteJob, FailJob
<1>3. /\ jobs'[j].attempts = jobs[j].attempts
      /\ jobs'[j].state \in Finished \/ ~(jobs[j].attempts >= MaxAttempts)
      /\ \A k \in Jobs \ {j} : jobs'[k] = jobs[k]
  <2>1. CASE CompleteJob(j)
    BY <1>1, <2>1, CompleteRow DEF Finished
  <2>2. CASE FailJob(j)
    BY <1>1, <2>2, FailRow DEF Finished
  <2> QED
    BY <2>1, <2>2
<1>4. \A k \in Jobs : jobs[k].attempts \in Nat
  BY DEF JobsAreRows
<1>5. batch' = batch \ {j} /\ call'.job = "none"
  BY <1>2 DEF EndCall, NoCall
<1>6. CallIsLeased'
  BY <1>2, <1>5 DEF EndCall, Nested, CallIsLeased
<1>7. AttemptsBounded'
  <2>1. \A k \in batch' : jobs'[k].attempts >= 1
    BY <1>3, <1>5 DEF Nested, AttemptsBounded, CallIsLeased
  <2>2. \A k \in Jobs : jobs'[k].attempts <= MaxAttempts + storeErrors
    BY <1>3 DEF Nested, AttemptsBounded
  <2>3. \A k \in Jobs \ {j} : k \notin batch' /\ jobs'[k].state \notin Finished =>
                               jobs'[k].attempts < MaxAttempts + storeErrors
    BY <1>3, <1>5 DEF Nested, AttemptsBounded
  <2>4. jobs'[j].state \notin Finished => jobs'[j].attempts < MaxAttempts + storeErrors
    <3>1. storeErrors \in Nat
      BY DEF Nested, AttemptsBounded
    <3> QED
      BY <1>1, <1>3, <1>4, <3>1, ProviderCapsAssumption
  <2> QED
    BY <2>1, <2>2, <2>3, <2>4 DEF Nested, AttemptsBounded
<1>8. Paid'
  <2>1. requests'[j] <= Allowed(j)'
    BY <1>3, <1>5 DEF Allowed, Cost
  <2>2. ASSUME NEW k \in Jobs \ {j}
        PROVE  requests'[k] <= Allowed(k)'
    <3>1. requests[k] <= Allowed(k)
      BY DEF Nested, Paid
    <3>2. k # "none"
      BY ProviderCapsAssumption
    <3>3. Tries(k) = 0 /\ Tries(k)' = 0
      BY <1>5, <3>2 DEF Tries
    <3>4. Allowed(k)' = Allowed(k)
      BY <1>3, <1>5, <3>3 DEF Allowed, Cost
    <3> QED
      BY <3>1, <3>4
  <2> QED
    BY <2>1, <2>2 DEF Paid
<1> QED
  BY <1>6, <1>7, <1>8 DEF Nested

(* No step breaks the bounds of the nested loops: HTTP retries inside      *)
(* attempts inside ticks (openaicompat.rs, worker.rs).                     *)
THEOREM NestedInductive ==
    /\ Init => Nested
    /\ JobsAreRows /\ Nested /\ [Next]_vars => Nested'
<1>1. Init => Nested
  <2> SUFFICES ASSUME Init PROVE Nested
    OBVIOUS
  <2>1. call.job = "none" /\ batch = {} /\ storeErrors = 0
    BY DEF Init, NoCall
  <2>2. \A j \in Jobs : jobs[j].attempts = 0 /\ requests[j] = 0
    BY DEF Init
  <2>3. requests \in [Jobs -> Nat]
    BY DEF Init
  <2>4. CallIsLeased /\ AttemptsBounded
    BY <2>1, <2>2, ProviderCapsAssumption DEF CallIsLeased, AttemptsBounded
  <2>5. Paid
    BY <2>1, <2>2, <2>3, CostFacts DEF Paid, Allowed
  <2> QED
    BY <2>4, <2>5 DEF Nested
<1>2. ASSUME JobsAreRows, Nested, [Next]_vars
      PROVE  Nested'
  <2>0. /\ \A k \in Jobs : jobs[k].attempts \in Nat /\ k # "none"
        /\ \A k \in Jobs : requests[k] \in Nat /\ requests[k] <= Allowed(k)
        /\ batch \subseteq Jobs
    BY <1>2, ProviderCapsAssumption DEF JobsAreRows, Nested, Paid, CallIsLeased
  <2>1. CASE StartTick
    <3>1. /\ batch = {} /\ call.job = "none"
          /\ UNCHANGED <<call, requests, storeErrors>> /\ adapter' # NoAdapter
      BY <1>2, <2>1, AdaptersWhole DEF StartTick, Nested, CallIsLeased
    <3>2. /\ batch' \subseteq ReadyJobs
          /\ \A k \in batch' : jobs'[k].attempts = jobs[k].attempts + 1
          /\ \A k \in Jobs \ batch' : jobs'[k] = jobs[k]
      BY <1>2, <2>1, StartRows DEF ReadyJobs
    <3>3. batch' \subseteq Jobs /\ \A k \in batch' : jobs[k].state \notin Finished
      BY <3>2 DEF ReadyJobs
    <3>4. CallIsLeased'
      BY <3>1, <3>3 DEF CallIsLeased
    <3>5. AttemptsBounded'
      <4>1. /\ storeErrors \in Nat
            /\ \A k \in Jobs : jobs[k].attempts <= MaxAttempts + storeErrors
            /\ \A k \in batch' : jobs[k].attempts < MaxAttempts + storeErrors
            /\ \A k \in Jobs : jobs[k].state \notin Finished =>
                             jobs[k].attempts < MaxAttempts + storeErrors
        BY <1>2, <3>1, <3>3 DEF Nested, AttemptsBounded
      <4>2. \A k \in batch' : /\ jobs'[k].attempts >= 1
                            /\ jobs'[k].attempts <= MaxAttempts + storeErrors
        BY <2>0, <3>2, <3>3, <4>1, ProviderCapsAssumption
      <4> QED
        BY <3>1, <3>2, <4>1, <4>2 DEF AttemptsBounded
    <3>6. Paid'
      <4>1. \A k \in Jobs : requests[k] <= Cost(jobs[k].attempts)
        BY <2>0, <3>1 DEF Allowed
      <4>2. \A k \in batch' : requests[k] <= Allowed(k)'
        <5>1. ASSUME NEW k \in batch'
              PROVE  requests[k] <= Allowed(k)'
          <6>1. Tries(k)' = 0
            BY <2>0, <3>1, <3>3 DEF Tries
          <6>2. jobs'[k].attempts - 1 = jobs[k].attempts
            BY <2>0, <3>2, <3>3
          <6>3. Cost(jobs[k].attempts) \in Nat
            BY <2>0, <3>3, CostFacts
          <6>4. Allowed(k)' = Cost(jobs[k].attempts)
            BY <6>1, <6>2, <6>3 DEF Allowed, Cost
          <6> QED
            BY <3>3, <4>1, <6>4
        <5> QED
          BY <5>1
      <4>3. \A k \in Jobs \ batch' : Allowed(k)' = Cost(jobs[k].attempts)
        BY <3>2 DEF Allowed, Cost
      <4> QED
        BY <1>2, <3>1, <4>1, <4>2, <4>3 DEF Paid, Nested
    <3> QED
      BY <3>4, <3>5, <3>6 DEF Nested
  <2>2. CASE \E j \in Jobs : Request(j)
    <3>1. PICK j \in Jobs : Request(j)
      BY <2>2
    <3>2. j \in batch /\ call.job \in {"none", j}
      BY <1>2, <2>0, <3>1 DEF Request, Attempted, NoCall, Nested, CallIsLeased
    <3>3. call.retries \in 0..MaxRetries /\ Tries(j) = call.retries
      <4>1. CASE call = NoCall
        BY <4>1, <2>0, ProviderCapsAssumption DEF NoCall, Tries
      <4>2. CASE call.job = j
        BY <4>2, <1>2, <2>0, ProviderCapsAssumption DEF Tries, Nested, CallIsLeased
      <4> QED
        BY <3>1, <4>1, <4>2 DEF Request, Attempted
    <3>4. /\ jobs[j].attempts \in Nat /\ jobs[j].attempts >= 1
          /\ Cost(jobs[j].attempts - 1) \in Nat
          /\ Cost(jobs[j].attempts) = Cost(jobs[j].attempts - 1) + 1 + MaxRetries
      BY <1>2, <2>0, <3>2, CostFacts DEF Nested, AttemptsBounded
    <3>5. requests[j] \in Nat /\ requests[j] <= Cost(jobs[j].attempts - 1) + call.retries
      BY <2>0, <3>2, <3>3 DEF Allowed
    <3>6. /\ requests' \in [Jobs -> Nat]
          /\ requests'[j] = requests[j] + 1
          /\ \A k \in Jobs \ {j} : requests'[k] = requests[k]
          /\ storeErrors' = storeErrors
      BY <1>2, <3>1 DEF Request, Nested, Paid
    <3>7. ASSUME CompleteJob(j) \/ FailJob(j)
          PROVE  Nested'
      <4>1. requests'[j] <= Cost(jobs[j].attempts)
        BY <3>3, <3>4, <3>5, <3>6, ProviderCapsAssumption
      <4> QED
        BY <1>2, <3>2, <3>6, <3>7, <4>1, SettleNested
    <3>8. ASSUME Retry(j), MayRetry(call.retries)
          PROVE  Nested'
      <4>1. /\ call'.job = j /\ call'.retries = call.retries + 1
            /\ UNCHANGED <<jobs, batch, adapter>>
        BY <3>8 DEF Retry
      <4>2. call'.retries \in 1..MaxRetries
        BY <3>3, <3>8, <4>1, ProviderCapsAssumption DEF MayRetry
      <4>3. adapter.kind = "openai_compat"
        BY <3>1 DEF Request, Attempted
      <4>4. CallIsLeased'
        BY <1>2, <3>2, <4>1, <4>2, <4>3 DEF CallIsLeased, Nested
      <4>5. AttemptsBounded'
        BY <1>2, <3>6, <4>1 DEF AttemptsBounded, Nested
      <4>6. \A k \in Jobs \ {j} : Allowed(k)' = Allowed(k)
        BY <2>0, <3>2, <4>1 DEF Allowed, Cost, Tries
      <4>7. Allowed(j)' = Cost(jobs[j].attempts - 1) + call.retries + 1
        BY <3>2, <3>3, <3>4, <4>1 DEF Allowed, Tries, Cost
      <4>8. requests'[j] <= Allowed(j)'
        BY <3>3, <3>4, <3>5, <3>6, <4>7
      <4>9. Paid'
        BY <2>0, <3>6, <4>6, <4>8 DEF Paid
      <4> QED
        BY <4>4, <4>5, <4>9 DEF Nested
    <3> QED
      BY <3>1, <3>7, <3>8 DEF Request
  <2>3. CASE \E j \in Jobs : EmbedInProcess(j)
    <3>1. PICK j \in Jobs : EmbedInProcess(j)
      BY <2>3
    <3>2. j \in batch /\ call.job = "none"
      BY <1>2, <3>1 DEF EmbedInProcess, InProcess, Nested, CallIsLeased
    <3>3. requests[j] <= Cost(jobs[j].attempts)
      <4>1. requests[j] \in Nat /\ requests[j] <= Cost(jobs[j].attempts - 1) + 0
        BY <2>0, <3>2 DEF Allowed, Tries
      <4>2. /\ Cost(jobs[j].attempts - 1) \in Nat
            /\ Cost(jobs[j].attempts) = Cost(jobs[j].attempts - 1) + 1 + MaxRetries
        BY <1>2, <2>0, <3>2, CostFacts DEF Nested, AttemptsBounded
      <4> QED
        BY <4>1, <4>2, ProviderCapsAssumption
    <3>4. requests' = requests /\ storeErrors' = storeErrors /\ (CompleteJob(j) \/ FailJob(j))
      BY <3>1 DEF EmbedInProcess
    <3>5. requests \in [Jobs -> Nat]
      BY <1>2 DEF Nested, Paid
    <3> QED
      BY <1>2, <3>2, <3>3, <3>4, <3>5, SettleNested
  <2>4. CASE TickFails
    <3>1. /\ batch' = {} /\ adapter' = NoAdapter /\ call'.job = "none"
          /\ UNCHANGED <<jobs, requests>> /\ storeErrors' = storeErrors + 1
      BY <2>4 DEF TickFails, NoCall
    <3>2. CallIsLeased'
      BY <3>1 DEF CallIsLeased
    <3>3. AttemptsBounded'
      <4>1. /\ storeErrors \in Nat
            /\ \A k \in Jobs : jobs[k].attempts <= MaxAttempts + storeErrors
        BY <1>2 DEF Nested, AttemptsBounded
      <4>2. \A k \in Jobs : /\ jobs[k].attempts <= MaxAttempts + (storeErrors + 1)
                          /\ jobs[k].attempts < MaxAttempts + (storeErrors + 1)
        BY <2>0, <4>1, ProviderCapsAssumption
      <4> QED
        BY <3>1, <4>1, <4>2 DEF AttemptsBounded
    <3>4. Paid'
      <4>1. ASSUME NEW k \in Jobs
            PROVE  requests[k] <= Cost(jobs[k].attempts)
        <5>1. CASE k \notin batch
          BY <2>0, <5>1 DEF Allowed
        <5>2. CASE k \in batch
          <6>1. Tries(k) \in 0..MaxRetries
            BY <1>2, <2>0, ProviderCapsAssumption DEF Tries, Nested, CallIsLeased
          <6>2. requests[k] \in Nat /\ requests[k] <= Cost(jobs[k].attempts - 1) + Tries(k)
            BY <2>0, <5>2 DEF Allowed
          <6>3. /\ Cost(jobs[k].attempts - 1) \in Nat
                /\ Cost(jobs[k].attempts) = Cost(jobs[k].attempts - 1) + 1 + MaxRetries
            BY <1>2, <2>0, <5>2, CostFacts DEF Nested, AttemptsBounded
          <6> QED
            BY <6>1, <6>2, <6>3, ProviderCapsAssumption
        <5> QED
          BY <5>1, <5>2
      <4>2. \A k \in Jobs : Allowed(k)' = Cost(jobs[k].attempts)
        BY <3>1 DEF Allowed, Cost
      <4> QED
        BY <1>2, <3>1, <4>1, <4>2 DEF Paid, Nested
    <3> QED
      BY <3>2, <3>3, <3>4 DEF Nested
  <2>5. ASSUME UNCHANGED <<jobs, batch, adapter, call, requests, storeErrors>>
        PROVE  Nested'
    <3>1. \A k \in Jobs : Allowed(k)' = Allowed(k)
      BY <2>5 DEF Allowed, Cost, Tries
    <3> QED
      BY <1>2, <2>5, <3>1 DEF Nested, CallIsLeased, AttemptsBounded, Paid
  <2>6. DreamPass \/ Recall => UNCHANGED <<jobs, batch, adapter, call, requests, storeErrors>>
    BY DEF DreamPass, Recall, worker
  <2>7. Tick \/ EndpointChanges \/ UNCHANGED vars =>
            UNCHANGED <<jobs, batch, adapter, call, requests, storeErrors>>
    BY DEF Tick, EndpointChanges, vars, worker
  <2> QED
    BY <1>2, <2>1, <2>2, <2>3, <2>4, <2>5, <2>6, <2>7 DEF Next, WorkerStep
<1> QED
  BY <1>1, <1>2

(* Retries nest in attempts, and attempts in ticks.                        *)
THEOREM RequestsAreBounded == Spec => []RequestsBounded
<1>1. JobsAreRows /\ Nested => RequestsBounded
  <2> SUFFICES ASSUME JobsAreRows, Nested, NEW j \in Jobs
               PROVE  /\ requests[j] <= jobs[j].attempts * (1 + MaxRetries)
                      /\ requests[j] <= (MaxAttempts + storeErrors) * (1 + MaxRetries)
    BY DEF RequestsBounded
  <2>1. /\ jobs[j].attempts \in Nat /\ requests[j] \in Nat /\ storeErrors \in Nat
        /\ requests[j] <= Allowed(j) /\ jobs[j].attempts <= MaxAttempts + storeErrors
    BY DEF JobsAreRows, Nested, Paid, AttemptsBounded
  <2>2. Cost(jobs[j].attempts) \in Nat
    BY <2>1, CostFacts
  <2>3. requests[j] <= Cost(jobs[j].attempts)
    <3>1. CASE j \notin batch
      BY <2>1, <3>1 DEF Allowed
    <3>2. CASE j \in batch
      <4>1. Tries(j) \in 0..MaxRetries
        BY ProviderCapsAssumption DEF Tries, Nested, CallIsLeased
      <4>2. /\ Cost(jobs[j].attempts - 1) \in Nat
            /\ Cost(jobs[j].attempts) = Cost(jobs[j].attempts - 1) + 1 + MaxRetries
        BY <2>1, <3>2, CostFacts DEF Nested, AttemptsBounded
      <4>3. requests[j] <= Cost(jobs[j].attempts - 1) + Tries(j)
        BY <2>1, <3>2 DEF Allowed
      <4> QED
        BY <2>1, <4>1, <4>2, <4>3, ProviderCapsAssumption
    <3> QED
      BY <3>1, <3>2
  <2>4. Cost(jobs[j].attempts) <= Cost(MaxAttempts + storeErrors)
    BY <2>1, CostMonotone, ProviderCapsAssumption
  <2>5. Cost(MaxAttempts + storeErrors) \in Nat
    BY <2>1, CostFacts, ProviderCapsAssumption
  <2>6. requests[j] <= Cost(MaxAttempts + storeErrors)
    BY <2>1, <2>2, <2>3, <2>4, <2>5
  <2> QED
    BY <2>3, <2>6 DEF Cost
<1>2. Spec => [](JobsAreRows /\ Nested)
  BY RowsInductive, NestedInductive, PTL DEF Spec
<1> QED
  BY <1>1, <1>2, PTL

-----------------------------------------------------------------------------
(***************************************************************************)
(* integrate and its hooks: any machines, binaries and databases, any number *)
(* of runs, of edits between two of their writes, and of events.           *)
(***************************************************************************)

(* The arguments a run is started with.                                    *)
RunArgs == [agents : SUBSET Agents, mode : Modes, bin : Bins, db : DbNames]

(* What a merge of the entries of a file promises of its result.           *)
Merges(f, items, out, ar) ==
    /\ out \in Seq(Item)
    /\ out # <<>>
    /\ \A x \in ToSet(items) : x.part \in OwnParts => x \in ToSet(out)
    /\ OneCapturer(f, items) => OneCapturer(f, out)
    /\ SettledIn(f, out, ar)

LEMMA LeastElement ==
    ASSUME NEW S \in SUBSET Nat, S # {}
    PROVE  Min(S) \in S
<1>1. PICK x \in S : \A y \in S : <<y, x>> \notin OpToRel(<, Nat)
  BY NatLessThanWellFounded, WFMin
<1>2. ASSUME NEW y \in S, y < x
      PROVE  FALSE
  <2>1. <<y, x>> \in Nat \X Nat /\ <<y, x>>[1] < <<y, x>>[2]
    BY <1>2
  <2>2. <<y, x>> \in OpToRel(<, Nat)
    BY <2>1 DEF OpToRel
  <2> QED
    BY <1>1, <2>2
<1>3. \A y \in S : x <= y
  BY <1>2
<1> QED
  BY <1>3 DEF Min

LEMMA Appending ==
    ASSUME NEW S, NEW s \in Seq(S), NEW x \in S
    PROVE  /\ Append(s, x) \in Seq(S)
           /\ Append(s, x) # <<>>
           /\ DOMAIN s = 1..Len(s) /\ Len(s) \in Nat
           /\ DOMAIN Append(s, x) = 1..(Len(s) + 1)
           /\ \A i \in 1..Len(s) : Append(s, x)[i] = s[i]
           /\ Append(s, x)[Len(s) + 1] = x
OBVIOUS

LEMMA AppendingSet ==
    ASSUME NEW S, NEW s \in Seq(S), NEW x \in S
    PROVE  ToSet(Append(s, x)) = ToSet(s) \cup {x}
<1>1. ASSUME NEW y \in ToSet(Append(s, x)) PROVE y \in ToSet(s) \cup {x}
    <2>1. PICK i \in DOMAIN Append(s, x) : y = Append(s, x)[i]
        BY <1>1 DEF ToSet
    <2>2. CASE i = Len(s) + 1
        BY <2>1, <2>2, Appending
    <2>3. CASE i \in 1..Len(s)
        <3>1. y = s[i] /\ i \in DOMAIN s
            BY <2>1, <2>3, Appending
        <3>2. QED  BY <3>1 DEF ToSet
    <2>4. i \in 1..Len(s) \/ i = Len(s) + 1
        BY <2>1, Appending
    <2>5. QED  BY <2>2, <2>3, <2>4
<1>2. ASSUME NEW y \in ToSet(s) PROVE y \in ToSet(Append(s, x))
    <2>1. PICK i \in DOMAIN s : y = s[i]
        BY <1>2 DEF ToSet
    <2>2. i \in DOMAIN Append(s, x) /\ Append(s, x)[i] = y
        BY <2>1, Appending
    <2>3. QED  BY <2>2 DEF ToSet
<1>3. x \in ToSet(Append(s, x))
    <2>1. (Len(s) + 1) \in DOMAIN Append(s, x) /\ Append(s, x)[Len(s) + 1] = x
        BY Appending
    <2>2. QED  BY <2>1 DEF ToSet
<1>4. QED  BY <1>1, <1>2, <1>3

LEMMA EntryType ==
    ASSUME NEW ar \in RunArgs, NEW part \in Ours
    PROVE  /\ Entry(part, ar) \in Item
           /\ Entry(part, ar).part = part
           /\ Entry(part, ar).db = ar.db
           /\ part \notin OwnParts
BY DEF Entry, Item, RunArgs, Ours, OwnParts, Capturing

LEMMA OwnType ==
    ASSUME NEW p \in OwnParts
    PROVE  Own(p) \in Item /\ Own(p).part = p /\ p \notin Ours /\ p \notin Capturing
BY DEF Own, Item, DbNames, Ours, OwnParts, Capturing

(* An entry with no like in the file leaves it one capturer for each part. *)
LEMMA CapturerAdded ==
    ASSUME NEW f, NEW items \in Seq(Item), NEW x \in Item, OneCapturer(f, items),
           x.part \in Capturing =>
               /\ f \notin Servers
               /\ \A y \in ToSet(items) : ~(y.part = x.part /\ y.db = x.db)
    PROVE  OneCapturer(f, Append(items, x))
<1> DEFINE out == Append(items, x)
<1>1. SUFFICES ASSUME NEW i \in DOMAIN out, NEW j \in DOMAIN out, out[i].part \in Capturing
               PROVE  /\ f \notin Servers
                      /\ out[i].part = out[j].part /\ out[i].db = out[j].db => i = j
    BY DEF OneCapturer
<1> HIDE DEF out
<1>2. /\ DOMAIN items = 1..Len(items) /\ Len(items) \in Nat
      /\ DOMAIN out = 1..(Len(items) + 1)
      /\ \A k \in 1..Len(items) : out[k] = items[k]
      /\ out[Len(items) + 1] = x
    BY Appending DEF out
<1>3. \A k \in 1..Len(items) : items[k] \in ToSet(items)
    BY <1>2 DEF ToSet
<1>4. CASE i \in 1..Len(items) /\ j \in 1..Len(items)
    <2>1. out[i] = items[i] /\ out[j] = items[j]
        BY <1>2, <1>4
    <2>2. QED  BY <1>1, <1>2, <1>4, <2>1 DEF OneCapturer
<1>5. CASE i \in 1..Len(items) /\ j = Len(items) + 1
    <2>1. out[i] = items[i] /\ out[j] = x /\ items[i] \in ToSet(items)
        BY <1>2, <1>3, <1>5
    <2>2. f \notin Servers
        BY <1>1, <1>2, <1>5, <2>1 DEF OneCapturer
    <2>3. QED  BY <1>1, <2>1, <2>2
<1>6. CASE i = Len(items) + 1 /\ j \in 1..Len(items)
    <2>1. out[j] = items[j] /\ out[i] = x /\ items[j] \in ToSet(items)
        BY <1>2, <1>3, <1>6
    <2>2. QED  BY <1>1, <2>1
<1>7. CASE i = Len(items) + 1 /\ j = Len(items) + 1
    BY <1>1, <1>2, <1>7
<1>8. i \in 1..Len(items) \/ i = Len(items) + 1
    BY <1>2
<1>9. j \in 1..Len(items) \/ j = Len(items) + 1
    BY <1>2
<1>10. QED  BY <1>4, <1>5, <1>6, <1>7, <1>8, <1>9

-----------------------------------------------------------------------------
(* One step of each merge.                                                 *)
LEMMA WithHookAdds ==
    ASSUME NEW ar \in RunArgs, NEW part \in Ours, NEW items \in Seq(Item), NEW f, f \notin Servers
    PROVE  LET out == WithHook(items, part, ar)
           IN  /\ out \in Seq(Item)
               /\ ToSet(items) \subseteq ToSet(out)
               /\ HasHook(out, part, ar)
               /\ OneCapturer(f, items) => OneCapturer(f, out)
               /\ out # <<>>
<1>1. CASE HasHook(items, part, ar)
    <2>1. items # <<>>
        BY <1>1 DEF HasHook, ToSet
    <2>2. QED  BY <1>1, <2>1 DEF WithHook
<1>2. CASE ~HasHook(items, part, ar)
    <2> DEFINE x == Entry(part, ar)
    <2>1. WithHook(items, part, ar) = Append(items, x)
        BY <1>2 DEF WithHook
    <2>2. x \in Item /\ x.part = part /\ x.db = ar.db
        BY EntryType
    <2> HIDE DEF x
    <2>3. /\ Append(items, x) \in Seq(Item) /\ Append(items, x) # <<>>
          /\ ToSet(Append(items, x)) = ToSet(items) \cup {x}
        BY <2>2, Appending, AppendingSet
    <2>4. HasHook(Append(items, x), part, ar)
        BY <2>2, <2>3 DEF HasHook
    <2>5. \A y \in ToSet(items) : ~(y.part = x.part /\ y.db = x.db)
        BY <1>2, <2>2 DEF HasHook
    <2>6. OneCapturer(f, items) => OneCapturer(f, Append(items, x))
        BY <2>2, <2>5, CapturerAdded
    <2>7. QED  BY <2>1, <2>3, <2>4, <2>6
<1>3. QED  BY <1>1, <1>2

LEMMA WithBlockAdds ==
    ASSUME NEW ar \in RunArgs, NEW part \in Ours, NEW items \in Seq(Item), NEW f, f \notin Servers
    PROVE  LET out == WithBlock(items, part, ar)
           IN  /\ out \in Seq(Item)
               /\ ToSet(items) \subseteq ToSet(out)
               /\ (part = "dream" => ar.db = NoDb) => Marked(out, part)
               /\ OneCapturer(f, items) => OneCapturer(f, out)
               /\ out # <<>>
<1>1. CASE Marked(items, part)
    <2>1. items # <<>>
        BY <1>1 DEF Marked, ToSet
    <2>2. QED  BY <1>1, <2>1 DEF WithBlock
<1>2. CASE ~Marked(items, part)
    <2> DEFINE x == Entry(part, ar)
    <2>1. WithBlock(items, part, ar) = Append(items, x)
        BY <1>2 DEF WithBlock
    <2>2. x \in Item /\ x.part = part /\ x.db = ar.db
        BY EntryType
    <2> HIDE DEF x
    <2>3. /\ Append(items, x) \in Seq(Item) /\ Append(items, x) # <<>>
          /\ ToSet(Append(items, x)) = ToSet(items) \cup {x}
        BY <2>2, Appending, AppendingSet
    <2>4. (part = "dream" => ar.db = NoDb) => Marked(Append(items, x), part)
        BY <2>2, <2>3 DEF Marked
    <2>5. part \in Capturing => part # "dream"
        BY DEF Capturing
    <2>6. part \in Capturing => \A y \in ToSet(items) : ~(y.part = x.part /\ y.db = x.db)
        BY <1>2, <2>2, <2>5 DEF Marked
    <2>7. OneCapturer(f, items) => OneCapturer(f, Append(items, x))
        BY <2>2, <2>6, CapturerAdded
    <2>8. QED  BY <2>1, <2>3, <2>4, <2>7
<1>3. QED  BY <1>1, <1>2

(* What the steps of a merge keep.                                         *)
LEMMA SetKeeps ==
    ASSUME NEW items, NEW out, ToSet(items) \subseteq ToSet(out)
    PROVE  /\ \A p, ar : HasHook(items, p, ar) => HasHook(out, p, ar)
           /\ \A p : Marked(items, p) => Marked(out, p)
           /\ \A ps : HasKey(items, ps) => HasKey(out, ps)
BY DEF HasHook, Marked, HasKey

LEMMA HooksMerge ==
    ASSUME NEW ar \in RunArgs, NEW items \in Seq(Item)
    PROVE  Merges("claude settings", items, MergedHooks(items, ar), ar)
<1> DEFINE f == "claude settings"
           dreams == WithHook(items, "dream", ar)
           starts == WithHook(dreams, "session-start", ar)
           prompts == WithHook(starts, "prompt", ar)
           tools == WithHook(prompts, "tool", ar)
<1>0. f \notin Servers /\ {"dream", "session-start", "prompt", "tool"} \subseteq Ours
    BY DEF Servers, Ours, Capturing
<1>1. /\ dreams \in Seq(Item) /\ ToSet(items) \subseteq ToSet(dreams)
      /\ HasHook(dreams, "dream", ar) /\ dreams # <<>>
      /\ OneCapturer(f, items) => OneCapturer(f, dreams)
    BY <1>0, WithHookAdds
<1>2. /\ starts \in Seq(Item) /\ ToSet(dreams) \subseteq ToSet(starts)
      /\ HasHook(starts, "session-start", ar)
      /\ OneCapturer(f, dreams) => OneCapturer(f, starts)
    <2> HIDE DEF dreams
    <2> QED  BY <1>0, <1>1, WithHookAdds
<1>3. /\ prompts \in Seq(Item) /\ ToSet(starts) \subseteq ToSet(prompts)
      /\ HasHook(prompts, "prompt", ar)
      /\ OneCapturer(f, starts) => OneCapturer(f, prompts)
    <2> HIDE DEF starts
    <2> QED  BY <1>0, <1>2, WithHookAdds
<1>4. /\ tools \in Seq(Item) /\ ToSet(prompts) \subseteq ToSet(tools)
      /\ HasHook(tools, "tool", ar) /\ tools # <<>>
      /\ OneCapturer(f, prompts) => OneCapturer(f, tools)
    <2> HIDE DEF prompts
    <2> QED  BY <1>0, <1>3, WithHookAdds
<1>5. MergedHooks(items, ar) = IF ar.mode = "mcp" THEN dreams ELSE tools
    BY DEF MergedHooks
<1> HIDE DEF dreams, starts, prompts, tools
<1>6. HasHook(tools, "dream", ar)
    BY <1>1, <1>2, <1>3, <1>4, SetKeeps
<1>7. HasHook(tools, "session-start", ar)
    BY <1>2, <1>3, <1>4, SetKeeps
<1>8. HasHook(tools, "prompt", ar)
    BY <1>3, <1>4, SetKeeps
<1>9. CASE ar.mode = "mcp"
    <2>1. HooksSettled(dreams, ar)
        BY <1>1, <1>9 DEF HooksSettled
    <2>2. SettledIn(f, dreams, ar)
        BY <1>0, <2>1 DEF SettledIn
    <2>3. QED  BY <1>1, <1>5, <1>9, <2>2 DEF Merges
<1>10. CASE ar.mode # "mcp"
    <2>1. HooksSettled(tools, ar)
        BY <1>4, <1>6, <1>7, <1>8 DEF HooksSettled
    <2>2. SettledIn(f, tools, ar)
        BY <1>0, <2>1 DEF SettledIn
    <2>3. ToSet(items) \subseteq ToSet(tools)
        BY <1>1, <1>2, <1>3, <1>4
    <2>4. OneCapturer(f, items) => OneCapturer(f, tools)
        BY <1>1, <1>2, <1>3, <1>4
    <2>5. QED  BY <1>4, <1>5, <1>10, <2>2, <2>3, <2>4 DEF Merges
<1>11. QED  BY <1>9, <1>10

LEMMA BlocksMerge ==
    ASSUME NEW ar \in RunArgs, NEW items \in Seq(Item)
    PROVE  Merges("codex config", items, Appended(items, ar), ar)
<1> DEFINE f == "codex config"
           servers == IF ar.mode = "hooks" THEN items ELSE WithBlock(items, "mcp", ar)
           dreams == WithBlock(servers, "dream", ar)
           starts == WithBlock(dreams, "session-start", ar)
           prompts == WithBlock(starts, "prompt", ar)
           tools == WithBlock(prompts, "tool", ar)
<1>0. f \notin Servers /\ {"mcp", "dream", "session-start", "prompt", "tool"} \subseteq Ours
    BY DEF Servers, Ours, Capturing
<1>1. /\ servers \in Seq(Item) /\ ToSet(items) \subseteq ToSet(servers)
      /\ ar.mode # "hooks" => Marked(servers, "mcp")
      /\ OneCapturer(f, items) => OneCapturer(f, servers)
    BY <1>0, WithBlockAdds
<1>2. /\ dreams \in Seq(Item) /\ ToSet(servers) \subseteq ToSet(dreams)
      /\ ar.db = NoDb => Marked(dreams, "dream")
      /\ OneCapturer(f, servers) => OneCapturer(f, dreams)
      /\ dreams # <<>>
    <2> HIDE DEF servers
    <2> QED  BY <1>0, <1>1, WithBlockAdds
<1>3. /\ starts \in Seq(Item) /\ ToSet(dreams) \subseteq ToSet(starts)
      /\ Marked(starts, "session-start")
      /\ OneCapturer(f, dreams) => OneCapturer(f, starts)
    <2> HIDE DEF dreams
    <2> QED  BY <1>0, <1>2, WithBlockAdds
<1>4. /\ prompts \in Seq(Item) /\ ToSet(starts) \subseteq ToSet(prompts)
      /\ Marked(prompts, "prompt")
      /\ OneCapturer(f, starts) => OneCapturer(f, prompts)
    <2> HIDE DEF starts
    <2> QED  BY <1>0, <1>3, WithBlockAdds
<1>5. /\ tools \in Seq(Item) /\ ToSet(prompts) \subseteq ToSet(tools)
      /\ Marked(tools, "tool")
      /\ OneCapturer(f, prompts) => OneCapturer(f, tools)
      /\ tools # <<>>
    <2> HIDE DEF prompts
    <2> QED  BY <1>0, <1>4, WithBlockAdds
<1>6. Appended(items, ar) = IF ar.mode = "mcp" THEN dreams ELSE tools
    BY DEF Appended
<1> HIDE DEF servers, dreams, starts, prompts, tools
<1>7. ar.mode # "hooks" => Marked(dreams, "mcp")
    BY <1>1, <1>2, SetKeeps
<1>8. ToSet(dreams) \subseteq ToSet(tools)
    BY <1>3, <1>4, <1>5
<1>9. CASE ar.mode = "mcp"
    <2>1. BlocksSettled(dreams, ar)
        BY <1>2, <1>7, <1>9 DEF BlocksSettled
    <2>2. SettledIn(f, dreams, ar)
        BY <1>0, <2>1 DEF SettledIn
    <2>3. ToSet(items) \subseteq ToSet(dreams)
        BY <1>1, <1>2
    <2>4. QED  BY <1>1, <1>2, <1>6, <1>9, <2>2, <2>3 DEF Merges
<1>10. CASE ar.mode # "mcp"
    <2>1. ar.mode # "hooks" => Marked(tools, "mcp")
        BY <1>7, <1>8, SetKeeps
    <2>2. ar.db = NoDb => Marked(tools, "dream")
        BY <1>2, <1>8, SetKeeps
    <2>3. Marked(tools, "session-start")
        BY <1>3, <1>4, <1>5, SetKeeps
    <2>4. Marked(tools, "prompt")
        BY <1>4, <1>5, SetKeeps
    <2>5. BlocksSettled(tools, ar)
        BY <1>5, <2>1, <2>2, <2>3, <2>4 DEF BlocksSettled
    <2>6. SettledIn(f, tools, ar)
        BY <1>0, <2>5 DEF SettledIn
    <2>7. ToSet(items) \subseteq ToSet(tools)
        BY <1>1, <1>2, <1>8
    <2>8. OneCapturer(f, items) => OneCapturer(f, tools)
        BY <1>1, <1>2, <1>3, <1>4, <1>5
    <2>9. QED  BY <1>5, <1>6, <1>10, <2>6, <2>7, <2>8 DEF Merges
<1>11. QED  BY <1>9, <1>10

LEMMA ServerMerge ==
    ASSUME NEW ar \in RunArgs, NEW items \in Seq(Item), NEW f \in Servers
    PROVE  Merges(f, items, MergedServer(items, ar), ar)
<1> DEFINE x == Entry("mcp", ar)
           there == \E i \in DOMAIN items : items[i].part = "mcp"
           put == [i \in DOMAIN items |-> IF items[i].part = "mcp" THEN x ELSE items[i]]
<1>1. x \in Item /\ x.part = "mcp" /\ "mcp" \notin OwnParts /\ "mcp" \notin Capturing
    BY EntryType DEF Ours, Capturing
<1>2. /\ f # "claude settings" /\ f # "opencode plugin"
      /\ f # "codex config" /\ f # "hermes config"
    BY DEF Servers
<1>3. CASE there
    <2>1. MergedServer(items, ar) = put
        BY <1>3 DEF MergedServer
    <2> HIDE DEF x
    <2>2. \A i \in 1..Len(items) : items[i] \in Item
        OBVIOUS
    <2>3. DOMAIN items = 1..Len(items) /\ Len(items) \in Nat
        OBVIOUS
    <2>4. put \in [1..Len(items) -> Item]
        BY <1>1, <2>2, <2>3
    <2>5. put \in Seq(Item) /\ DOMAIN put = DOMAIN items
        BY <2>3, <2>4
    <2>6. put # <<>>
        BY <1>3, <2>5
    <2>7. \A i \in DOMAIN items : items[i].part # "mcp" => put[i] = items[i]
        OBVIOUS
    <2>8. \A i \in DOMAIN items : items[i].part = "mcp" => put[i] = x
        OBVIOUS
    <2>9. ASSUME NEW y \in ToSet(items), y.part \in OwnParts PROVE y \in ToSet(put)
        <3>1. PICK i \in DOMAIN items : y = items[i]
            BY DEF ToSet
        <3>2. put[i] = y /\ i \in DOMAIN put
            BY <1>1, <2>5, <2>7, <2>9, <3>1
        <3>3. QED  BY <3>2 DEF ToSet
    <2> HIDE DEF put
    <2>10. OneCapturer(f, items) => OneCapturer(f, put)
        BY <1>1, <2>5, <2>7, <2>8 DEF OneCapturer
    <2>11. SettledIn(f, put, ar)
        <3>1. \E i \in DOMAIN put : put[i].part = "mcp"
            BY <1>1, <1>3, <2>5, <2>8
        <3>2. \A i \in DOMAIN put : put[i].part = "mcp" => put[i] = x
            BY <2>5, <2>7, <2>8
        <3>3. QED  BY <1>2, <3>1, <3>2 DEF SettledIn, x
    <2>12. QED  BY <2>1, <2>5, <2>6, <2>9, <2>10, <2>11 DEF Merges
<1>4. CASE ~there
    <2> DEFINE out == Append(items, x)
    <2>1. MergedServer(items, ar) = out
        BY <1>4 DEF MergedServer
    <2> HIDE DEF x
    <2>2. out \in Seq(Item) /\ out # <<>> /\ ToSet(out) = ToSet(items) \cup {x}
        BY <1>1, Appending, AppendingSet
    <2>3. /\ DOMAIN items = 1..Len(items) /\ Len(items) \in Nat
          /\ DOMAIN out = 1..(Len(items) + 1)
          /\ \A i \in 1..Len(items) : out[i] = items[i]
          /\ out[Len(items) + 1] = x
        BY <1>1, Appending
    <2>4. OneCapturer(f, items) => OneCapturer(f, out)
        BY <1>1, CapturerAdded
    <2> HIDE DEF out
    <2>5. \A i \in DOMAIN out : i \in 1..Len(items) \/ i = Len(items) + 1
        BY <2>3
    <2>6. SettledIn(f, out, ar)
        <3>1. \E i \in DOMAIN out : out[i].part = "mcp"
            BY <1>1, <2>3
        <3>2. \A i \in DOMAIN out : out[i].part = "mcp" => out[i] = x
            BY <1>4, <2>3, <2>5
        <3>3. QED  BY <1>2, <3>1, <3>2 DEF SettledIn, x
    <2>7. QED  BY <2>1, <2>2, <2>4, <2>6 DEF Merges
<1>5. QED  BY <1>3, <1>4

LEMMA PluginType ==
    ASSUME NEW ar \in RunArgs
    PROVE  Merges("opencode plugin", <<>>, Plugin(ar), ar) /\ Plugin(ar) # <<>>
<1> DEFINE f == "opencode plugin"
           d == Entry("dream", ar)
           p == Entry("prompt", ar)
           t == Entry("tool", ar)
<1>1. /\ d \in Item /\ p \in Item /\ t \in Item
      /\ d.part = "dream" /\ p.part = "prompt" /\ t.part = "tool"
    BY EntryType DEF Ours, Capturing
<1>2. Plugin(ar) = IF ar.mode = "mcp" THEN <<d>> ELSE <<d, p, t>>
    BY DEF Plugin
<1> HIDE DEF d, p, t
<1>3. f \notin Servers /\ "dream" \notin Capturing
    BY DEF Servers, Capturing
<1>4. Plugin(ar) \in Seq(Item) /\ Plugin(ar) # <<>>
    BY <1>1, <1>2
<1>5. OneCapturer(f, Plugin(ar))
    <2>1. CASE ar.mode = "mcp"
        <3>1. \A i, j \in DOMAIN <<d>> : i = 1 /\ j = 1
            OBVIOUS
        <3>2. QED  BY <1>2, <1>3, <2>1, <3>1 DEF OneCapturer
    <2>2. CASE ar.mode # "mcp"
        <3> DEFINE out == <<d, p, t>>
        <3>1. DOMAIN out = {1, 2, 3} /\ out[1] = d /\ out[2] = p /\ out[3] = t
            OBVIOUS
        <3> HIDE DEF out
        <3>2. \A i, j \in DOMAIN out : out[i].part = out[j].part => i = j
            BY <1>1, <3>1
        <3>3. OneCapturer(f, out)
            BY <1>3, <3>2 DEF OneCapturer
        <3>4. QED  BY <1>2, <2>2, <3>3 DEF out
    <2>3. QED  BY <2>1, <2>2
<1>6. Plugin(ar) # OldPlugin(ar.bin, ar.db)
    <2>1. Plugin(ar)[1] = d
        BY <1>2
    <2>2. OldPlugin(ar.bin, ar.db)[1].part = "old dream"
        BY DEF OldPlugin
    <2>3. QED  BY <1>1, <2>1, <2>2
<1>7. SettledIn(f, Plugin(ar), ar)
    BY <1>3, <1>4, <1>6 DEF SettledIn
<1>8. ToSet(<<>>) = {}
    BY DEF ToSet
<1>9. QED  BY <1>4, <1>5, <1>7, <1>8 DEF Merges

LEMMA FileNames ==
    /\ ConfigFiles = {"claude mcp", "claude settings", "opencode mcp", "opencode plugin",
                      "codex config", "hermes config"}
    /\ Servers = {"claude mcp", "opencode mcp"}
    /\ \A A \in SUBSET Agents : FilesOn(A) \subseteq ConfigFiles
<1>1. /\ FilesOf("claude") = {"claude mcp", "claude settings"}
      /\ FilesOf("opencode") = {"opencode mcp", "opencode plugin"}
      /\ FilesOf("codex") = {"codex config"}
      /\ FilesOf("hermes") = {"hermes config"}
    BY Zenon DEF FilesOf
<1>2. ConfigFiles = FilesOf("claude") \cup FilesOf("opencode") \cup FilesOf("codex")
                                     \cup FilesOf("hermes")
    BY DEF ConfigFiles, FilesOn, Agents
<1>3. QED  BY <1>1, <1>2 DEF Servers, ConfigFiles, FilesOn

LEMMA EmptyFile == DOMAIN <<>> = {} /\ ToSet(<<>>) = {} /\ \A f : OneCapturer(f, <<>>)
<1>1. DOMAIN <<>> = {}
    OBVIOUS
<1>2. QED  BY <1>1 DEF ToSet, OneCapturer

LEMMA PluginMerge ==
    ASSUME NEW ar \in RunArgs, SetupTypeOK, FilesFormed
    PROVE  LET f == "opencode plugin" IN Merges(f, file[f].items, PluginContents(f, ar), ar)
<1> DEFINE f == "opencode plugin"
           items == file[f].items
<1>1. f \in ConfigFiles /\ f \notin Servers
    BY FileNames
<1>2. items \in Seq(Item) /\ (file[f].exists <=> items # <<>>)
    BY <1>1 DEF SetupTypeOK, ConfigFile, FilesFormed
<1>3. CASE ~file[f].exists \/ items = OldPlugin(ar.bin, ar.db)
    <2>1. PluginContents(f, ar) = Plugin(ar)
        BY <1>3 DEF PluginContents
    <2>2. /\ Plugin(ar) \in Seq(Item) /\ Plugin(ar) # <<>>
          /\ OneCapturer(f, <<>>) => OneCapturer(f, Plugin(ar))
          /\ SettledIn(f, Plugin(ar), ar)
        BY PluginType DEF Merges
    <2>3. \A x \in ToSet(items) : x.part \notin OwnParts
        <3>1. CASE ~file[f].exists
            BY <1>2, <3>1, EmptyFile
        <3>2. CASE items = OldPlugin(ar.bin, ar.db)
            <4> DEFINE r == [part |-> "old dream", bin |-> ar.bin, db |-> ar.db]
            <4>1. items = <<r>>
                BY <3>2 DEF OldPlugin
            <4>2. r.part \notin OwnParts
                BY DEF OwnParts
            <4> HIDE DEF r
            <4> HIDE DEF items
            <4>3. \A i \in DOMAIN <<r>> : <<r>>[i] = r
                OBVIOUS
            <4>4. \A i \in DOMAIN items : items[i] = r
                BY <4>1, <4>3
            <4>5. QED  BY <4>2, <4>4 DEF ToSet
        <3>3. QED  BY <1>3, <3>1, <3>2
    <2>4. OneCapturer(f, <<>>)
        BY EmptyFile
    <2>5. QED  BY <2>1, <2>2, <2>3, <2>4 DEF Merges
<1>4. CASE ~(~file[f].exists \/ items = OldPlugin(ar.bin, ar.db))
    <2>1. PluginContents(f, ar) = items
        BY <1>4 DEF PluginContents
    <2>2. SettledIn(f, items, ar)
        BY <1>1, <1>2, <1>4 DEF SettledIn
    <2>3. QED  BY <1>2, <1>4, <2>1, <2>2 DEF Merges
<1>5. QED  BY <1>3, <1>4

(* The hermes file: either block is appended where its key is not there.   *)
LEMMA YamlMerge ==
    ASSUME NEW ar \in RunArgs, NEW items \in Seq(Item)
    PROVE  Merges("hermes config", items, YamlHooks(YamlServer(items, ar), ar), ar)
<1> DEFINE f == "hermes config"
           served == YamlServer(items, ar)
           out == YamlHooks(served, ar)
           d == Entry("dream", ar)
           t == Entry("tool", ar)
           s == Entry("mcp", ar)
<1>1. /\ d \in Item /\ t \in Item /\ s \in Item
      /\ d.part = "dream" /\ t.part = "tool" /\ s.part = "mcp"
    BY EntryType DEF Ours, Capturing
<1>2. /\ f \notin Servers /\ f # "claude settings" /\ f # "opencode plugin"
      /\ f # "codex config" /\ "dream" \notin Capturing /\ "mcp" \notin Capturing
    BY DEF Servers, Capturing
<1>3. /\ served \in Seq(Item) /\ ToSet(items) \subseteq ToSet(served)
      /\ ar.mode # "hooks" => HasKey(served, {"mcp", "own mcp"})
      /\ OneCapturer(f, items) => OneCapturer(f, served)
    <2>1. CASE ar.mode = "hooks" \/ HasKey(items, {"mcp", "own mcp"})
        BY <2>1 DEF YamlServer
    <2>2. CASE ~(ar.mode = "hooks" \/ HasKey(items, {"mcp", "own mcp"}))
        <3>1. served = Append(items, s)
            BY <2>2 DEF YamlServer
        <3> HIDE DEF s, served
        <3>2. served \in Seq(Item) /\ ToSet(served) = ToSet(items) \cup {s}
            BY <1>1, <3>1, Appending, AppendingSet
        <3>3. HasKey(served, {"mcp", "own mcp"})
            BY <1>1, <3>2 DEF HasKey
        <3>4. OneCapturer(f, items) => OneCapturer(f, served)
            BY <1>1, <1>2, <3>1, CapturerAdded
        <3>5. QED  BY <3>2, <3>3, <3>4
    <2>3. QED  BY <2>1, <2>2
<1> HIDE DEF served
<1>4. /\ out \in Seq(Item) /\ ToSet(served) \subseteq ToSet(out)
      /\ HasKey(out, {"dream", "tool", "own hook"})
      /\ OneCapturer(f, served) => OneCapturer(f, out)
      /\ out # <<>>
    <2>1. CASE HasKey(served, {"dream", "tool", "own hook"})
        <3>1. out = served
            BY <2>1 DEF YamlHooks
        <3>2. served # <<>>
            BY <2>1, EmptyFile DEF HasKey
        <3>3. QED  BY <1>3, <2>1, <3>1, <3>2
    <2>2. CASE ~HasKey(served, {"dream", "tool", "own hook"})
        <3> DEFINE dreams == Append(served, d)
                   tools == Append(dreams, t)
        <3>1. out = IF ar.mode = "mcp" THEN dreams ELSE tools
            BY <2>2 DEF YamlHooks
        <3> HIDE DEF d, t
        <3>2. /\ dreams \in Seq(Item) /\ dreams # <<>>
              /\ ToSet(dreams) = ToSet(served) \cup {d}
            <4>1. served \in Seq(Item) /\ d \in Item
                BY <1>1, <1>3
            <4>2. QED  BY <4>1, Appending, AppendingSet
        <3>3. OneCapturer(f, served) => OneCapturer(f, dreams)
            BY <1>1, <1>2, <1>3, CapturerAdded
        <3>4. \A y \in ToSet(dreams) : ~(y.part = t.part /\ y.db = t.db)
            BY <1>1, <2>2, <3>2 DEF HasKey
        <3> HIDE DEF dreams
        <3>5. /\ tools \in Seq(Item) /\ tools # <<>>
              /\ ToSet(tools) = ToSet(dreams) \cup {t}
            BY <1>1, <3>2, Appending, AppendingSet
        <3>6. OneCapturer(f, dreams) => OneCapturer(f, tools)
            BY <1>1, <1>2, <3>2, <3>4, CapturerAdded
        <3> HIDE DEF tools
        <3>7. HasKey(dreams, {"dream", "tool", "own hook"}) /\ HasKey(tools, {"dream", "tool", "own hook"})
            BY <1>1, <3>2, <3>5 DEF HasKey
        <3>8. CASE ar.mode = "mcp"
            BY <3>1, <3>2, <3>3, <3>7, <3>8
        <3>9. CASE ar.mode # "mcp"
            BY <3>1, <3>2, <3>3, <3>5, <3>6, <3>7, <3>9
        <3>10. QED  BY <3>8, <3>9
    <2>3. QED  BY <2>1, <2>2
<1> HIDE DEF out
<1>5. ar.mode # "hooks" => HasKey(out, {"mcp", "own mcp"})
    BY <1>3, <1>4, SetKeeps
<1>6. SettledIn(f, out, ar)
    BY <1>2, <1>4, <1>5 DEF SettledIn
<1>7. ToSet(items) \subseteq ToSet(out)
    BY <1>3, <1>4
<1>8. QED  BY <1>3, <1>4, <1>6, <1>7 DEF Merges, out, served

LEMMA ContentsOf ==
    ASSUME NEW ar
    PROVE  /\ \A f \in Servers : Contents(f, ar) = MergedServer(ItemsRead(f), ar)
           /\ Contents("claude settings", ar) = MergedHooks(ItemsRead("claude settings"), ar)
           /\ Contents("opencode plugin", ar) = PluginContents("opencode plugin", ar)
           /\ Contents("codex config", ar) = Appended(ItemsRead("codex config"), ar)
           /\ Contents("hermes config", ar)
                 = YamlHooks(YamlServer(ItemsRead("hermes config"), ar), ar)
<1>1. \A f \in Servers : Contents(f, ar) = MergedServer(ItemsRead(f), ar)
    BY Zenon DEF Contents, Servers
<1>2. Contents("claude settings", ar) = MergedHooks(ItemsRead("claude settings"), ar)
    BY Zenon DEF Contents, Servers
<1>3. Contents("opencode plugin", ar) = PluginContents("opencode plugin", ar)
    BY Zenon DEF Contents, Servers
<1>4. Contents("codex config", ar) = Appended(ItemsRead("codex config"), ar)
    BY Zenon DEF Contents, Servers
<1>5. Contents("hermes config", ar) = YamlHooks(YamlServer(ItemsRead("hermes config"), ar), ar)
    BY Zenon DEF Contents, Servers
<1>6. QED  BY <1>1, <1>2, <1>3, <1>4, <1>5

(* What a run plans for a file that parses.                                *)
LEMMA ContentsMerge ==
    ASSUME NEW ar \in RunArgs, SetupTypeOK, FilesFormed, NEW f \in ConfigFiles, file[f].parses
    PROVE  Merges(f, file[f].items, Contents(f, ar), ar)
<1>1. file[f].items \in Seq(Item) /\ ItemsRead(f) = file[f].items
    BY DEF SetupTypeOK, ConfigFile, ItemsRead
<1>2. CASE f \in Servers
    BY <1>1, <1>2, ServerMerge, ContentsOf
<1>3. CASE f = "claude settings"
    BY <1>1, <1>3, HooksMerge, ContentsOf
<1>4. CASE f = "opencode plugin"
    BY <1>1, <1>4, PluginMerge, ContentsOf
<1>5. CASE f = "codex config"
    BY <1>1, <1>5, BlocksMerge, ContentsOf
<1>6. CASE f = "hermes config"
    BY <1>1, <1>6, YamlMerge, ContentsOf
<1>7. QED  BY <1>2, <1>3, <1>4, <1>5, <1>6, FileNames

(* A settled file is left as it is, but for the Stop hook of Codex.        *)
LEMMA SettledStays ==
    ASSUME NEW ar \in Arguments, SetupTypeOK, FilesFormed, NEW f \in ConfigFiles,
           file[f].parses, SettledIn(f, file[f].items, ar), Contents(f, ar) # file[f].items
    PROVE  /\ f = "codex config" /\ ar.db # NoDb
           /\ Contents(f, ar) = Append(file[f].items, Entry("dream", ar))
<1> DEFINE items == file[f].items
<1>1. items \in Seq(Item) /\ ItemsRead(f) = items /\ (file[f].exists <=> items # <<>>)
    BY DEF SetupTypeOK, ConfigFile, ItemsRead, FilesFormed
<1>2. f \notin Servers
    <2>1. SUFFICES ASSUME f \in Servers PROVE Contents(f, ar) = items
        OBVIOUS
    <2>2. Contents(f, ar) = [i \in DOMAIN items |->
                               IF items[i].part = "mcp" THEN Entry("mcp", ar) ELSE items[i]]
        <3>1. \E i \in DOMAIN items : items[i].part = "mcp"
            BY <2>1 DEF SettledIn
        <3>2. Contents(f, ar) = MergedServer(items, ar)
            BY <1>1, <2>1, ContentsOf
        <3>3. QED  BY <3>1, <3>2 DEF MergedServer
    <2>3. \A i \in DOMAIN items : items[i].part = "mcp" => items[i] = Entry("mcp", ar)
        BY <2>1 DEF SettledIn
    <2>4. Contents(f, ar) = [i \in DOMAIN items |-> items[i]]
        BY <2>2, <2>3
    <2>5. QED  BY <1>1, <2>4
<1>3. f # "claude settings"
    <2>1. SUFFICES ASSUME f = "claude settings" PROVE Contents(f, ar) = items
        OBVIOUS
    <2>2. HooksSettled(items, ar) /\ Contents(f, ar) = MergedHooks(items, ar)
        BY <1>1, <2>1, ContentsOf DEF SettledIn
    <2>3. QED  BY <2>2 DEF HooksSettled, MergedHooks, WithHook
<1>4. f # "opencode plugin"
    <2>1. SUFFICES ASSUME f = "opencode plugin" PROVE Contents(f, ar) = items
        OBVIOUS
    <2>2. items # <<>> /\ items # OldPlugin(ar.bin, ar.db)
        BY <2>1 DEF SettledIn
    <2>3. QED  BY <1>1, <2>1, <2>2, ContentsOf DEF PluginContents
<1>5. f # "hermes config"
    <2>1. SUFFICES ASSUME f = "hermes config" PROVE Contents(f, ar) = items
        OBVIOUS
    <2>2. /\ ar.mode # "hooks" => HasKey(items, {"mcp", "own mcp"})
          /\ HasKey(items, {"dream", "tool", "own hook"})
        BY <2>1 DEF SettledIn
    <2>3. YamlServer(items, ar) = items
        BY <2>2 DEF YamlServer
    <2>4. YamlHooks(items, ar) = items
        BY <2>2 DEF YamlHooks
    <2>5. QED  BY <1>1, <2>1, <2>3, <2>4, ContentsOf
<1>6. f = "codex config"
    BY <1>2, <1>3, <1>4, <1>5, FileNames
<1>7. Contents(f, ar) = Appended(items, ar) /\ BlocksSettled(items, ar)
    BY <1>1, <1>6, ContentsOf DEF SettledIn
<1> DEFINE dreams == WithBlock(items, "dream", ar)
           x == Entry("dream", ar)
<1>8. ToSet(items) \subseteq ToSet(dreams)
    <2>1. CASE Marked(items, "dream")
        BY <2>1 DEF WithBlock
    <2>2. CASE ~Marked(items, "dream")
        <3> HIDE DEF x
        <3>1. ToSet(Append(items, x)) = ToSet(items) \cup {x}
            <4>1. items \in Seq(Item \cup {x}) /\ x \in Item \cup {x}
                BY <1>1
            <4>2. QED  BY <4>1, AppendingSet
        <3>2. dreams = Append(items, x)
            BY <2>2 DEF WithBlock, x
        <3>3. QED  BY <3>1, <3>2
    <2>3. QED  BY <2>1, <2>2
<1>9. Appended(items, ar) = dreams
    <2>1. (IF ar.mode = "hooks" THEN items ELSE WithBlock(items, "mcp", ar)) = items
        BY <1>7 DEF BlocksSettled, WithBlock
    <2>2. CASE ar.mode = "mcp"
        BY <2>1, <2>2 DEF Appended
    <2>3. CASE ar.mode # "mcp"
        <3>1. /\ Marked(dreams, "session-start") /\ Marked(dreams, "prompt")
              /\ Marked(dreams, "tool")
            BY <1>7, <1>8, <2>3, SetKeeps DEF BlocksSettled
        <3> HIDE DEF dreams
        <3>2. /\ WithBlock(dreams, "session-start", ar) = dreams
              /\ WithBlock(dreams, "prompt", ar) = dreams
              /\ WithBlock(dreams, "tool", ar) = dreams
            BY <3>1 DEF WithBlock
        <3>3. QED  BY <2>1, <2>3, <3>2 DEF Appended, dreams
    <2>4. QED  BY <2>2, <2>3
<1>10. ~Marked(items, "dream")
    BY <1>7, <1>9 DEF WithBlock
<1>11. QED  BY <1>6, <1>7, <1>9, <1>10 DEF WithBlock, BlocksSettled

-----------------------------------------------------------------------------
(* The next file to write is one that is still to be written.              *)
LEMMA NextWriteType ==
    ASSUME DOMAIN todo \subseteq ConfigFiles, ~RunOver
    PROVE  NextWrite \in DOMAIN todo
<1> DEFINE I == {i \in 1..Len(FileOrder) : FileOrder[i] \in DOMAIN todo}
<1>1. Len(FileOrder) = 6
    BY DEF FileOrder
<1>2. \A f \in ConfigFiles : \E i \in 1..6 : FileOrder[i] = f
    <2>1. /\ FileOrder[1] = "claude mcp" /\ FileOrder[2] = "claude settings"
          /\ FileOrder[3] = "opencode mcp" /\ FileOrder[4] = "opencode plugin"
          /\ FileOrder[5] = "codex config" /\ FileOrder[6] = "hermes config"
        BY DEF FileOrder
    <2>2. 1 \in 1..6 /\ 2 \in 1..6 /\ 3 \in 1..6 /\ 4 \in 1..6 /\ 5 \in 1..6 /\ 6 \in 1..6
        OBVIOUS
    <2>3. QED  BY <2>1, <2>2, FileNames
<1>3. I # {} /\ I \subseteq Nat
    <2>1. PICK f \in ConfigFiles : f \in DOMAIN todo
        BY DEF RunOver
    <2>2. PICK i \in 1..6 : FileOrder[i] = f
        BY <1>2
    <2>3. i \in I
        BY <1>1, <2>1, <2>2
    <2>4. QED  BY <2>3
<1>5. Min(I) \in I
    BY <1>3, LeastElement
<1>6. SelectInSeq(FileOrder, LAMBDA x : x \in DOMAIN todo) = Min(I)
    BY <1>3 DEF SelectInSeq
<1>7. QED  BY <1>5, <1>6 DEF NextWrite

LEMMA OwnerOf ==
    /\ \A a \in Agents : \A f \in FilesOf(a) : Owner(f) = a
    /\ \A A \in SUBSET Agents : \A f \in FilesOn(A) : Owner(f) \in A
<1>1. /\ FilesOf("claude") = {"claude mcp", "claude settings"}
      /\ FilesOf("opencode") = {"opencode mcp", "opencode plugin"}
      /\ FilesOf("codex") = {"codex config"}
      /\ FilesOf("hermes") = {"hermes config"}
    BY Zenon DEF FilesOf
<1>2. \A a, b \in Agents : \A f \in FilesOf(a) : f \in FilesOf(b) => a = b
    <2>1. SUFFICES ASSUME NEW a \in Agents, NEW b \in Agents, NEW f \in FilesOf(a), f \in FilesOf(b)
                   PROVE  a = b
        OBVIOUS
    <2>2. CASE a = "claude"
        BY <1>1, <2>1, <2>2 DEF Agents
    <2>3. CASE a = "opencode"
        BY <1>1, <2>1, <2>3 DEF Agents
    <2>4. CASE a = "codex"
        BY <1>1, <2>1, <2>4 DEF Agents
    <2>5. CASE a = "hermes"
        BY <1>1, <2>1, <2>5 DEF Agents
    <2>6. QED  BY <2>2, <2>3, <2>4, <2>5 DEF Agents
<1>3. \A a \in Agents : \A f \in FilesOf(a) : Owner(f) = a
    BY <1>2 DEF Owner
<1>4. QED  BY <1>3 DEF FilesOn

-----------------------------------------------------------------------------
(* Type correctness.                                                       *)
LEMMA ShortFiles ==
    ASSUME NEW S, NEW x \in S
    PROVE  <<>> \in Seq(S) /\ <<x>> \in Seq(S)
OBVIOUS

LEMMA SetupInitType == SetupInit => SetupTypeOK
<1> SUFFICES ASSUME SetupInit PROVE SetupTypeOK
    OBVIOUS
<1>0. machine \in Machines /\ machine \subseteq Agents /\ FilesOn(machine) \subseteq ConfigFiles
    BY AgentsAssumption, FileNames DEF SetupInit
<1>1. PICK filled \in SUBSET FilesOn(machine), old \in BOOLEAN, b \in Bins :
          /\ file = [f \in ConfigFiles |->
                IF f \notin filled THEN NoFile
                ELSE IF f # "opencode plugin" THEN FileWith(<<Own("own hook")>>)
                ELSE FileWith(IF old THEN OldPlugin(b, NoDb) ELSE <<Own("own hook")>>)]
          /\ old => "opencode plugin" \in filled
          /\ creator = [f \in ConfigFiles |->
                IF f \notin filled THEN "none"
                ELSE IF old /\ f = "opencode plugin" THEN "memoryd" ELSE "user"]
          /\ home \in {{Owner(f) : f \in filled}, machine}
    BY DEF SetupInit
<1>2. /\ Own("own hook") \in Item
      /\ OldPlugin(b, NoDb) \in Seq(Item)
    <2>1. Own("own hook") \in Item
        BY OwnType DEF OwnParts
    <2>2. [part |-> "old dream", bin |-> b, db |-> NoDb] \in Item
        BY DEF Item, Ours, DbNames
    <2>3. OldPlugin(b, NoDb) \in Seq(Item)
        BY <2>2, ShortFiles DEF OldPlugin
    <2>4. QED  BY <2>1, <2>3
<1>3. <<>> \in Seq(Item) /\ <<Own("own hook")>> \in Seq(Item)
    BY <1>2, ShortFiles
<1>4. \A items \in Seq(Item) : FileWith(items) \in ConfigFile
    BY DEF FileWith, ConfigFile
<1>5. NoFile \in ConfigFile
    BY <1>3 DEF NoFile, ConfigFile
<1>6. file \in [ConfigFiles -> ConfigFile]
    BY <1>1, <1>2, <1>3, <1>4, <1>5
<1>7. backup \in [ConfigFiles -> ConfigFile]
    BY <1>5 DEF SetupInit
<1>8. creator \in [ConfigFiles -> {"none", "user", "memoryd"}]
    BY <1>1
<1>9. home \subseteq machine
    <2>1. \A f \in filled : Owner(f) \in machine
        BY <1>0, OwnerOf
    <2>2. {Owner(f) : f \in filled} \subseteq machine
        BY <2>1
    <2>3. home = {Owner(f) : f \in filled} \/ home = machine
        BY Zenon, <1>1
    <2>4. QED  BY <2>2, <2>3
<1>10. todo = <<>> /\ DOMAIN todo = {}
    BY EmptyFile DEF SetupInit
<1>11. args \in Arguments
    BY DEF SetupInit, NoArgs, Arguments, Modes, DbNames
<1>12. kept \in [ConfigFiles -> SUBSET Item]
    <2>1. \A f \in ConfigFiles : file[f].items \in Seq(Item)
        BY <1>6 DEF ConfigFile
    <2>2. \A f \in ConfigFiles : OwnIn(file[f].items) \subseteq Item
        BY <2>1 DEF OwnIn, ToSet
    <2>3. QED  BY <2>2 DEF SetupInit
<1>13. /\ captured \in [1..MaxEvents -> [Databases -> Nat]]
       /\ context \in [1..MaxEvents -> SUBSET (1..MaxEvents)]
       /\ hooks \subseteq HookProcess
       /\ copied \in BOOLEAN
       /\ started \in 0..MaxRuns /\ edits \in 0..MaxEdits
    <2>1. [d \in Databases |-> 0] \in [Databases -> Nat]
        OBVIOUS
    <2>2. captured \in [1..MaxEvents -> [Databases -> Nat]]
        BY <2>1 DEF SetupInit
    <2>3. context \in [1..MaxEvents -> SUBSET (1..MaxEvents)]
        BY DEF SetupInit
    <2>4. hooks = {} /\ copied = FALSE /\ started = 0 /\ edits = 0
        BY DEF SetupInit
    <2>5. 0 \in 0..MaxRuns /\ 0 \in 0..MaxEdits
        BY SetupBoundsAssumption
    <2>6. QED  BY <2>2, <2>3, <2>4, <2>5
<1>14. QED  BY <1>0, <1>6, <1>7, <1>8, <1>9, <1>10, <1>11, <1>12, <1>13 DEF SetupTypeOK

(* The arguments a run is started with, and what it plans.                 *)
LEMMA PlanShape ==
    ASSUME SetupTypeOK, FilesFormed, Plan
    PROVE  \/ args' = NoArgs /\ DOMAIN todo' = {}
           \/ /\ args' \in RunArgs /\ args'.agents \subseteq machine
              /\ \A f \in Planned(args') : file[f].parses
              /\ Planned(args') \subseteq FilesOn(machine)
              /\ FilesOn(machine) \subseteq ConfigFiles
              /\ todo' = [f \in Writes(args') |-> Contents(f, args')]
<1>0. machine \subseteq Agents /\ FilesOn(machine) \subseteq ConfigFiles
    BY AgentsAssumption, FileNames DEF SetupTypeOK
<1>1. PICK T \in Targets, mode \in Modes, b \in Bins, d \in DbNames :
          LET ar == [agents |-> T, mode |-> mode, bin |-> b, db |-> d]
          IN  IF Refused(ar)
              THEN args' = NoArgs /\ UNCHANGED todo
              ELSE /\ args' = ar
                   /\ todo' = [f \in Writes(ar) |-> Contents(f, ar)]
    BY DEF Plan
<1> DEFINE ar == [agents |-> T, mode |-> mode, bin |-> b, db |-> d]
<1>2. CASE Refused(ar)
    BY <1>1, <1>2 DEF Plan, RunOver
<1>3. CASE ~Refused(ar)
    <2>1. args' = ar /\ todo' = [f \in Writes(ar) |-> Contents(f, ar)]
        BY <1>1, <1>3
    <2>2. T \subseteq machine
        BY DEF Targets, SetupTypeOK
    <2>3. ar \in RunArgs /\ ar.agents = T
        BY <1>0, <2>2 DEF RunArgs
    <2> HIDE DEF ar
    <2>4. Planned(ar) \subseteq FilesOn(machine)
        BY <2>2, <2>3 DEF Planned, FilesOn
    <2>5. \A f \in Planned(ar) : file[f].parses
        BY <1>3 DEF Refused, Readable
    <2>6. QED  BY <1>0, <2>1, <2>2, <2>3, <2>4, <2>5
<1>4. QED  BY <1>2, <1>3

LEMMA PlanType ==
    ASSUME SetupTypeOK, FilesFormed, Plan
    PROVE  SetupTypeOK'
<1>1. /\ UNCHANGED <<machine, file, backup, creator, home, kept, edits, hooks, captured, context>>
      /\ copied' = FALSE /\ started < MaxRuns /\ started' = started + 1
    BY DEF Plan, disk, events
<1>2. started' \in 0..MaxRuns
    BY <1>1, SetupBoundsAssumption DEF SetupTypeOK
<1>3. /\ args' \in Arguments /\ DOMAIN todo' \subseteq FilesOn(machine)
      /\ \A f \in DOMAIN todo' : todo'[f] \in Seq(Item)
    <2>1. CASE args' = NoArgs /\ DOMAIN todo' = {}
        BY <2>1 DEF NoArgs, Arguments, Modes, DbNames
    <2>2. CASE /\ args' \in RunArgs /\ args'.agents \subseteq machine
               /\ \A f \in Planned(args') : file[f].parses
               /\ Planned(args') \subseteq FilesOn(machine)
               /\ FilesOn(machine) \subseteq ConfigFiles
               /\ todo' = [f \in Writes(args') |-> Contents(f, args')]
        <3>1. args' \in Arguments
            BY <2>2 DEF RunArgs, Arguments
        <3>2. DOMAIN todo' \subseteq Planned(args')
            BY <2>2 DEF Writes
        <3>3. ASSUME NEW f \in DOMAIN todo' PROVE todo'[f] \in Seq(Item)
            <4>1. f \in Planned(args') /\ f \in ConfigFiles /\ file[f].parses
                BY <2>2, <3>2
            <4>2. Contents(f, args') \in Seq(Item)
                BY <2>2, <4>1, ContentsMerge DEF Merges
            <4>3. QED  BY <2>2, <4>2
        <3>4. QED  BY <2>2, <3>1, <3>2, <3>3
    <2>3. QED  BY <2>1, <2>2, PlanShape
<1>4. QED  BY <1>1, <1>2, <1>3 DEF SetupTypeOK

LEMMA TakeBackupType == ASSUME SetupTypeOK, TakeBackup PROVE SetupTypeOK'
<1>1. /\ UNCHANGED <<machine, file, creator, home, todo, args, started, kept, edits,
                     hooks, captured, context>>
      /\ copied' = TRUE
    BY DEF TakeBackup, events
<1>2. backup' \in [ConfigFiles -> ConfigFile]
    <2>1. NextWrite \in ConfigFiles
        BY NextWriteType, AgentsAssumption, FileNames DEF TakeBackup, SetupTypeOK
    <2>2. backup' = backup \/ backup' = [backup EXCEPT ![NextWrite] = file[NextWrite]]
        BY DEF TakeBackup
    <2>3. QED  BY <2>1, <2>2 DEF SetupTypeOK
<1>3. QED  BY <1>1, <1>2 DEF SetupTypeOK

LEMMA FileWithType ==
    ASSUME NEW items \in Seq(Item)
    PROVE  /\ FileWith(items) \in ConfigFile
           /\ FileWith(items).exists /\ FileWith(items).parses
           /\ FileWith(items).items = items
BY DEF FileWith, ConfigFile

LEMMA InstallType == ASSUME SetupTypeOK, Install PROVE SetupTypeOK'
<1>1. UNCHANGED <<machine, backup, args, started, kept, edits, hooks, captured, context>>
    BY DEF Install, events
<1>2. /\ NextWrite \in DOMAIN todo /\ NextWrite \in FilesOn(machine)
      /\ NextWrite \in ConfigFiles /\ machine \subseteq Agents
    BY NextWriteType, AgentsAssumption, FileNames DEF Install, SetupTypeOK
<1>3. file' \in [ConfigFiles -> ConfigFile]
    <2>1. todo[NextWrite] \in Seq(Item)
        BY <1>2 DEF SetupTypeOK
    <2>2. QED  BY <2>1, <1>2, FileWithType DEF Install, SetupTypeOK
<1>4. creator' \in [ConfigFiles -> {"none", "user", "memoryd"}]
    BY <1>2 DEF Install, SetupTypeOK
<1>5. home' \subseteq machine
    BY <1>2, OwnerOf DEF Install, SetupTypeOK
<1>6. /\ DOMAIN todo' \subseteq FilesOn(machine)
      /\ \A f \in DOMAIN todo' : todo'[f] \in Seq(Item)
    BY DEF Install, SetupTypeOK
<1>7. copied' \in BOOLEAN
    BY DEF Install
<1>8. QED  BY <1>1, <1>3, <1>4, <1>5, <1>6, <1>7 DEF SetupTypeOK

LEMMA StopType == ASSUME SetupTypeOK, Stop PROVE SetupTypeOK'
<1>1. UNCHANGED <<machine, file, creator, home, started, kept, edits, hooks, captured, context>>
    BY DEF Stop, events
<1>2. backup' \in [ConfigFiles -> ConfigFile]
    <2>1. NextWrite \in ConfigFiles
        BY NextWriteType, AgentsAssumption, FileNames DEF Stop, SetupTypeOK
    <2>2. backup' = backup \/ backup' = [backup EXCEPT ![NextWrite] = FileWith(<<>>)]
        BY DEF Stop
    <2>3. FileWith(<<>>) \in ConfigFile
        <3>1. <<>> \in Seq(Item)
            OBVIOUS
        <3>2. QED  BY <3>1, FileWithType
    <2>4. QED  BY <2>1, <2>2, <2>3 DEF SetupTypeOK
<1>3. DOMAIN todo' = {} /\ args' = NoArgs /\ copied' = FALSE
    BY EmptyFile DEF Stop
<1>4. args' \in Arguments
    BY <1>3 DEF NoArgs, Arguments, Modes, DbNames
<1>5. QED  BY <1>1, <1>2, <1>3, <1>4 DEF SetupTypeOK

(* An edit appends an entry of the user, or changes whether a file parses. *)
LEMMA EditShape ==
    ASSUME SetupTypeOK, NEW f \in FilesOn(machine), Edit(f)
    PROVE  /\ f \in ConfigFiles /\ Owner(f) \in machine
           /\ UNCHANGED <<machine, backup, todo, copied, args, started, hooks, captured, context>>
           /\ edits' \in 0..MaxEdits
           /\ \/ \E p \in OwnParts, parses \in BOOLEAN :
                    /\ file' = [file EXCEPT ![f] = [exists |-> TRUE, parses |-> parses,
                                                   items |-> Append(file[f].items, Own(p))]]
                    /\ kept' = IF f \in DOMAIN todo THEN kept
                               ELSE [kept EXCEPT ![f] = @ \cup {Own(p)}]
                    /\ creator' = IF file[f].exists THEN creator
                                  ELSE [creator EXCEPT ![f] = "user"]
                    /\ home' = home \cup {Owner(f)}
              \/ /\ file[f].exists
                 /\ \E parses \in BOOLEAN :
                       file' = [file EXCEPT ![f] = [exists |-> TRUE, parses |-> parses,
                                                    items |-> file[f].items]]
                 /\ UNCHANGED <<creator, home, kept>>
<1>1. f \in ConfigFiles /\ Owner(f) \in machine
    BY AgentsAssumption, FileNames, OwnerOf DEF SetupTypeOK
<1>2. UNCHANGED <<machine, backup, todo, copied, args, started, hooks, captured, context>>
    BY DEF Edit, run, events
<1>3. edits' \in 0..MaxEdits
    BY SetupBoundsAssumption DEF Edit, SetupTypeOK
<1>4. file[f] \in ConfigFile
    BY <1>1 DEF SetupTypeOK
<1>5. file[f].parses \in BOOLEAN
    BY <1>4 DEF ConfigFile
<1>6. (~file[f].parses) \in BOOLEAN
    BY Zenon, <1>5
<1>7. QED  BY <1>1, <1>2, <1>3, <1>5, <1>6 DEF Edit

LEMMA EditType ==
    ASSUME SetupTypeOK, NEW f \in FilesOn(machine), Edit(f)
    PROVE  SetupTypeOK'
<1>1. /\ f \in ConfigFiles /\ Owner(f) \in machine /\ file[f].items \in Seq(Item)
      /\ UNCHANGED <<machine, backup, todo, copied, args, started, hooks, captured, context>>
      /\ edits' \in 0..MaxEdits
    BY EditShape DEF SetupTypeOK, ConfigFile
<1>2. \A p \in OwnParts : Own(p) \in Item /\ Append(file[f].items, Own(p)) \in Seq(Item)
    BY <1>1, OwnType, Appending
<1>3. \A parses \in BOOLEAN, items \in Seq(Item) :
          [exists |-> TRUE, parses |-> parses, items |-> items] \in ConfigFile
    BY DEF ConfigFile
<1>4. /\ file' \in [ConfigFiles -> ConfigFile]
      /\ creator' \in [ConfigFiles -> {"none", "user", "memoryd"}]
      /\ home' \subseteq machine
      /\ kept' \in [ConfigFiles -> SUBSET Item]
    <2>1. CASE \E p \in OwnParts, parses \in BOOLEAN :
                    /\ file' = [file EXCEPT ![f] = [exists |-> TRUE, parses |-> parses,
                                                   items |-> Append(file[f].items, Own(p))]]
                    /\ kept' = IF f \in DOMAIN todo THEN kept
                               ELSE [kept EXCEPT ![f] = @ \cup {Own(p)}]
                    /\ creator' = IF file[f].exists THEN creator
                                  ELSE [creator EXCEPT ![f] = "user"]
                    /\ home' = home \cup {Owner(f)}
        <3>1. file' \in [ConfigFiles -> ConfigFile]
            <4>1. PICK p \in OwnParts, parses \in BOOLEAN :
                      file' = [file EXCEPT ![f] = [exists |-> TRUE, parses |-> parses,
                                                   items |-> Append(file[f].items, Own(p))]]
                BY <2>1
            <4>2. [exists |-> TRUE, parses |-> parses,
                   items |-> Append(file[f].items, Own(p))] \in ConfigFile
                BY <1>2, <1>3
            <4>3. QED  BY <1>1, <4>1, <4>2 DEF SetupTypeOK
        <3>2. creator' \in [ConfigFiles -> {"none", "user", "memoryd"}]
            BY <1>1, <2>1 DEF SetupTypeOK
        <3>3. home' \subseteq machine
            BY <1>1, <2>1 DEF SetupTypeOK
        <3>4. kept' \in [ConfigFiles -> SUBSET Item]
            BY <1>1, <1>2, <2>1 DEF SetupTypeOK
        <3>5. QED  BY <3>1, <3>2, <3>3, <3>4
    <2>2. CASE /\ \E parses \in BOOLEAN :
                       file' = [file EXCEPT ![f] = [exists |-> TRUE, parses |-> parses,
                                                    items |-> file[f].items]]
               /\ UNCHANGED <<creator, home, kept>>
        BY <1>1, <1>3, <2>2 DEF SetupTypeOK
    <2>3. QED  BY <2>1, <2>2, EditShape
<1>5. QED  BY <1>1, <1>4 DEF SetupTypeOK

(* The hooks an event starts are those of the files of its agent.          *)
LEMMA HooksOf ==
    ASSUME SetupTypeOK, NEW a \in Agents, NEW part
    PROVE  \A h \in HooksFor(a, part) :
               \E f \in FilesOf(a), i \in Nat \ {0} :
                   /\ h = <<f, i>> /\ f \in ConfigFiles
                   /\ file[f].items \in Seq(Item) /\ i \in DOMAIN file[f].items
                   /\ file[f].items[i].part = part
                   /\ file[f].items[i].db \in DbNames
<1>1. FilesOf(a) \subseteq ConfigFiles
    BY DEF ConfigFiles, FilesOn
<1>2. SUFFICES ASSUME NEW h \in HooksFor(a, part)
               PROVE  \E f \in FilesOf(a), i \in Nat \ {0} :
                   /\ h = <<f, i>> /\ f \in ConfigFiles
                   /\ file[f].items \in Seq(Item) /\ i \in DOMAIN file[f].items
                   /\ file[f].items[i].part = part
                   /\ file[f].items[i].db \in DbNames
    OBVIOUS
<1>3. PICK f \in FilesOf(a) :
          h \in {f} \X {i \in DOMAIN file[f].items : file[f].items[i].part = part}
    BY <1>2 DEF HooksFor
<1>4. f \in ConfigFiles /\ file[f].items \in Seq(Item)
    BY <1>1 DEF SetupTypeOK, ConfigFile
<1>5. PICK i \in DOMAIN file[f].items : h = <<f, i>> /\ file[f].items[i].part = part
    BY <1>3
<1>6. i \in Nat \ {0} /\ file[f].items[i] \in Item
    BY <1>4, <1>5
<1>7. QED  BY <1>4, <1>5, <1>6 DEF Item

(* The hooks an event adds.                                                *)
Fresh(a, part) ==
    {[event |-> NextEvent, at |-> h, left |-> Steps(part),
      db |-> file[h[1]].items[h[2]].db] : h \in HooksFor(a, part)}

LEMMA FreshType ==
    ASSUME SetupTypeOK, EventsNumbered, NEW a \in Agents, NEW part, NextEvent <= MaxEvents
    PROVE  /\ Fresh(a, part) \subseteq HookProcess
           /\ \A h \in Fresh(a, part) : h.event = NextEvent
           /\ NextEvent \in 1..MaxEvents /\ NextEvent \notin Happened
           /\ \E n \in 0..MaxEvents : Happened = 1..n /\ NextEvent = n + 1
<1>1. PICK n \in 0..MaxEvents : Happened = 1..n
    BY DEF EventsNumbered
<1>2. NextEvent = n + 1
    <2>1. Cardinality(1..n) = n
        BY FS_Interval, SetupBoundsAssumption
    <2>2. QED  BY <1>1, <2>1 DEF NextEvent
<1>3. NextEvent \in 1..MaxEvents /\ NextEvent \notin Happened
    BY <1>1, <1>2, SetupBoundsAssumption
<1>4. ASSUME NEW h \in Fresh(a, part) PROVE h \in HookProcess /\ h.event = NextEvent
    <2>1. PICK k \in HooksFor(a, part) :
              h = [event |-> NextEvent, at |-> k, left |-> Steps(part),
                   db |-> file[k[1]].items[k[2]].db]
        BY <1>4 DEF Fresh
    <2>2. PICK f \in FilesOf(a), i \in Nat \ {0} :
              /\ k = <<f, i>> /\ f \in ConfigFiles
              /\ file[f].items[i].db \in DbNames
        BY HooksOf
    <2>3. k \in ConfigFiles \X (Nat \ {0}) /\ file[k[1]].items[k[2]].db \in DbNames
        BY <2>2
    <2>4. Steps(part) \in {<<"recall", "capture">>, <<"capture">>, <<>>}
        BY DEF Steps
    <2>5. QED  BY <1>3, <2>1, <2>3, <2>4 DEF HookProcess
<1>5. QED  BY <1>1, <1>2, <1>3, <1>4

LEMMA EventType ==
    ASSUME SetupTypeOK, EventsNumbered, NEW a \in Agents, NEW part, Event(a, part)
    PROVE  SetupTypeOK'
<1>1. /\ UNCHANGED <<machine, file, backup, creator, home, todo, copied, args, started,
                     kept, edits, captured, context>>
      /\ hooks' = hooks \cup Fresh(a, part)
    BY DEF Event, disk, run, Fresh
<1>2. hooks' \subseteq HookProcess
    BY <1>1, FreshType DEF Event, SetupTypeOK
<1>3. QED  BY <1>1, <1>2 DEF SetupTypeOK

(* A step of a hook: what is left of it, and what it recalls or captures.  *)
LEMMA HookStepShape ==
    ASSUME SetupTypeOK, NEW h \in hooks, HookStep(h)
    PROVE  /\ UNCHANGED <<machine, file, backup, creator, home, todo, copied, args, started,
                          kept, edits>>
           /\ h \in HookProcess /\ h.left # <<>>
           /\ \E g \in HookProcess :
                 /\ hooks' = (hooks \ {h}) \cup {g}
                 /\ g.event = h.event /\ g.db = h.db
                 /\ \/ /\ context' = [context EXCEPT ![h.event] = @ \cup Recalled(Opens[h.db])]
                       /\ captured' = captured
                    \/ /\ g.left = <<>>
                       /\ captured' = [captured EXCEPT ![h.event][Opens[h.db]] = @ + 1]
                       /\ context' = context
                    \/ g.left = <<>> /\ captured' = captured /\ context' = context
<1>1. /\ UNCHANGED <<machine, file, backup, creator, home, todo, copied, args, started,
                     kept, edits>>
      /\ h \in HookProcess /\ h.left # <<>>
    BY DEF HookStep, SetupTypeOK, disk, run
<1>2. \A left : [h EXCEPT !.left = left]
                   = [event |-> h.event, at |-> h.at, db |-> h.db, left |-> left]
    BY <1>1 DEF HookProcess
<1>3. h.left = <<"recall", "capture">> \/ h.left = <<"capture">>
    BY <1>1 DEF HookProcess
<1>4. \/ /\ h.left = <<"recall", "capture">> /\ Head(h.left) = "recall"
         /\ Tail(h.left) = <<"capture">>
      \/ h.left = <<"capture">> /\ Head(h.left) = "capture" /\ Tail(h.left) = <<>>
    <2>1. /\ Head(<<"recall", "capture">>) = "recall"
          /\ Tail(<<"recall", "capture">>) = <<"capture">>
        OBVIOUS
    <2>2. Head(<<"capture">>) = "capture" /\ Tail(<<"capture">>) = <<>>
        OBVIOUS
    <2>3. QED  BY <1>3, <2>1, <2>2
<1> DEFINE g(left) == [event |-> h.event, at |-> h.at, db |-> h.db, left |-> left]
<1>5. \A left \in {<<"capture">>, <<>>} :
          g(left) \in HookProcess /\ g(left).event = h.event /\ g(left).db = h.db
                                 /\ g(left).left = left
    BY <1>1 DEF HookProcess
<1>6. CASE /\ hooks' = (hooks \ {h}) \cup {[h EXCEPT !.left = Tail(@)]}
           /\ Head(h.left) = "recall"
           /\ context' = [context EXCEPT ![h.event] = @ \cup Recalled(Opens[h.db])]
           /\ captured' = captured
    <2>1. hooks' = (hooks \ {h}) \cup {g(<<"capture">>)}
        BY <1>2, <1>4, <1>6
    <2>2. QED  BY <1>1, <1>5, <1>6, <2>1
<1>7. CASE /\ hooks' = (hooks \ {h}) \cup {[h EXCEPT !.left = Tail(@)]}
           /\ Head(h.left) = "capture"
           /\ captured' = [captured EXCEPT ![h.event][Opens[h.db]] = @ + 1]
           /\ context' = context
    <2>1. hooks' = (hooks \ {h}) \cup {g(<<>>)}
        BY <1>2, <1>4, <1>7
    <2>2. QED  BY <1>1, <1>5, <1>7, <2>1
<1>8. CASE /\ hooks' = (hooks \ {h}) \cup {[h EXCEPT !.left = <<>>]}
           /\ captured' = captured /\ context' = context
    <2>1. hooks' = (hooks \ {h}) \cup {g(<<>>)}
        BY <1>2, <1>8
    <2>2. QED  BY <1>1, <1>5, <1>8, <2>1
<1>9. QED  BY <1>6, <1>7, <1>8 DEF HookStep

LEMMA HookStepType ==
    ASSUME SetupTypeOK, NEW h \in hooks, HookStep(h)
    PROVE  SetupTypeOK'
<1>1. UNCHANGED <<machine, file, backup, creator, home, todo, copied, args, started,
                  kept, edits>>
    BY HookStepShape
<1>2. h.event \in 1..MaxEvents /\ Opens[h.db] \in Databases
    BY HookStepShape, OpensAssumption DEF HookProcess
<1>3. PICK g \in HookProcess :
          /\ hooks' = (hooks \ {h}) \cup {g}
          /\ \/ /\ context' = [context EXCEPT ![h.event] = @ \cup Recalled(Opens[h.db])]
                /\ captured' = captured
             \/ /\ captured' = [captured EXCEPT ![h.event][Opens[h.db]] = @ + 1]
                /\ context' = context
             \/ captured' = captured /\ context' = context
    BY HookStepShape
<1>4. hooks' \subseteq HookProcess
    BY <1>3 DEF SetupTypeOK
<1>5. context' \in [1..MaxEvents -> SUBSET (1..MaxEvents)]
    <2>1. Recalled(Opens[h.db]) \subseteq 1..MaxEvents
        BY DEF Recalled
    <2>2. QED  BY <1>2, <1>3, <2>1 DEF SetupTypeOK
<1>6. captured' \in [1..MaxEvents -> [Databases -> Nat]]
    <2>1. captured[h.event] \in [Databases -> Nat]
        BY <1>2 DEF SetupTypeOK
    <2>2. [captured[h.event] EXCEPT ![Opens[h.db]] = @ + 1] \in [Databases -> Nat]
        BY <1>2, <2>1
    <2>3. \/ captured' = captured
          \/ captured' = [captured EXCEPT ![h.event] = [captured[h.event] EXCEPT ![Opens[h.db]] = @ + 1]]
        BY <1>3
    <2>4. QED  BY <2>2, <2>3 DEF SetupTypeOK
<1>7. QED  BY <1>1, <1>4, <1>5, <1>6 DEF SetupTypeOK

-----------------------------------------------------------------------------
(* The files: each action keeps FileInv.                                   *)
LEMMA SingleEntry ==
    ASSUME NEW x
    PROVE  /\ ToSet(<<x>>) = {x} /\ <<x>> # <<>>
           /\ x.part \notin Capturing => \A f : OneCapturer(f, <<x>>)
<1>1. \A i \in DOMAIN <<x>> : <<x>>[i] = x
    OBVIOUS
<1>2. 1 \in DOMAIN <<x>>
    OBVIOUS
<1>3. ToSet(<<x>>) = {x}
    BY <1>1, <1>2 DEF ToSet
<1>4. QED  BY <1>1, <1>3 DEF OneCapturer

LEMMA FilesInit == SetupInit => FileInv
<1> SUFFICES ASSUME SetupInit PROVE FileInv
    OBVIOUS
<1>1. PICK filled \in SUBSET FilesOn(machine), old \in BOOLEAN, b \in Bins :
          /\ file = [f \in ConfigFiles |->
                IF f \notin filled THEN NoFile
                ELSE IF f # "opencode plugin" THEN FileWith(<<Own("own hook")>>)
                ELSE FileWith(IF old THEN OldPlugin(b, NoDb) ELSE <<Own("own hook")>>)]
          /\ old => "opencode plugin" \in filled
          /\ creator = [f \in ConfigFiles |->
                IF f \notin filled THEN "none"
                ELSE IF old /\ f = "opencode plugin" THEN "memoryd" ELSE "user"]
          /\ home \in {{Owner(f) : f \in filled}, machine}
    BY DEF SetupInit
<1> DEFINE own == Own("own hook")
           plugin == [part |-> "old dream", bin |-> b, db |-> NoDb]
<1>2. \A f \in ConfigFiles :
          \/ file[f] = NoFile /\ creator[f] = "none"
          \/ file[f] = FileWith(<<own>>)
          \/ file[f] = FileWith(<<plugin>>) /\ creator[f] = "memoryd"
    BY <1>1 DEF OldPlugin
<1>3. own.part = "own hook" /\ plugin.part = "old dream"
    BY DEF Own
<1> HIDE DEF own, plugin
<1>4. /\ NoFile.exists = FALSE /\ NoFile.items = <<>>
      /\ \A items : FileWith(items).exists /\ FileWith(items).items = items
    BY DEF NoFile, FileWith
<1>5. /\ todo = <<>> /\ args = NoArgs
      /\ backup = [f \in ConfigFiles |-> NoFile]
      /\ kept = [f \in ConfigFiles |-> OwnIn(file[f].items)]
    BY DEF SetupInit
<1>6. DOMAIN todo = {}
    BY <1>5, EmptyFile
<1>7. FilesFormed
    <2>1. \A f \in ConfigFiles : file[f].exists <=> file[f].items # <<>>
        BY <1>2, <1>4, SingleEntry
    <2>2. QED  BY <1>4, <1>5, <1>6, <2>1 DEF FilesFormed
<1>8. OwnEntriesPlanned /\ OwnEntriesKept
    BY <1>5, <1>6 DEF OwnEntriesPlanned, OwnEntriesKept, OwnIn
<1>9. OriginalUntilBackup
    <2>1. ASSUME NEW f \in ConfigFiles, creator[f] = "user" PROVE OursIn(file[f].items) = {}
        <3>1. file[f] = FileWith(<<own>>)
            BY <1>2, <2>1
        <3>2. ToSet(file[f].items) = {own}
            BY <1>4, <3>1, SingleEntry
        <3>3. QED  BY <1>3, <3>2 DEF OursIn, Ours, Capturing
    <2>2. QED  BY <2>1 DEF OriginalUntilBackup
<1>10. BackupIsOriginal
    BY <1>4, <1>5, EmptyFile DEF BackupIsOriginal, OursIn
<1>11. RunSettles
    BY <1>5 DEF RunSettles
<1>12. CapturersUnique
    <2>1. own.part \notin Capturing /\ plugin.part \notin Capturing
        BY <1>3 DEF Capturing
    <2>2. ASSUME NEW f \in ConfigFiles PROVE OneCapturer(f, file[f].items)
        <3>1. \/ file[f].items = <<>>
              \/ file[f].items = <<own>>
              \/ file[f].items = <<plugin>>
            BY <1>2, <1>4
        <3> DEFINE items == file[f].items
        <3> HIDE DEF items
        <3>2. items = <<>> => OneCapturer(f, items)
            BY EmptyFile
        <3>3. items = <<own>> => OneCapturer(f, items)
            BY <2>1, SingleEntry
        <3>4. items = <<plugin>> => OneCapturer(f, items)
            BY <2>1, SingleEntry
        <3>5. QED  BY <3>1, <3>2, <3>3, <3>4 DEF items
    <2>3. QED  BY <1>6, <2>2 DEF CapturersUnique
<1>13. QED  BY <1>7, <1>8, <1>9, <1>10, <1>11, <1>12 DEF FileInv

LEMMA FilesFrame ==
    ASSUME FileInv, UNCHANGED <<file, backup, creator, todo, args, kept>>
    PROVE  FileInv'
<1>1. FilesFormed'
    BY DEF FileInv, FilesFormed
<1>2. OwnEntriesPlanned' /\ OwnEntriesKept'
    BY DEF FileInv, OwnEntriesPlanned, OwnEntriesKept
<1>3. OriginalUntilBackup' /\ BackupIsOriginal'
    BY DEF FileInv, OriginalUntilBackup, BackupIsOriginal
<1>4. RunSettles'
    BY DEF FileInv, RunSettles
<1>5. CapturersUnique'
    BY DEF FileInv, CapturersUnique
<1>6. QED  BY <1>1, <1>2, <1>3, <1>4, <1>5 DEF FileInv

LEMMA FilesPlan == ASSUME SetupTypeOK, FileInv, Plan PROVE FileInv'
<1>1. UNCHANGED <<machine, file, backup, creator, kept>>
    BY DEF Plan, disk
<1>2. OwnEntriesKept' /\ OriginalUntilBackup' /\ BackupIsOriginal'
    BY <1>1 DEF FileInv, OwnEntriesKept, OriginalUntilBackup, BackupIsOriginal
<1>3. FilesFormed
    BY DEF FileInv
<1>4. CASE args' = NoArgs /\ DOMAIN todo' = {}
    <2>1. FilesFormed' /\ OwnEntriesPlanned'
        BY <1>1, <1>4 DEF FileInv, FilesFormed, OwnEntriesPlanned
    <2>2. RunSettles' /\ CapturersUnique'
        BY <1>1, <1>4 DEF FileInv, RunSettles, CapturersUnique
    <2>3. QED  BY <1>2, <2>1, <2>2 DEF FileInv
<1>5. CASE /\ args' \in RunArgs /\ args'.agents \subseteq machine
           /\ \A f \in Planned(args') : file[f].parses
           /\ Planned(args') \subseteq FilesOn(machine)
           /\ FilesOn(machine) \subseteq ConfigFiles
           /\ todo' = [f \in Writes(args') |-> Contents(f, args')]
    <2>1. DOMAIN todo' \subseteq Planned(args') /\ Planned(args') \subseteq ConfigFiles
        BY <1>5 DEF Writes
    <2>2. ASSUME NEW f \in Planned(args')
          PROVE  Merges(f, file[f].items, Contents(f, args'), args')
        BY <1>3, <1>5, <2>1, ContentsMerge
    <2>3. \A f \in DOMAIN todo' : Merges(f, file[f].items, todo'[f], args')
        BY <1>5, <2>1, <2>2
    <2>4. \A f \in Planned(args') \ DOMAIN todo' : Contents(f, args') = file[f].items
        BY <1>5 DEF Writes
    <2>5. FilesFormed'
        BY <1>1, <2>3 DEF FileInv, FilesFormed, Merges
    <2>6. OwnEntriesPlanned'
        <3>1. ASSUME NEW f \in DOMAIN todo', NEW x \in kept[f] PROVE x \in ToSet(todo'[f])
            <4>1. x \in ToSet(file[f].items) /\ x.part \in OwnParts
                BY <2>1 DEF FileInv, OwnEntriesKept, OwnEntriesPlanned
            <4>2. QED  BY <2>3, <4>1 DEF Merges
        <3>2. QED  BY <1>1, <3>1 DEF FileInv, OwnEntriesPlanned
    <2>7. RunSettles'
        <3>1. \A f \in Planned(args') \ DOMAIN todo' : SettledIn(f, file[f].items, args')
            BY <2>2, <2>4 DEF Merges
        <3>2. \A f \in DOMAIN todo' : SettledIn(f, todo'[f], args')
            BY <2>3 DEF Merges
        <3>3. Planned(args)' = Planned(args')
            BY DEF Planned
        <3>4. QED  BY <1>1, <2>1, <3>1, <3>2, <3>3 DEF RunSettles
    <2>8. CapturersUnique'
        BY <1>1, <2>1, <2>3 DEF FileInv, CapturersUnique, Merges
    <2>9. QED  BY <1>2, <2>5, <2>6, <2>7, <2>8 DEF FileInv
<1>6. QED  BY <1>3, <1>4, <1>5, PlanShape

LEMMA FilesTakeBackup == ASSUME SetupTypeOK, FileInv, TakeBackup PROVE FileInv'
<1>1. UNCHANGED <<file, creator, todo, args, kept>>
    BY DEF TakeBackup
<1>2. OwnEntriesPlanned' /\ OwnEntriesKept' /\ RunSettles' /\ CapturersUnique'
    BY <1>1 DEF FileInv, OwnEntriesPlanned, OwnEntriesKept, RunSettles, CapturersUnique
<1>3. \A f \in ConfigFiles :
          \/ backup'[f] = backup[f]
          \/ ~backup[f].exists /\ file[f].exists /\ backup'[f] = file[f]
    BY DEF TakeBackup, NeedsBackup, SetupTypeOK
<1>4. FilesFormed'
    BY <1>1, <1>3 DEF FileInv, FilesFormed
<1>5. BackupIsOriginal'
    BY <1>1, <1>3 DEF FileInv, BackupIsOriginal, OriginalUntilBackup
<1>6. OriginalUntilBackup'
    BY <1>1, <1>3 DEF FileInv, OriginalUntilBackup
<1>7. QED  BY <1>2, <1>4, <1>5, <1>6 DEF FileInv

LEMMA FilesInstall == ASSUME SetupTypeOK, FileInv, Install PROVE FileInv'
<1> DEFINE f == NextWrite
<1>1. f \in DOMAIN todo /\ f \in ConfigFiles
    BY NextWriteType, AgentsAssumption, FileNames DEF Install, SetupTypeOK
<1>2. UNCHANGED <<backup, args, kept>>
    BY DEF Install
<1>3. /\ file' = [file EXCEPT ![f] = FileWith(todo[f])]
      /\ todo' = [x \in DOMAIN todo \ {f} |-> todo[x]]
      /\ creator' = IF backup[f].exists THEN creator ELSE [creator EXCEPT ![f] = "memoryd"]
    BY DEF Install
<1> HIDE DEF f
<1>4. /\ todo[f] \in Seq(Item) /\ todo[f] # <<>>
      /\ file'[f].items = todo[f] /\ file'[f].exists
      /\ \A x \in ConfigFiles \ {f} : file'[x] = file[x]
    BY <1>1, <1>3, FileWithType DEF SetupTypeOK, FileInv, FilesFormed
<1>5. DOMAIN todo' = DOMAIN todo \ {f} /\ \A x \in DOMAIN todo' : todo'[x] = todo[x]
    BY <1>3
<1>6. \A x \in ConfigFiles :
          \/ creator'[x] = creator[x] /\ (x = f => backup[f].exists)
          \/ creator'[x] = "memoryd" /\ x = f
    BY <1>1, <1>3 DEF SetupTypeOK
<1>7. FilesFormed'
    BY <1>2, <1>4, <1>5 DEF FileInv, FilesFormed
<1>8. OwnEntriesPlanned'
    BY <1>2, <1>5 DEF FileInv, OwnEntriesPlanned
<1>9. OwnEntriesKept'
    BY <1>1, <1>2, <1>4 DEF FileInv, OwnEntriesPlanned, OwnEntriesKept
<1>10. OriginalUntilBackup'
    BY <1>2, <1>4, <1>6 DEF FileInv, OriginalUntilBackup
<1>11. BackupIsOriginal'
    BY <1>2, <1>6 DEF FileInv, BackupIsOriginal
<1>12. RunSettles'
    <2>1. SUFFICES ASSUME args # NoArgs
                   PROVE  /\ DOMAIN todo' \subseteq Planned(args)
                          /\ \A x \in Planned(args) \ DOMAIN todo' :
                                SettledIn(x, file'[x].items, args)
                          /\ \A x \in DOMAIN todo' : SettledIn(x, todo'[x], args)
        BY <1>2 DEF RunSettles, Planned
    <2>2. /\ DOMAIN todo \subseteq Planned(args)
          /\ \A x \in Planned(args) \ DOMAIN todo : SettledIn(x, file[x].items, args)
          /\ \A x \in DOMAIN todo : SettledIn(x, todo[x], args)
        BY <2>1 DEF FileInv, RunSettles
    <2>3. Planned(args) \subseteq ConfigFiles
        BY FileNames DEF Planned, SetupTypeOK, Arguments
    <2>4. QED  BY <1>1, <1>4, <1>5, <2>2, <2>3
<1>13. CapturersUnique'
    BY <1>1, <1>4, <1>5 DEF FileInv, CapturersUnique
<1>14. QED  BY <1>7, <1>8, <1>9, <1>10, <1>11, <1>12, <1>13 DEF FileInv

LEMMA FilesStop == ASSUME SetupTypeOK, FileInv, Stop PROVE FileInv'
<1>1. UNCHANGED <<file, creator, kept>> /\ args' = NoArgs
    BY DEF Stop
<1>2. DOMAIN todo' = {}
    BY EmptyFile DEF Stop
<1>3. /\ FileWith(<<>>).items = <<>> /\ FileWith(<<>>).exists
      /\ OursIn(<<>>) = {}
    BY EmptyFile DEF FileWith, OursIn
<1>4. \A f \in ConfigFiles :
          \/ backup'[f] = backup[f]
          \/ file[f].exists /\ backup'[f] = FileWith(<<>>)
    BY DEF Stop, NeedsBackup, SetupTypeOK
<1>5. OwnEntriesPlanned' /\ OwnEntriesKept' /\ RunSettles' /\ CapturersUnique'
    BY <1>1, <1>2 DEF FileInv, OwnEntriesPlanned, OwnEntriesKept, RunSettles, CapturersUnique
<1>6. FilesFormed'
    BY <1>1, <1>2, <1>3, <1>4 DEF FileInv, FilesFormed
<1>7. BackupIsOriginal'
    BY <1>1, <1>3, <1>4 DEF FileInv, BackupIsOriginal
<1>8. OriginalUntilBackup'
    BY <1>1, <1>3, <1>4 DEF FileInv, OriginalUntilBackup
<1>9. QED  BY <1>5, <1>6, <1>7, <1>8 DEF FileInv

(* An entry of the user takes nothing from what memoryd has in a file.     *)
LEMMA OwnAppended ==
    ASSUME NEW items \in Seq(Item), NEW p \in OwnParts
    PROVE  LET out == Append(items, Own(p))
           IN  /\ out \in Seq(Item) /\ out # <<>>
               /\ ToSet(out) = ToSet(items) \cup {Own(p)}
               /\ OursIn(out) = OursIn(items)
               /\ \A f : OneCapturer(f, items) => OneCapturer(f, out)
               /\ \A f, ar : SettledIn(f, items, ar) => SettledIn(f, out, ar)
<1> DEFINE x == Own(p)
           out == Append(items, x)
<1>1. x \in Item /\ x.part = p /\ p \notin Ours /\ p \notin Capturing
    BY OwnType
<1>2. p # "mcp" /\ p # "old dream"
    BY <1>1 DEF Ours
<1> HIDE DEF x
<1>3. out \in Seq(Item) /\ out # <<>> /\ ToSet(out) = ToSet(items) \cup {x}
    BY <1>1, Appending, AppendingSet
<1>4. /\ DOMAIN items = 1..Len(items) /\ Len(items) \in Nat
      /\ DOMAIN out = 1..(Len(items) + 1)
      /\ \A i \in 1..Len(items) : out[i] = items[i]
      /\ out[Len(items) + 1] = x
    BY <1>1, Appending
<1>5. OursIn(out) = OursIn(items)
    BY <1>1, <1>3 DEF OursIn
<1>6. \A f : OneCapturer(f, items) => OneCapturer(f, out)
    BY <1>1, CapturerAdded
<1> HIDE DEF out
<1>7. \A i \in DOMAIN out : i \in DOMAIN items \/ i = Len(items) + 1
    BY <1>4
<1>8. ASSUME NEW f, NEW ar, SettledIn(f, items, ar) PROVE SettledIn(f, out, ar)
    <2>1. ASSUME f \in Servers
          PROVE  /\ \E i \in DOMAIN out : out[i].part = "mcp"
                 /\ \A i \in DOMAIN out : out[i].part = "mcp" => out[i] = Entry("mcp", ar)
        <3>1. PICK i \in DOMAIN items : items[i].part = "mcp"
            BY <1>8, <2>1 DEF SettledIn
        <3>2. i \in DOMAIN out /\ out[i].part = "mcp"
            BY <1>4, <3>1
        <3>3. ASSUME NEW j \in DOMAIN out, out[j].part = "mcp" PROVE out[j] = Entry("mcp", ar)
            <4>1. j \in DOMAIN items
                BY <1>1, <1>2, <1>4, <1>7, <3>3
            <4>2. out[j] = items[j]
                BY <1>4, <4>1
            <4>3. QED  BY <1>8, <2>1, <3>3, <4>1, <4>2 DEF SettledIn
        <3>4. QED  BY <3>2, <3>3
    <2>2. f = "claude settings" => HooksSettled(out, ar)
        BY <1>3, <1>8, SetKeeps DEF SettledIn, HooksSettled
    <2>3. out # OldPlugin(ar.bin, ar.db)
        <3>1. SUFFICES ASSUME out = OldPlugin(ar.bin, ar.db) PROVE FALSE
            OBVIOUS
        <3>2. x \in ToSet(OldPlugin(ar.bin, ar.db))
            BY <1>3, <3>1
        <3>3. x.part = "old dream"
            <4> DEFINE old == [part |-> "old dream", bin |-> ar.bin, db |-> ar.db]
            <4>1. old.part = "old dream" /\ OldPlugin(ar.bin, ar.db) = <<old>>
                BY DEF OldPlugin
            <4> HIDE DEF old
            <4>2. QED  BY <3>2, <4>1, SingleEntry
        <3>4. QED  BY <1>1, <1>2, <3>3
    <2>4. f = "codex config" => BlocksSettled(out, ar)
        BY <1>3, <1>8, SetKeeps DEF SettledIn, BlocksSettled
    <2>5. f = "hermes config" =>
              /\ ar.mode # "hooks" => HasKey(out, {"mcp", "own mcp"})
              /\ HasKey(out, {"dream", "tool", "own hook"})
        <3>1. \A ps : HasKey(items, ps) => HasKey(out, ps)
            BY <1>3 DEF HasKey
        <3>2. f = "hermes config" =>
                  /\ ar.mode # "hooks" => HasKey(items, {"mcp", "own mcp"})
                  /\ HasKey(items, {"dream", "tool", "own hook"})
            BY <1>8 DEF SettledIn
        <3>3. QED  BY Zenon, <3>1, <3>2
    <2>6. QED  BY <1>3, <2>1, <2>2, <2>3, <2>4, <2>5 DEF SettledIn
<1>9. QED  BY <1>3, <1>5, <1>6, <1>8 DEF out, x

LEMMA FilesEdit ==
    ASSUME SetupTypeOK, FileInv, NEW f \in FilesOn(machine), Edit(f)
    PROVE  FileInv'
<1>1. f \in ConfigFiles /\ UNCHANGED <<backup, todo, args>>
    BY EditShape
<1>2. file[f].items \in Seq(Item) /\ file \in [ConfigFiles -> ConfigFile]
    BY <1>1 DEF SetupTypeOK, ConfigFile
<1>3. CASE /\ file[f].exists
           /\ \E parses \in BOOLEAN :
                   file' = [file EXCEPT ![f] = [exists |-> TRUE, parses |-> parses,
                                                items |-> file[f].items]]
           /\ UNCHANGED <<creator, home, kept>>
    <2>1. \A x \in ConfigFiles : file'[x].items = file[x].items /\ (file'[x].exists <=> file[x].exists)
        BY <1>1, <1>2, <1>3
    <2>2. FilesFormed' /\ OwnEntriesPlanned'
        BY <1>1, <1>3, <2>1 DEF FileInv, FilesFormed, OwnEntriesPlanned
    <2>3. OwnEntriesKept' /\ CapturersUnique'
        BY <1>1, <1>3, <2>1 DEF FileInv, OwnEntriesKept, CapturersUnique
    <2>4. OriginalUntilBackup' /\ BackupIsOriginal'
        BY <1>1, <1>3, <2>1 DEF FileInv, OriginalUntilBackup, BackupIsOriginal
    <2>5. RunSettles'
        <3>1. Planned(args) \subseteq ConfigFiles /\ Planned(args)' = Planned(args)
            BY <1>1, FileNames DEF Planned, SetupTypeOK, Arguments
        <3>2. QED  BY <1>1, <2>1, <3>1 DEF FileInv, RunSettles
    <2>6. QED  BY <2>2, <2>3, <2>4, <2>5 DEF FileInv
<1>4. CASE \E p \in OwnParts, parses \in BOOLEAN :
               /\ file' = [file EXCEPT ![f] = [exists |-> TRUE, parses |-> parses,
                                              items |-> Append(file[f].items, Own(p))]]
               /\ kept' = IF f \in DOMAIN todo THEN kept
                          ELSE [kept EXCEPT ![f] = @ \cup {Own(p)}]
               /\ creator' = IF file[f].exists THEN creator
                             ELSE [creator EXCEPT ![f] = "user"]
               /\ home' = home \cup {Owner(f)}
    <2>1. PICK p \in OwnParts, parses \in BOOLEAN :
               /\ file' = [file EXCEPT ![f] = [exists |-> TRUE, parses |-> parses,
                                              items |-> Append(file[f].items, Own(p))]]
               /\ kept' = IF f \in DOMAIN todo THEN kept
                          ELSE [kept EXCEPT ![f] = @ \cup {Own(p)}]
               /\ creator' = IF file[f].exists THEN creator
                             ELSE [creator EXCEPT ![f] = "user"]
        BY <1>4
    <2> DEFINE out == Append(file[f].items, Own(p))
               x == Own(p)
    <2>2. /\ out # <<>> /\ ToSet(out) = ToSet(file[f].items) \cup {x}
          /\ OursIn(out) = OursIn(file[f].items)
          /\ \A g : OneCapturer(g, file[f].items) => OneCapturer(g, out)
          /\ \A g, ar : SettledIn(g, file[f].items, ar) => SettledIn(g, out, ar)
        BY <1>2, OwnAppended
    <2>3. /\ file'[f].items = out /\ file'[f].exists
          /\ \A g \in ConfigFiles \ {f} : file'[g] = file[g]
        BY <1>1, <1>2, <2>1
    <2>4. x.part \in OwnParts
        BY OwnType
    <2> HIDE DEF out, x
    <2>5. \A g \in ConfigFiles :
              \/ kept'[g] = kept[g]
              \/ g = f /\ g \notin DOMAIN todo /\ kept'[g] = kept[g] \cup {x}
        BY <1>1, <2>1 DEF SetupTypeOK, x
    <2>6. \A g \in ConfigFiles :
              \/ creator'[g] = creator[g]
              \/ g = f /\ ~file[g].exists
        BY <1>1, <2>1 DEF SetupTypeOK
    <2>7. FilesFormed'
        BY <1>1, <2>2, <2>3 DEF FileInv, FilesFormed
    <2>8. OwnEntriesKept'
        BY <1>1, <2>2, <2>3, <2>5 DEF FileInv, OwnEntriesKept
    <2>9. OwnEntriesPlanned'
        <3>1. \A g \in ConfigFiles : \A y \in kept'[g] : y.part \in OwnParts
            BY <2>4, <2>5 DEF FileInv, OwnEntriesPlanned
        <3>2. \A g \in DOMAIN todo : g \in ConfigFiles
            BY AgentsAssumption, FileNames DEF SetupTypeOK
        <3>3. \A g \in DOMAIN todo : kept'[g] \subseteq ToSet(todo[g])
            BY <2>5, <3>2 DEF FileInv, OwnEntriesPlanned
        <3>4. QED  BY <1>1, <3>1, <3>3 DEF OwnEntriesPlanned
    <2>10. ~file[f].exists => /\ OursIn(file[f].items) = {}
                              /\ ~backup[f].exists /\ OursIn(backup[f].items) = {}
        BY <1>1, EmptyFile DEF FileInv, FilesFormed, OursIn
    <2>11. OriginalUntilBackup'
        <3>1. SUFFICES ASSUME NEW g \in ConfigFiles, creator'[g] = "user", ~backup[g].exists
                       PROVE  OursIn(file'[g].items) = {}
            BY <1>1 DEF OriginalUntilBackup
        <3>2. OursIn(file[g].items) = {}
            BY <2>6, <2>10, <3>1 DEF FileInv, OriginalUntilBackup
        <3>3. QED  BY <2>2, <2>3, <3>2
    <2>12. BackupIsOriginal'
        BY <1>1, <2>6, <2>10 DEF FileInv, BackupIsOriginal
    <2>13. RunSettles'
        <3>1. Planned(args) \subseteq ConfigFiles /\ Planned(args)' = Planned(args)
            BY <1>1, FileNames DEF Planned, SetupTypeOK, Arguments
        <3>2. \A g \in ConfigFiles :
                  SettledIn(g, file[g].items, args) => SettledIn(g, file'[g].items, args)
            BY <2>2, <2>3
        <3>3. QED  BY <1>1, <3>1, <3>2 DEF FileInv, RunSettles
    <2>14. CapturersUnique'
        BY <1>1, <2>2, <2>3 DEF FileInv, CapturersUnique
    <2>15. QED  BY <2>7, <2>8, <2>9, <2>11, <2>12, <2>13, <2>14 DEF FileInv
<1>5. QED  BY <1>3, <1>4, EditShape

-----------------------------------------------------------------------------
(* The hooks: each action keeps HookInv.                                   *)
LEMMA HooksInit == SetupInit => HookInv
<1> SUFFICES ASSUME SetupInit PROVE HookInv
    OBVIOUS
<1>1. /\ hooks = {}
      /\ captured = [e \in 1..MaxEvents |-> [d \in Databases |-> 0]]
      /\ context = [e \in 1..MaxEvents |-> {}]
    BY DEF SetupInit
<1>2. Happened = {}
    BY <1>1 DEF Happened
<1>3. EventsNumbered
    <2>1. 0 \in 0..MaxEvents /\ 1..0 = {}
        BY SetupBoundsAssumption
    <2>2. QED  BY <1>2, <2>1 DEF EventsNumbered
<1>4. \A e \in 1..MaxEvents, d \in Databases : captured[e][d] = 0
    BY <1>1
<1>5. \A e \in 1..MaxEvents : context[e] = {}
    BY <1>1
<1>6. HooksApart
    BY <1>1, <1>4, <1>5 DEF HooksApart
<1>7. CapturedOnce /\ NoEcho
    BY <1>4, <1>5 DEF CapturedOnce, NoEcho
<1>8. QED  BY <1>3, <1>6, <1>7 DEF HookInv

LEMMA HooksFrame == ASSUME HookInv, UNCHANGED <<hooks, captured, context>> PROVE HookInv'
<1>1. Happened' = Happened
    BY DEF Happened
<1>2. \A e, d : CalledByOneName(e, d)' <=> CalledByOneName(e, d)
    BY DEF CalledByOneName, HooksOn
<1>3. EventsNumbered' /\ HooksApart'
    BY <1>1, <1>2 DEF HookInv, EventsNumbered, HooksApart
<1>4. CapturedOnce' /\ NoEcho'
    BY <1>2 DEF HookInv, CapturedOnce, NoEcho
<1>5. QED  BY <1>3, <1>4 DEF HookInv

(* The files of one agent hold one hook of a part for the name of a        *)
(* database: only one of them can hold hooks that capture.                 *)
LEMMA OneHookEach ==
    ASSUME SetupTypeOK, CapturersUnique, NEW a \in Agents, NEW part \in Capturing,
           NEW g \in Fresh(a, part), NEW h \in Fresh(a, part), g.db = h.db
    PROVE  g = h
<1> DEFINE dbOf(k) == file[k[1]].items[k[2]].db
           process(k) == [event |-> NextEvent, at |-> k, left |-> Steps(part), db |-> dbOf(k)]
<1>1. PICK k \in HooksFor(a, part) : g = process(k)
    BY DEF Fresh
<1>2. PICK m \in HooksFor(a, part) : h = process(m)
    BY DEF Fresh
<1>3. PICK f1 \in FilesOf(a), i1 \in Nat \ {0} :
          /\ k = <<f1, i1>> /\ f1 \in ConfigFiles /\ i1 \in DOMAIN file[f1].items
          /\ file[f1].items[i1].part = part
    BY HooksOf
<1>4. PICK f2 \in FilesOf(a), i2 \in Nat \ {0} :
          /\ m = <<f2, i2>> /\ f2 \in ConfigFiles /\ i2 \in DOMAIN file[f2].items
          /\ file[f2].items[i2].part = part
    BY HooksOf
<1>5. f1 \notin Servers /\ f2 \notin Servers
    BY <1>3, <1>4 DEF CapturersUnique, OneCapturer
<1>6. f1 = f2
    <2>1. /\ FilesOf("claude") = {"claude mcp", "claude settings"}
          /\ FilesOf("opencode") = {"opencode mcp", "opencode plugin"}
          /\ FilesOf("codex") = {"codex config"}
          /\ FilesOf("hermes") = {"hermes config"}
        BY Zenon DEF FilesOf
    <2>2. CASE a = "claude"
        BY <1>5, <2>1, <2>2 DEF Servers
    <2>3. CASE a = "opencode"
        BY <1>5, <2>1, <2>3 DEF Servers
    <2>4. CASE a = "codex"
        BY <2>1, <2>4
    <2>5. CASE a = "hermes"
        BY <2>1, <2>5
    <2>6. QED  BY <2>2, <2>3, <2>4, <2>5 DEF Agents
<1>7. dbOf(k) = file[f1].items[i1].db /\ dbOf(m) = file[f2].items[i2].db
    BY <1>3, <1>4
<1>8. g.db = dbOf(k) /\ h.db = dbOf(m)
    BY <1>1, <1>2
<1>9. file[f1].items[i1].db = file[f1].items[i2].db
    BY <1>6, <1>7, <1>8
<1>10. i1 = i2
    BY <1>3, <1>4, <1>6, <1>9 DEF CapturersUnique, OneCapturer
<1>11. k = m
    BY <1>3, <1>4, <1>6, <1>10
<1>12. QED  BY <1>1, <1>2, <1>11

LEMMA HooksEvent ==
    ASSUME SetupTypeOK, CapturersUnique, HookInv, NEW a \in Agents, NEW part \in Capturing,
           Event(a, part)
    PROVE  HookInv'
<1>1. /\ hooks' = hooks \cup Fresh(a, part)
      /\ captured' = captured /\ context' = context
      /\ HooksFor(a, part) # {} /\ NextEvent <= MaxEvents
    BY DEF Event, Fresh
<1>2. /\ Fresh(a, part) \subseteq HookProcess
      /\ \A h \in Fresh(a, part) : h.event = NextEvent
      /\ NextEvent \in 1..MaxEvents /\ NextEvent \notin Happened
      /\ \E n \in 0..MaxEvents : Happened = 1..n /\ NextEvent = n + 1
    BY <1>1, FreshType DEF HookInv
<1>3. PICK h0 \in Fresh(a, part) : TRUE
    BY <1>1 DEF Fresh
<1>4. Happened' = Happened \cup {NextEvent}
    BY <1>1, <1>2, <1>3 DEF Happened
<1>5. EventsNumbered'
    <2>1. PICK n \in 0..MaxEvents : Happened = 1..n /\ NextEvent = n + 1
        BY <1>2
    <2>2. (1..n) \cup {n + 1} = 1..(n + 1) /\ n + 1 \in 0..MaxEvents
        BY <1>1, <2>1, SetupBoundsAssumption
    <2>3. QED  BY <1>4, <2>1, <2>2 DEF EventsNumbered
<1>6. \A h \in hooks : h.event \in Happened
    BY DEF SetupTypeOK, HookProcess, Happened
<1>0. \A e, d : e # NextEvent /\ CalledByOneName(e, d)' => CalledByOneName(e, d)
    BY <1>1 DEF CalledByOneName, HooksOn
<1>7. HooksApart'
    <2>1. ASSUME NEW g \in hooks', NEW h \in hooks', g.event = h.event, g.db = h.db
          PROVE  g = h
        <3>1. CASE g \in hooks /\ h \in hooks
            BY <2>1, <3>1 DEF HookInv, HooksApart
        <3>2. CASE g \in Fresh(a, part) /\ h \in Fresh(a, part)
            BY <2>1, <3>2, OneHookEach
        <3>3. QED  BY <1>1, <1>2, <1>6, <2>1, <3>1, <3>2
    <2>2. ASSUME NEW h \in hooks', h.left # <<>>, CalledByOneName(h.event, Opens[h.db])'
          PROVE  captured[h.event][Opens[h.db]] = 0
        <3>1. CASE h \in hooks
            <4>1. h.event # NextEvent
                BY <1>2, <1>6, <3>1
            <4>2. CalledByOneName(h.event, Opens[h.db])
                BY <1>0, <2>2, <4>1
            <4>3. QED  BY <2>2, <3>1, <4>2 DEF HookInv, HooksApart
        <3>2. CASE h \in Fresh(a, part)
            <4>1. h.event = NextEvent /\ Opens[h.db] \in Databases
                BY <1>2, <3>2, OpensAssumption DEF HookProcess
            <4>2. QED  BY <1>2, <4>1 DEF HookInv, HooksApart
        <3>3. QED  BY <1>1, <3>1, <3>2
    <2>3. \A h \in hooks' : h.left # <<>> /\ CalledByOneName(h.event, Opens[h.db])'
                => captured'[h.event][Opens[h.db]] = 0
        BY <1>1, <2>2
    <2>4. QED  BY <1>1, <1>4, <2>1, <2>3 DEF HookInv, HooksApart
<1>8. ASSUME NEW e \in 1..MaxEvents
      PROVE  /\ \A d \in Databases : CalledByOneName(e, d)' => captured[e][d] <= 1
             /\ (\A d \in Databases : CalledByOneName(e, d)') => e \notin context[e]
    <2>1. CASE e = NextEvent
        BY <1>2, <2>1 DEF HookInv, HooksApart
    <2>2. CASE e # NextEvent
        BY <1>0, <2>2 DEF HookInv, CapturedOnce, NoEcho
    <2>3. QED  BY <2>1, <2>2
<1>9. CapturedOnce' /\ NoEcho'
    BY <1>1, <1>8 DEF CapturedOnce, NoEcho
<1>10. QED  BY <1>5, <1>7, <1>9 DEF HookInv

LEMMA HooksStep ==
    ASSUME SetupTypeOK, HookInv, NEW h \in hooks, HookStep(h)
    PROVE  HookInv'
<1>1. h \in HookProcess /\ h.left # <<>>
    BY HookStepShape
<1> DEFINE db == Opens[h.db]
<1>2. h.event \in 1..MaxEvents /\ db \in Databases /\ h.event \in Happened
    BY <1>1, OpensAssumption DEF HookProcess, Happened
<1>3. PICK g \in HookProcess :
          /\ hooks' = (hooks \ {h}) \cup {g}
          /\ g.event = h.event /\ g.db = h.db
          /\ \/ /\ context' = [context EXCEPT ![h.event] = @ \cup Recalled(db)]
                /\ captured' = captured
             \/ /\ g.left = <<>>
                /\ captured' = [captured EXCEPT ![h.event][db] = @ + 1]
                /\ context' = context
             \/ g.left = <<>> /\ captured' = captured /\ context' = context
    BY HookStepShape
<1>4. CalledByOneName(h.event, db) => captured[h.event][db] = 0
    BY <1>1 DEF HookInv, HooksApart
<1>5. Happened' = Happened
    BY <1>3 DEF Happened
<1>6. EventsNumbered'
    BY <1>5 DEF HookInv, EventsNumbered
<1>7. /\ \A e \in 1..MaxEvents, d \in Databases :
             \/ captured'[e][d] = captured[e][d]
             \/ /\ e = h.event /\ d = db /\ captured'[e][d] = captured[e][d] + 1
                /\ g.left = <<>>
      /\ \A e \in 1..MaxEvents :
             \/ context'[e] = context[e]
             \/ e = h.event /\ context'[e] = context[e] \cup Recalled(db)
    <2>1. \A e \in 1..MaxEvents : captured[e] \in [Databases -> Nat]
        BY DEF SetupTypeOK
    <2>2. CASE /\ context' = [context EXCEPT ![h.event] = @ \cup Recalled(db)]
               /\ captured' = captured
        BY <1>2, <2>2 DEF SetupTypeOK
    <2>3. CASE /\ g.left = <<>>
               /\ captured' = [captured EXCEPT ![h.event][db] = @ + 1]
               /\ context' = context
        <3>1. captured' = [captured EXCEPT ![h.event] =
                              [captured[h.event] EXCEPT ![db] = captured[h.event][db] + 1]]
            BY <2>3
        <3>2. QED  BY <1>2, <2>1, <2>3, <3>1 DEF SetupTypeOK
    <2>4. CASE g.left = <<>> /\ captured' = captured /\ context' = context
        BY <2>4
    <2>5. QED  BY <1>3, <2>2, <2>3, <2>4
<1>8. \A e, d : CalledByOneName(e, d)' <=> CalledByOneName(e, d)
    <2>1. /\ \A e, d : \A x \in HooksOn(e, d) : (x = h \/ x \in HooksOn(e, d)')
          /\ \A e, d : (h \in HooksOn(e, d) => g \in HooksOn(e, d)')
          /\ \A e, d : \A x \in HooksOn(e, d)' : (x = g \/ x \in HooksOn(e, d))
          /\ \A e, d : (g \in HooksOn(e, d)' => h \in HooksOn(e, d))
        BY <1>3 DEF HooksOn
    <2>2. QED  BY <1>3, <2>1 DEF CalledByOneName
<1>9. HooksApart'
    <2>1. ASSUME NEW x \in hooks', NEW y \in hooks', x.event = y.event, x.db = y.db
          PROVE  x = y
        BY <1>3, <2>1 DEF HookInv, HooksApart
    <2>2. ASSUME NEW x \in hooks', x.left # <<>>, CalledByOneName(x.event, Opens[x.db])
          PROVE  captured'[x.event][Opens[x.db]] = 0
        <3>1. CASE x = g
            <4>1. x.event = h.event /\ Opens[x.db] = db
                BY <1>3, <3>1
            <4>2. captured[h.event][db] = 0
                BY <1>4, <2>2, <4>1
            <4>3. QED  BY <1>2, <1>7, <2>2, <3>1, <4>1, <4>2
        <3>2. CASE x \in hooks /\ x # h
            <4>1. captured[x.event][Opens[x.db]] = 0
                BY <2>2, <3>2 DEF HookInv, HooksApart
            <4>2. x.event \in 1..MaxEvents /\ Opens[x.db] \in Databases
                BY <3>2, OpensAssumption DEF SetupTypeOK, HookProcess
            <4>3. ~(x.event = h.event /\ Opens[x.db] = db)
                <5>1. SUFFICES ASSUME x.event = h.event, Opens[x.db] = db PROVE FALSE
                    OBVIOUS
                <5>2. x \in HooksOn(h.event, db) /\ h \in HooksOn(h.event, db)
                    BY <3>2, <5>1 DEF HooksOn
                <5>3. x.db = h.db
                    BY <2>2, <5>1, <5>2 DEF CalledByOneName
                <5>4. QED  BY <3>2, <5>1, <5>3 DEF HookInv, HooksApart
            <4>4. QED  BY <1>7, <4>1, <4>2, <4>3
        <3>3. QED  BY <1>3, <3>1, <3>2
    <2>3. ASSUME NEW e \in (1..MaxEvents) \ Happened
          PROVE  context'[e] = {} /\ \A d \in Databases : captured'[e][d] = 0
        BY <1>2, <1>7 DEF HookInv, HooksApart
    <2>4. QED  BY <1>5, <1>8, <2>1, <2>2, <2>3 DEF HooksApart
<1>10. CapturedOnce'
    <2>1. ASSUME NEW e \in 1..MaxEvents, NEW d \in Databases, CalledByOneName(e, d)
          PROVE  captured'[e][d] <= 1
        BY <1>4, <1>7, <2>1 DEF HookInv, CapturedOnce
    <2>2. QED  BY <1>8, <2>1 DEF CapturedOnce
<1>11. NoEcho'
    <2>1. ASSUME NEW e \in 1..MaxEvents, \A d \in Databases : CalledByOneName(e, d)
          PROVE  e \notin context'[e]
        <3>1. e = h.event => e \notin Recalled(db)
            BY <1>2, <1>4, <2>1 DEF Recalled
        <3>2. QED  BY <1>7, <2>1, <3>1 DEF HookInv, NoEcho
    <2>2. QED  BY <1>8, <2>1 DEF NoEcho
<1>12. QED  BY <1>6, <1>9, <1>10, <1>11 DEF HookInv

-----------------------------------------------------------------------------
LEMMA SetupStep == SetupInv /\ [SetupNext]_setupVars => SetupInv'
<1> SUFFICES ASSUME SetupInv, [SetupNext]_setupVars PROVE SetupInv'
    OBVIOUS
<1> USE DEF SetupInv
<1>1. machine \subseteq Agents /\ FilesFormed /\ EventsNumbered /\ CapturersUnique
    BY AgentsAssumption DEF SetupTypeOK, FileInv, HookInv
<1>2. CASE Plan
    <2>1. UNCHANGED <<hooks, captured, context>>
        BY <1>2 DEF Plan, events
    <2>2. QED  BY <1>1, <1>2, <2>1, PlanType, FilesPlan, HooksFrame
<1>3. CASE TakeBackup
    <2>1. UNCHANGED <<hooks, captured, context>>
        BY <1>3 DEF TakeBackup, events
    <2>2. QED  BY <1>3, <2>1, TakeBackupType, FilesTakeBackup, HooksFrame
<1>4. CASE Install
    <2>1. UNCHANGED <<hooks, captured, context>>
        BY <1>4 DEF Install, events
    <2>2. QED  BY <1>4, <2>1, InstallType, FilesInstall, HooksFrame
<1>5. CASE Stop
    <2>1. UNCHANGED <<hooks, captured, context>>
        BY <1>5 DEF Stop, events
    <2>2. QED  BY <1>5, <2>1, StopType, FilesStop, HooksFrame
<1>6. ASSUME NEW f \in FilesOn(machine), Edit(f) PROVE SetupInv'
    <2>1. UNCHANGED <<hooks, captured, context>>
        BY <1>6 DEF Edit, events
    <2>2. QED  BY <1>6, <2>1, EditType, FilesEdit, HooksFrame
<1>7. ASSUME NEW a \in machine, NEW part \in Capturing, Event(a, part) PROVE SetupInv'
    <2>1. UNCHANGED <<file, backup, creator, todo, args, kept>>
        BY <1>7 DEF Event, disk, run
    <2>2. QED  BY <1>1, <1>7, <2>1, EventType, FilesFrame, HooksEvent
<1>8. ASSUME NEW h \in hooks, HookStep(h) PROVE SetupInv'
    <2>1. UNCHANGED <<file, backup, creator, todo, args, kept>>
        BY <1>8 DEF HookStep, disk, run
    <2>2. QED  BY <1>8, <2>1, HookStepType, FilesFrame, HooksStep
<1>9. CASE UNCHANGED setupVars
    <2>1. /\ UNCHANGED <<machine, file, backup, creator, home, todo, copied, args, started>>
          /\ UNCHANGED <<kept, edits, hooks, captured, context>>
        BY <1>9 DEF setupVars, disk, run, events
    <2>2. SetupTypeOK'
        BY <2>1 DEF SetupTypeOK
    <2>3. QED  BY <2>1, <2>2, FilesFrame, HooksFrame
<1>10. QED  BY <1>2, <1>3, <1>4, <1>5, <1>6, <1>7, <1>8, <1>9 DEF SetupNext, Integrate

(* Files, plans and hooks keep each other between any two writes, edits    *)
(* and events: what a plan will install holds what memoryd and the user    *)
(* have in the file, and what the hooks do depends on the files alone      *)
(* (integrate.rs: plan, apply_and_report; hook.rs: run_fallible).          *)
THEOREM SetupInvariant == SetupSpec => []SetupInv
<1>1. SetupInit => SetupInv
    BY SetupInitType, FilesInit, HooksInit DEF SetupInv
<1>2. QED  BY <1>1, SetupStep, PTL DEF SetupSpec

(* Whatever machine, mode, binary and database, and wherever runs stop, what *)
(* the user has in a file stays there, except what they write between the  *)
(* reading of that file and its writing (merge_json_mcp, merge_claude_hooks, *)
(* append_file_parts, plan_hermes).                                        *)
THEOREM OwnEntriesAreKept == SetupSpec => []OwnEntriesKept
<1>1. SetupInv => OwnEntriesKept
    BY DEF SetupInv, FileInv
<1>2. QED  BY <1>1, SetupInvariant, PTL

(* However often runs are stopped and repeated, a backup never holds what a *)
(* run of memoryd has written (write_with_backup).                         *)
THEOREM BackupsAreOriginals == SetupSpec => []BackupIsOriginal
<1>1. SetupInv => BackupIsOriginal
    BY DEF SetupInv, FileInv
<1>2. QED  BY <1>1, SetupInvariant, PTL

(* Whatever runs and edits came before, a run that completed leaves nothing *)
(* to add for one with the same arguments, except the Stop hook of Codex   *)
(* with --db (marker_present, merge_claude_hooks, opencode_plugin).        *)
THEOREM RunsAreIdempotent == SetupSpec => []RunsIdempotent
<1>1. SetupInv => RunsIdempotent
    <2>1. SUFFICES ASSUME SetupInv, RunOver, args # NoArgs, Readable(args), NEW f \in Writes(args)
                   PROVE  /\ f = "codex config" /\ args.db # NoDb
                          /\ Contents(f, args) = Append(file[f].items, Entry("dream", args))
        BY DEF RunsIdempotent
    <2>2. f \in Planned(args) /\ Contents(f, args) # file[f].items /\ file[f].parses
        BY <2>1 DEF Writes, Readable
    <2>3. f \in ConfigFiles /\ args \in Arguments
        BY <2>1, <2>2, FileNames DEF Planned, SetupInv, SetupTypeOK, Arguments
    <2>4. SettledIn(f, file[f].items, args)
        BY <2>1, <2>2 DEF SetupInv, FileInv, RunSettles, RunOver
    <2>5. QED  BY <2>1, <2>2, <2>3, <2>4, SettledStays DEF SetupInv, FileInv
<1>2. QED  BY <1>1, SetupInvariant, PTL

(* However many runs with whatever binaries and modes installed the hooks, *)
(* an event of an agent is captured once in a database (memoryd_command_tail). *)
THEOREM EventsCapturedOnce == SetupSpec => []CapturedOnce
<1>1. SetupInv => CapturedOnce
    BY DEF SetupInv, HookInv
<1>2. QED  BY <1>1, SetupInvariant, PTL

(* In whatever order the hooks of a prompt run, none recalls for it the    *)
(* prompt itself (hook.rs, emit_prompt_context before capture).            *)
THEOREM PromptsNotEchoed == SetupSpec => []NoEcho
<1>1. SetupInv => NoEcho
    BY DEF SetupInv, HookInv
<1>2. QED  BY <1>1, SetupInvariant, PTL

-----------------------------------------------------------------------------
(***************************************************************************)
(* The viewer: tables, pages, links and a stack of details of any size.    *)
(***************************************************************************)

LEMMA SeqFacts ==
    ASSUME NEW S, NEW s \in Seq(S)
    PROVE  /\ Len(s) \in Nat /\ DOMAIN s = 1..Len(s)
           /\ \A i \in 1..Len(s) : s[i] \in S
           /\ s = <<>> <=> Len(s) = 0
OBVIOUS

LEMMA SeqWider ==
    ASSUME NEW S, NEW T, S \subseteq T, NEW s \in Seq(S)
    PROVE  s \in Seq(T)
OBVIOUS

LEMMA SubSeqFacts ==
    ASSUME NEW S, NEW s \in Seq(S), NEW m \in Nat, NEW n \in Nat, n <= Len(s)
    PROVE  /\ SubSeq(s, m + 1, n) \in Seq(S)
           /\ Len(SubSeq(s, m + 1, n)) = IF m <= n THEN n - m ELSE 0
           /\ \A i \in 1..(n - m) : SubSeq(s, m + 1, n)[i] = s[m + i]
<1>1. \A i \in (m + 1)..n : i \in 1..Len(s)
    OBVIOUS
<1>2. SubSeq(s, m + 1, n) \in Seq(S)
    BY <1>1
<1>3. Len(SubSeq(s, m + 1, n)) = IF m <= n THEN n - m ELSE 0
    OBVIOUS
<1>4. \A i \in 1..(n - m) : SubSeq(s, m + 1, n)[i] = s[m + i]
    OBVIOUS
<1>5. QED  BY <1>2, <1>3, <1>4

LEMMA ConcatFacts ==
    ASSUME NEW S, NEW s \in Seq(S), NEW t \in Seq(S)
    PROVE  /\ s \o t \in Seq(S)
           /\ Len(s \o t) = Len(s) + Len(t)
           /\ \A i \in 1..Len(s) : (s \o t)[i] = s[i]
           /\ \A i \in 1..Len(t) : (s \o t)[Len(s) + i] = t[i]
OBVIOUS

LEMMA SeqEqual ==
    ASSUME NEW S, NEW s \in Seq(S), NEW t \in Seq(S), Len(s) = Len(t),
           \A i \in 1..Len(s) : s[i] = t[i]
    PROVE  s = t
OBVIOUS

(* A prefix, element by element.                                           *)
LEMMA PrefixFacts ==
    ASSUME NEW S, NEW s \in Seq(S), NEW t \in Seq(S)
    PROVE  IsPrefix(s, t) <=> /\ Len(s) <= Len(t)
                              /\ \A i \in 1..Len(s) : s[i] = t[i]
<1>1. Len(s) \in Nat /\ Len(t) \in Nat
    BY SeqFacts
<1>2. SUFFICES ASSUME Len(s) <= Len(t)
               PROVE  SubSeq(s, 1, Len(s)) = SubSeq(t, 1, Len(s))
                        <=> \A i \in 1..Len(s) : s[i] = t[i]
    BY DEF IsPrefix
<1> DEFINE a == SubSeq(s, 1, Len(s))
           b == SubSeq(t, 1, Len(s))
<1>3. /\ a \in Seq(S) /\ Len(a) = Len(s) /\ \A i \in 1..Len(s) : a[i] = s[i]
      /\ b \in Seq(S) /\ Len(b) = Len(s) /\ \A i \in 1..Len(s) : b[i] = t[i]
    <2>1. /\ SubSeq(s, 0 + 1, Len(s)) \in Seq(S)
          /\ Len(SubSeq(s, 0 + 1, Len(s))) = Len(s)
          /\ \A i \in 1..(Len(s) - 0) : SubSeq(s, 0 + 1, Len(s))[i] = s[0 + i]
        BY <1>1, SubSeqFacts
    <2>2. /\ SubSeq(t, 0 + 1, Len(s)) \in Seq(S)
          /\ Len(SubSeq(t, 0 + 1, Len(s))) = Len(s)
          /\ \A i \in 1..(Len(s) - 0) : SubSeq(t, 0 + 1, Len(s))[i] = t[0 + i]
        BY <1>1, <1>2, SubSeqFacts
    <2>3. 0 + 1 = 1 /\ Len(s) - 0 = Len(s) /\ \A i \in 1..Len(s) : 0 + i = i
        BY <1>1
    <2>4. QED  BY <2>1, <2>2, <2>3
<1> HIDE DEF a, b
<1>4. (\A i \in 1..Len(s) : s[i] = t[i]) => a = b
    BY <1>3, SeqEqual
<1>5. a = b => \A i \in 1..Len(s) : s[i] = t[i]
    BY <1>3
<1>6. QED  BY <1>4, <1>5 DEF a, b

(* What is read from a table is a part of it.                              *)
LEMMA PageFacts ==
    ASSUME NEW t \in Listed, table[t] \in Seq(Nat), NEW offset \in Nat, NEW limit \in Nat
    PROVE  LET page == ListPage(t, offset, limit)
               last == Smaller(offset + Smaller(limit, PageMax), Len(table[t]))
           IN  /\ page \in Seq(Nat)
               /\ Len(page) = IF offset <= last THEN last - offset ELSE 0
               /\ \A i \in 1..Len(page) : page[i] = table[t][offset + i]
               /\ last \in Nat /\ Len(table[t]) \in Nat
<1> DEFINE last == Smaller(offset + Smaller(limit, PageMax), Len(table[t]))
<1>1. Len(table[t]) \in Nat
    BY SeqFacts
<1>2. last \in Nat /\ last <= Len(table[t])
    BY <1>1, ConsolePagesAssumption DEF Smaller
<1> HIDE DEF last
<1>3. ListPage(t, offset, limit) = SubSeq(table[t], offset + 1, last)
    BY DEF ListPage, last
<1>4. /\ SubSeq(table[t], offset + 1, last) \in Seq(Nat)
      /\ Len(SubSeq(table[t], offset + 1, last)) = IF offset <= last THEN last - offset ELSE 0
      /\ \A i \in 1..(last - offset) : SubSeq(table[t], offset + 1, last)[i] = table[t][offset + i]
    BY <1>1, <1>2, SubSeqFacts
<1>5. \A i \in 1..(IF offset <= last THEN last - offset ELSE 0) : i \in 1..(last - offset)
    BY <1>2
<1>6. QED  BY <1>1, <1>2, <1>3, <1>4, <1>5 DEF last

(* A list read from the top is the beginning of its table, and the whole   *)
(* of a table that fits the largest page when it asks for no more.         *)
LEMMA TopPage ==
    ASSUME NEW t \in Listed, table[t] \in Seq(Nat), NEW limit \in Nat
    PROVE  LET page == ListPage(t, 0, limit)
           IN  /\ page \in Seq(Nat)
               /\ IsPrefix(page, table[t])
               /\ LastPage(page, limit) /\ Len(table[t]) <= PageMax => page = table[t]
<1> DEFINE page == ListPage(t, 0, limit)
           last == Smaller(0 + Smaller(limit, PageMax), Len(table[t]))
<1>1. /\ page \in Seq(Nat) /\ Len(page) = last
      /\ \A i \in 1..Len(page) : page[i] = table[t][i]
      /\ last \in Nat /\ Len(table[t]) \in Nat
    <2>1. /\ page \in Seq(Nat)
          /\ Len(page) = IF 0 <= last THEN last - 0 ELSE 0
          /\ \A i \in 1..Len(page) : page[i] = table[t][0 + i]
          /\ last \in Nat /\ Len(table[t]) \in Nat
        BY PageFacts
    <2> HIDE DEF page, last
    <2>2. Len(page) = last
        BY <2>1
    <2>3. \A i \in 1..Len(page) : 0 + i = i
        BY <2>1, <2>2
    <2>4. QED  BY <2>1, <2>2, <2>3
<1> HIDE DEF page
<1>2. last <= Len(table[t])
    BY <1>1, ConsolePagesAssumption DEF Smaller
<1>3. IsPrefix(page, table[t])
    BY <1>1, <1>2, PrefixFacts
<1>4. ASSUME LastPage(page, limit), Len(table[t]) <= PageMax PROVE page = table[t]
    <2>1. last = Len(table[t])
        BY <1>1, <1>4, ConsolePagesAssumption DEF LastPage, Smaller
    <2>2. QED  BY <1>1, <2>1, SeqEqual
<1>5. QED  BY <1>1, <1>3, <1>4 DEF page

(* A page read where a list ends extends it by what follows in the table.  *)
LEMMA NextPage ==
    ASSUME NEW t \in Listed, table[t] \in Seq(Nat), loaded[t] \in Seq(Nat)
    PROVE  LET page == ListPage(t, NextOffset(t), Page)
           IN  /\ page \in Seq(Nat)
               /\ loaded[t] \o page \in Seq(Nat)
               /\ Len(loaded[t] \o page) >= Len(loaded[t])
               /\ IsPrefix(loaded[t], table[t]) => IsPrefix(loaded[t] \o page, table[t])
               /\ IsPrefix(loaded[t], table[t]) /\ LastPage(page, Page)
                    => loaded[t] \o page = table[t]
<1> DEFINE rows == loaded[t]
           offset == Len(rows)
           page == ListPage(t, NextOffset(t), Page)
           last == Smaller(offset + Smaller(Page, PageMax), Len(table[t]))
           longer == rows \o page
<1>1. offset \in Nat /\ Page \in Nat
    BY SeqFacts, ConsolePagesAssumption
<1>2. /\ page \in Seq(Nat)
      /\ Len(page) = IF offset <= last THEN last - offset ELSE 0
      /\ \A i \in 1..Len(page) : page[i] = table[t][offset + i]
      /\ last \in Nat /\ Len(table[t]) \in Nat
    <2>1. page = ListPage(t, offset, Page)
        BY DEF NextOffset
    <2> HIDE DEF offset, last, page
    <2>2. QED  BY <1>1, <2>1, PageFacts DEF last
<1> HIDE DEF page
<1>3. /\ longer \in Seq(Nat)
      /\ Len(longer) = Len(rows) + Len(page)
      /\ \A i \in 1..Len(rows) : longer[i] = rows[i]
      /\ \A i \in 1..Len(page) : longer[Len(rows) + i] = page[i]
    <2>1. rows \in Seq(Nat) /\ page \in Seq(Nat)
        BY <1>2
    <2> HIDE DEF rows
    <2>2. QED  BY <2>1, ConcatFacts
<1> HIDE DEF longer
<1>4. Len(page) \in Nat /\ Len(longer) >= Len(rows)
    <2> HIDE DEF last
    <2>1. Len(page) \in Nat
        BY <1>1, <1>2
    <2>2. QED  BY <1>1, <1>3, <2>1
<1>5. ASSUME IsPrefix(rows, table[t]) PROVE IsPrefix(longer, table[t])
    <2>1. Len(rows) <= Len(table[t]) /\ \A i \in 1..Len(rows) : rows[i] = table[t][i]
        BY <1>5, PrefixFacts
    <2>2. last <= Len(table[t])
        <3> DEFINE wanted == offset + Smaller(Page, PageMax)
        <3>1. wanted \in Nat
            <4>1. Smaller(Page, PageMax) \in Nat
                BY ConsolePagesAssumption DEF Smaller
            <4>2. QED  BY <1>1, <4>1
        <3>2. last = Smaller(wanted, Len(table[t]))
            OBVIOUS
        <3> HIDE DEF wanted, last
        <3>3. QED  BY <1>2, <3>1, <3>2 DEF Smaller
    <2> HIDE DEF last
    <2>3. Len(longer) <= Len(table[t])
        <3>1. CASE offset <= last
            <4>1. Len(page) = last - Len(rows)
                BY <1>2, <3>1
            <4>2. Len(longer) = Len(rows) + Len(page)
                BY <1>3
            <4>3. Len(rows) \in Nat /\ last \in Nat /\ Len(table[t]) \in Nat
                BY <1>1, <1>2
            <4>4. Len(rows) + (last - Len(rows)) = last
                BY <4>3
            <4>5. Len(longer) = last
                BY <4>1, <4>2, <4>4
            <4>6. QED  BY <2>2, <4>5
        <3>2. CASE ~(offset <= last)
            <4>1. Len(page) = 0
                BY <1>2, <3>2
            <4>2. Len(longer) = Len(rows) + Len(page) /\ Len(rows) \in Nat
                BY <1>1, <1>3
            <4>3. Len(longer) = Len(rows)
                BY <4>1, <4>2
            <4>4. QED  BY <2>1, <4>3
        <3>3. QED  BY <3>1, <3>2
    <2>4. ASSUME NEW i \in 1..Len(longer) PROVE longer[i] = table[t][i]
        <3>1. CASE i \in 1..Len(rows)
            BY <1>3, <2>1, <3>1
        <3>2. CASE i > Len(rows)
            <4>1. (i - Len(rows)) \in 1..Len(page) /\ Len(rows) + (i - Len(rows)) = i
                BY <1>1, <1>3, <1>4, <3>2
            <4>2. QED  BY <1>2, <1>3, <4>1
        <3>3. QED  BY <1>1, <1>3, <1>4, <3>1, <3>2
    <2>5. QED  BY <1>3, <2>3, <2>4, PrefixFacts
<1>6. ASSUME IsPrefix(rows, table[t]), LastPage(page, Page) PROVE longer = table[t]
    <2>1. Len(rows) <= Len(table[t])
        BY <1>6, PrefixFacts
    <2>2. Len(longer) <= Len(table[t]) /\ \A i \in 1..Len(longer) : longer[i] = table[t][i]
        <3>1. longer \in Seq(Nat) /\ table[t] \in Seq(Nat) /\ IsPrefix(longer, table[t])
            BY <1>3, <1>5, <1>6
        <3>2. PICK whole : whole = table[t]
            OBVIOUS
        <3>3. longer \in Seq(Nat) /\ whole \in Seq(Nat) /\ IsPrefix(longer, whole)
            BY <3>1, <3>2
        <3>4. Len(longer) <= Len(whole) /\ \A i \in 1..Len(longer) : longer[i] = whole[i]
            BY <3>3, PrefixFacts
        <3>5. QED  BY <3>2, <3>4
    <2>3. last = Len(table[t])
        <3>1. last = IF offset + Page < Len(table[t]) THEN offset + Page ELSE Len(table[t])
            <4>1. Smaller(Page, PageMax) = Page
                BY ConsolePagesAssumption DEF Smaller
            <4>2. QED  BY <4>1 DEF Smaller
        <3>2. Len(page) < Page
            BY <1>6 DEF LastPage
        <3> HIDE DEF last
        <3>3. offset <= last
            BY <1>1, <1>2, <2>1, <3>1
        <3>4. last - offset < Page
            BY <1>2, <3>2, <3>3
        <3>5. last < offset + Page
            BY <1>1, <1>2, <3>3, <3>4
        <3>6. CASE offset + Page < Len(table[t])
            <4>1. last = offset + Page
                BY <3>1, <3>6
            <4>2. QED  BY <1>1, <3>5, <4>1
        <3>7. QED  BY <3>1, <3>6
    <2> HIDE DEF last
    <2>4. Len(longer) = Len(table[t])
        BY <1>1, <1>2, <1>3, <2>1, <2>3
    <2>5. QED  BY <1>3, <2>2, <2>4, SeqEqual
<1>7. QED  BY <1>2, <1>3, <1>4, <1>5, <1>6 DEF page, longer

(* The order in which a set is listed is a sequence of its elements.       *)
LEMMA SetListed ==
    ASSUME NEW S, IsFiniteSet(S)
    PROVE  SetToSeq(S) \in Seq(S)
<1>1. Cardinality(S) \in Nat /\ ExistsBijection(1..Cardinality(S), S)
    BY FS_CardinalityType
<1>2. \E f \in [1..Cardinality(S) -> S] : IsInjective(f)
    <2>1. PICK f \in Bijection(1..Cardinality(S), S) : TRUE
        BY <1>1 DEF ExistsBijection
    <2>2. f \in [1..Cardinality(S) -> S] /\ IsInjective(f)
        BY <2>1 DEF Bijection, Injection
    <2>3. QED  BY <2>2
<1>3. SetToSeq(S) \in [1..Cardinality(S) -> S]
    BY <1>2 DEF SetToSeq
<1>4. QED  BY <1>1, <1>3

LEMMA RecallableFinite ==
    ASSUME table["memories"] \in Seq(Nat)
    PROVE  IsFiniteSet(Recallable) /\ Recallable \subseteq Nat
<1> DEFINE rows == table["memories"]
<1>1. IsFiniteSet(1..Len(rows)) /\ DOMAIN rows = 1..Len(rows)
    <2>1. rows \in Seq(Nat)
        OBVIOUS
    <2> HIDE DEF rows
    <2>2. Len(rows) \in Nat /\ DOMAIN rows = 1..Len(rows)
        BY <2>1, SeqFacts
    <2>3. 1 \in Int /\ Len(rows) \in Int
        BY <2>2
    <2>4. IsFiniteSet(1..Len(rows))
        BY <2>3, FS_Interval
    <2>5. QED  BY <2>2, <2>4
<1>2. IsFiniteSet(ToSet(rows))
    <2>1. rows \in [1..Len(rows) -> ToSet(rows)]
        BY <1>1 DEF ToSet
    <2>2. rows \in Surjection(1..Len(rows), ToSet(rows))
        BY <1>1, <2>1 DEF Surjection, ToSet
    <2> HIDE DEF rows
    <2>3. QED  BY <1>1, <2>2, FS_Surjection
<1>3. ToSet(rows) \subseteq Nat
    BY <1>1 DEF ToSet
<1>4. IsFiniteSet(ToSet(rows) \ archived)
    BY <1>2, FS_Subset
<1>5. QED  BY <1>3, <1>4 DEF Recallable

(* What a detail lists, and what a search returns.                         *)
LEMMA NeighborsType ==
    ASSUME table["memories"] \in Seq(Nat), NEW m
    PROVE  Neighbors(m) \in Seq(Nat)
<1> DEFINE all == SetToSeq(Linked(m))
           last == Smaller(NeighborLimit, Len(all))
<1>1. IsFiniteSet(Linked(m)) /\ Linked(m) \subseteq Nat
    <2>1. Linked(m) \in SUBSET Recallable
        BY DEF Linked
    <2>2. QED  BY <2>1, RecallableFinite, FS_Subset
<1>2. all \in Seq(Nat)
    <2>1. all \in Seq(Linked(m))
        BY <1>1, SetListed
    <2> HIDE DEF all
    <2>2. QED  BY <1>1, <2>1
<1> HIDE DEF all
<1>3. Len(all) \in Nat /\ last \in Nat /\ last <= Len(all)
    <2>1. Len(all) \in Nat
        BY <1>2
    <2>2. QED  BY <2>1, ConsolePagesAssumption DEF Smaller
<1> HIDE DEF last
<1>4. SubSeq(all, 0 + 1, last) \in Seq(Nat)
    BY <1>2, <1>3, SubSeqFacts
<1>5. SubSeq(all, 1, last) \in Seq(Nat)
    BY <1>4
<1>6. QED  BY <1>5 DEF Neighbors, all, last

LEMMA ResultsType ==
    ASSUME table["memories"] \in Seq(Nat), NEW results \in SearchResults
    PROVE  results \in Seq(Int)
<1>1. CASE results \in MemoryHits
    <2>1. PICK S \in SUBSET Recallable : results = SetToSeq(S)
        BY <1>1 DEF MemoryHits
    <2>2. IsFiniteSet(S) /\ S \subseteq Int
        BY RecallableFinite, FS_Subset
    <2>3. results \in Seq(S)
        BY <2>1, <2>2, SetListed
    <2>4. QED  BY <2>2, <2>3, SeqWider
<1>2. CASE results \in EventHits
    <2>1. PICK n \in 0..1 : results = [i \in 1..n |-> EventHit]
        BY <1>2 DEF EventHits
    <2>2. n \in Nat /\ results \in [1..n -> Int]
        BY <2>1 DEF EventHit
    <2>3. QED  BY <2>2
<1>3. QED  BY <1>1, <1>2 DEF SearchResults

(* A selection moved on a list that may have grown stays on it.            *)
LEMMA StepStays ==
    ASSUME NEW len \in Nat, NEW longer \in Nat, len <= longer, NEW at \in Nat, Valid(len, at),
           NEW down \in BOOLEAN
    PROVE  StepTo(longer, at, down) \in Nat /\ Valid(longer, StepTo(longer, at, down))
BY DEF StepTo, Valid, Smaller, Larger

LEMMA ClampedStays ==
    ASSUME NEW len \in Nat, NEW at \in Nat
    PROVE  Clamped(len, at) \in Nat /\ Valid(len, Clamped(len, at))
BY DEF Clamped, Valid, Smaller

(* The list that has the keys is the one that is drawn.                    *)
LEMMA FocusShown == (detail = <<>> \/ tab = "memories") => Focus = Shown
<1>1. CASE tab = "memories" /\ detail # <<>>
    BY Zenon, <1>1 DEF Focus, Shown
<1>2. CASE tab = "memories" /\ detail = <<>> /\ Searched
    BY Zenon, <1>2 DEF Focus, Shown
<1>3. CASE tab = "memories" /\ detail = <<>> /\ ~Searched
    BY Zenon, <1>3 DEF Focus, Shown
<1>4. CASE tab # "memories" /\ tab = "sessions" /\ session # NoRow /\ detail = <<>>
    BY Zenon, <1>4 DEF Focus, Shown
<1>5. CASE tab # "memories" /\ ~(tab = "sessions" /\ session # NoRow) /\ detail = <<>>
    BY Zenon, <1>5 DEF Focus, Shown
<1>6. QED  BY Zenon, <1>1, <1>2, <1>3, <1>4, <1>5

-----------------------------------------------------------------------------
LEMMA TabsAre == ToSet(Tabs) = {"memories", "sessions", "profile", "imports", "stats"}
<1>1. /\ DOMAIN Tabs = 1..5 /\ Tabs[1] = "memories" /\ Tabs[2] = "sessions"
      /\ Tabs[3] = "profile" /\ Tabs[4] = "imports" /\ Tabs[5] = "stats"
    BY DEF Tabs
<1>2. \A i \in 1..5 : i = 1 \/ i = 2 \/ i = 3 \/ i = 4 \/ i = 5
    OBVIOUS
<1>3. 1 \in 1..5 /\ 2 \in 1..5 /\ 3 \in 1..5 /\ 4 \in 1..5 /\ 5 \in 1..5
    OBVIOUS
<1>4. ToSet(Tabs) \subseteq {"memories", "sessions", "profile", "imports", "stats"}
    BY <1>1, <1>2 DEF ToSet
<1>5. {"memories", "sessions", "profile", "imports", "stats"} \subseteq ToSet(Tabs)
    BY <1>1, <1>3 DEF ToSet
<1>6. QED  BY <1>4, <1>5

LEMMA ListsInit == ConsoleInit => ListInv
<1> SUFFICES ASSUME ConsoleInit PROVE ListInv
    OBVIOUS
<1>1. PICK filled \in SUBSET Listed :
          table = [t \in Listed |-> IF t \in filled THEN Newest(MaxRows[t]) ELSE <<>>]
    BY DEF ConsoleInit
<1>2. PICK failed \in ReadFailures :
          /\ loaded = [t \in Listed |->
                IF t \in failed THEN <<>> ELSE ListPage(t, 0, Page)]
          /\ end = {t \in Listed \ failed : LastPage(loaded[t], Page)}
    BY DEF ConsoleInit
<1>3. changed = {} /\ selected = [t \in Listed |-> 0]
    BY DEF ConsoleInit
<1>4. table \in [Listed -> Seq(Nat)]
    <2>1. ASSUME NEW n \in Nat PROVE Newest(n) \in Seq(Nat)
        <3>1. \A i \in 1..n : n + 1 - i \in Nat
            OBVIOUS
        <3>2. [i \in 1..n |-> n + 1 - i] \in [1..n -> Nat]
            BY <3>1
        <3>3. QED  BY <3>2 DEF Newest
    <2>2. \A t \in Listed : MaxRows[t] \in Nat
        BY ConsoleBoundsAssumption
    <2>3. <<>> \in Seq(Nat)
        OBVIOUS
    <2>4. QED  BY <1>1, <2>1, <2>2, <2>3
<1>5. ASSUME NEW t \in Listed
      PROVE  /\ ListPage(t, 0, Page) \in Seq(Nat)
             /\ IsPrefix(ListPage(t, 0, Page), table[t])
             /\ LastPage(ListPage(t, 0, Page), Page) /\ Len(table[t]) <= PageMax
                  => ListPage(t, 0, Page) = table[t]
    BY <1>4, TopPage, ConsolePagesAssumption
<1>6. /\ <<>> \in Seq(Nat)
      /\ \A s \in Seq(Nat) : IsPrefix(<<>>, s)
    <2>1. <<>> \in Seq(Nat) /\ Len(<<>>) = 0
        OBVIOUS
    <2>2. ASSUME NEW s \in Seq(Nat) PROVE IsPrefix(<<>>, s)
        <3> DEFINE none == <<>>
        <3>1. none \in Seq(Nat) /\ Len(none) = 0
            BY <2>1
        <3> HIDE DEF none
        <3>2. Len(s) \in Nat
            OBVIOUS
        <3>3. Len(none) <= Len(s) /\ \A i \in 1..Len(none) : none[i] = s[i]
            BY <3>1, <3>2
        <3>4. IsPrefix(none, s)
            BY <3>1, <3>3, PrefixFacts
        <3>5. QED  BY <3>4 DEF none
    <2>3. QED  BY <2>1, <2>2
<1>7. loaded \in [Listed -> Seq(Nat)] /\ end \subseteq Listed
    BY <1>2, <1>5, <1>6
<1>8. PagesContiguous
    BY <1>2, <1>4, <1>5, <1>6 DEF PagesContiguous
<1>9. EndIsTheEnd
    BY <1>2, <1>5 DEF EndIsTheEnd
<1>10. QED  BY <1>3, <1>4, <1>7, <1>8, <1>9 DEF ListInv, Valid

LEMMA ListsFrame ==
    ASSUME ListInv, UNCHANGED <<table, loaded, selected, end, changed>>
    PROVE  ListInv'
BY DEF ListInv, Valid, PagesContiguous, EndIsTheEnd

LEMMA ListsAddRow == ASSUME ListInv, NEW t \in Listed, AddRow(t) PROVE ListInv'
<1>1. PICK i \in Places(t) : table' = [table EXCEPT ![t] = InsertAt(@, i, Len(@) + 1)]
    BY DEF AddRow
<1>2. UNCHANGED <<loaded, selected, end>> /\ changed' = changed \cup {t}
    BY DEF AddRow
<1>3. InsertAt(table[t], i, Len(table[t]) + 1) \in Seq(Nat)
    <2> DEFINE rows == table[t]
               n == Len(rows)
    <2>1. rows \in Seq(Nat) /\ n \in Nat
        BY SeqFacts DEF ListInv
    <2>2. i \in 1..(n + 1)
        BY <2>1 DEF Places
    <2> HIDE DEF rows
    <2>3. SubSeq(rows, 1, i - 1) \in Seq(Nat)
        <3>1. (i - 1) \in Nat /\ (i - 1) <= Len(rows) /\ 0 + 1 = 1
            BY <2>1, <2>2
        <3>2. SubSeq(rows, 0 + 1, i - 1) \in Seq(Nat)
            BY <2>1, <3>1, SubSeqFacts
        <3>3. QED  BY <3>1, <3>2
    <2>4. SubSeq(rows, i, n) \in Seq(Nat)
        <3>1. (i - 1) \in Nat /\ (i - 1) + 1 = i
            BY <2>1, <2>2
        <3>2. SubSeq(rows, (i - 1) + 1, n) \in Seq(Nat)
            BY <2>1, <3>1, SubSeqFacts
        <3>3. QED  BY <3>1, <3>2
    <2>5. <<n + 1>> \in Seq(Nat)
        BY <2>1
    <2>6. SubSeq(rows, 1, i - 1) \o <<n + 1>> \in Seq(Nat)
        BY <2>3, <2>5, ConcatFacts
    <2>7. (SubSeq(rows, 1, i - 1) \o <<n + 1>>) \o SubSeq(rows, i, n) \in Seq(Nat)
        BY <2>4, <2>6, ConcatFacts
    <2>8. QED  BY <2>7 DEF InsertAt, rows
<1>4. table' \in [Listed -> Seq(Nat)]
    BY <1>1, <1>3 DEF ListInv
<1>5. \A s \in Listed \ {t} : table'[s] = table[s]
    BY <1>1 DEF ListInv
<1>6. PagesContiguous' /\ EndIsTheEnd'
    BY <1>2, <1>5 DEF ListInv, PagesContiguous, EndIsTheEnd
<1>7. QED  BY <1>2, <1>4, <1>6 DEF ListInv, Valid

LEMMA ListsRefresh ==
    ASSUME ListInv, NEW T \in SUBSET Listed, RefreshLists(T), table' = table
    PROVE  ListInv'
<1>1. /\ loaded' = [t \in Listed |-> IF t \in T THEN ListPage(t, 0, Limit(t)) ELSE loaded[t]]
      /\ selected' = [t \in Listed |-> Clamped(Len(loaded'[t]), selected[t])]
      /\ end' = {t \in Listed : IF t \in T THEN LastPage(loaded'[t], Limit(t)) ELSE t \in end}
      /\ changed' = changed \ T
    BY DEF RefreshLists
<1>2. ASSUME NEW t \in Listed
      PROVE  /\ ListPage(t, 0, Limit(t)) \in Seq(Nat)
             /\ IsPrefix(ListPage(t, 0, Limit(t)), table[t])
             /\ LastPage(ListPage(t, 0, Limit(t)), Limit(t)) /\ Len(table[t]) <= PageMax
                  => ListPage(t, 0, Limit(t)) = table[t]
    <2>1. Len(loaded[t]) \in Nat
        BY SeqFacts DEF ListInv
    <2>2. Limit(t) \in Nat
        BY <2>1, ConsolePagesAssumption DEF Limit, Larger
    <2>3. table[t] \in Seq(Nat)
        BY DEF ListInv
    <2>4. QED  BY <2>2, <2>3, TopPage
<1>3. loaded' \in [Listed -> Seq(Nat)]
    BY <1>1, <1>2 DEF ListInv
<1>4. /\ selected' \in [Listed -> Nat]
      /\ \A t \in Listed : Valid(Len(loaded'[t]), selected'[t])
    <2>1. ASSUME NEW t \in Listed
          PROVE  /\ Clamped(Len(loaded'[t]), selected[t]) \in Nat
                 /\ Valid(Len(loaded'[t]), Clamped(Len(loaded'[t]), selected[t]))
        <3>1. loaded'[t] \in Seq(Nat) /\ selected[t] \in Nat
            BY <1>3 DEF ListInv
        <3>2. Len(loaded'[t]) \in Nat
            BY <3>1, SeqFacts
        <3>3. QED  BY <3>1, <3>2, ClampedStays
    <2>2. QED  BY <1>1, <2>1
<1>5. PagesContiguous'
    BY <1>1, <1>2 DEF ListInv, PagesContiguous
<1>6. EndIsTheEnd'
    BY <1>1, <1>2 DEF ListInv, EndIsTheEnd
<1>7. QED  BY <1>1, <1>3, <1>4, <1>5, <1>6 DEF ListInv, Valid

LEMMA ListsMove ==
    ASSUME ListInv, NEW down \in BOOLEAN, MoveInList(down), table' = table, tab \in Listed
    PROVE  ListInv'
<1>1. PICK ext \in Extensions(tab, down) :
          /\ loaded' = [loaded EXCEPT ![tab] = ext.rows]
          /\ selected' = [selected EXCEPT ![tab] = StepTo(Len(ext.rows), @, down)]
          /\ end' = IF ext.end THEN end \cup {tab} ELSE end
    BY DEF MoveInList
<1>2. changed' = changed
    BY DEF MoveInList
<1> DEFINE page == ListPage(tab, NextOffset(tab), Page)
<1>3. /\ table[tab] \in Seq(Nat) /\ loaded[tab] \in Seq(Nat) /\ selected[tab] \in Nat
      /\ Valid(Len(loaded[tab]), selected[tab])
    BY DEF ListInv
<1>4. \/ ext = [rows |-> loaded[tab], end |-> tab \in end]
      \/ ext = [rows |-> loaded[tab] \o page, end |-> LastPage(page, Page)]
    BY Zenon, <1>1 DEF Extensions
<1>5. /\ ext.rows \in Seq(Nat) /\ Len(ext.rows) >= Len(loaded[tab])
      /\ IsPrefix(loaded[tab], table[tab]) => IsPrefix(ext.rows, table[tab])
      /\ ext.end /\ IsPrefix(loaded[tab], table[tab]) =>
            ext.rows = table[tab] \/ (tab \in end /\ ext.rows = loaded[tab])
    <2>1. CASE ext = [rows |-> loaded[tab], end |-> tab \in end]
        <3>1. Len(loaded[tab]) \in Nat
            BY <1>3, SeqFacts
        <3>2. ext.rows = loaded[tab]
            BY <2>1
        <3>3. ext.end => tab \in end
            BY <2>1
        <3>4. Len(loaded[tab]) >= Len(loaded[tab])
            BY <3>1
        <3>5. QED  BY Zenon, <1>3, <3>2, <3>3, <3>4
    <2>2. CASE ext = [rows |-> loaded[tab] \o page, end |-> LastPage(page, Page)]
        <3>1. /\ loaded[tab] \o page \in Seq(Nat)
              /\ Len(loaded[tab] \o page) >= Len(loaded[tab])
              /\ IsPrefix(loaded[tab], table[tab]) => IsPrefix(loaded[tab] \o page, table[tab])
              /\ IsPrefix(loaded[tab], table[tab]) /\ LastPage(page, Page)
                    => loaded[tab] \o page = table[tab]
            BY <1>3, NextPage
        <3> HIDE DEF page
        <3>2. ext.rows = loaded[tab] \o page /\ (ext.end => LastPage(page, Page))
            BY <2>2
        <3>3. QED  BY <3>1, <3>2
    <2>3. QED  BY <1>4, <2>1, <2>2
<1>6. /\ loaded'[tab] = ext.rows
      /\ \A t \in Listed \ {tab} : loaded'[t] = loaded[t] /\ selected'[t] = selected[t]
      /\ selected'[tab] = StepTo(Len(ext.rows), selected[tab], down)
      /\ loaded' \in [Listed -> Seq(Nat)]
    BY <1>1, <1>5 DEF ListInv
<1>7. selected'[tab] \in Nat /\ Valid(Len(loaded'[tab]), selected'[tab])
    <2>1. Len(loaded[tab]) \in Nat /\ Len(ext.rows) \in Nat
        BY <1>3, <1>5, SeqFacts
    <2> DEFINE at == StepTo(Len(ext.rows), selected[tab], down)
    <2>2. Len(loaded[tab]) <= Len(ext.rows)
        BY <1>5, <2>1
    <2>3. at \in Nat /\ Valid(Len(ext.rows), at)
        BY <1>3, <2>1, <2>2, StepStays
    <2> HIDE DEF at
    <2>4. selected'[tab] = at /\ loaded'[tab] = ext.rows
        BY <1>6 DEF at
    <2>5. QED  BY <2>3, <2>4
<1>8. selected' \in [Listed -> Nat]
    BY <1>1, <1>6, <1>7 DEF ListInv
<1>9. end' \subseteq Listed /\ (\A t \in end' : t \in end \/ (t = tab /\ ext.end))
    BY <1>1 DEF ListInv
<1>10. PagesContiguous'
    BY <1>2, <1>5, <1>6 DEF ListInv, PagesContiguous
<1>11. EndIsTheEnd'
    <2>1. SUFFICES ASSUME NEW t \in end', t \notin changed, Len(table[t]) <= PageMax
                   PROVE  loaded'[t] = table[t]
        BY <1>2 DEF EndIsTheEnd
    <2>2. CASE t # tab
        BY <1>6, <1>9, <2>1, <2>2 DEF ListInv, EndIsTheEnd
    <2>3. CASE t = tab
        <3>1. IsPrefix(loaded[tab], table[tab])
            BY <2>1, <2>3 DEF ListInv, PagesContiguous
        <3>2. CASE tab \in end
            <4>1. loaded[tab] = table[tab]
                BY <2>1, <2>3, <3>2 DEF ListInv, EndIsTheEnd
            <4>2. Len(ext.rows) <= Len(table[tab]) /\ \A i \in 1..Len(ext.rows) : ext.rows[i] = table[tab][i]
                <5>1. /\ ext.rows \in Seq(Nat) /\ table[tab] \in Seq(Nat)
                      /\ IsPrefix(ext.rows, table[tab])
                    BY <1>3, <1>5, <3>1
                <5>2. QED  BY <5>1, PrefixFacts
            <4>3. Len(ext.rows) \in Nat /\ Len(table[tab]) \in Nat
                BY <1>3, <1>5, SeqFacts
            <4>4. Len(ext.rows) = Len(table[tab])
                BY <1>5, <4>1, <4>2, <4>3
            <4>5. QED  BY <1>3, <1>5, <1>6, <2>3, <4>2, <4>4, SeqEqual
        <3>3. CASE tab \notin end
            BY <1>5, <1>6, <1>9, <2>1, <2>3, <3>1, <3>3
        <3>4. QED  BY <3>2, <3>3
    <2>4. QED  BY <2>2, <2>3
<1>12. \A t \in Listed : Valid(Len(loaded'[t]), selected'[t])
    BY <1>6, <1>7 DEF ListInv
<1>13. QED  BY <1>2, <1>6, <1>8, <1>9, <1>10, <1>11, <1>12 DEF ListInv, Valid

-----------------------------------------------------------------------------
LEMMA LevelsKept ==
    ASSUME ViewInv, NEW level \in Level, Valid(Len(level.neighbors), level.selected),
           NEW levels \in Seq(Level), NEW n \in Nat, n <= MaxDetail,
           Len(levels) = n,
           \A i \in 1..n : \/ levels[i] = level
                           \/ i \in 1..Len(detail) /\ levels[i] = detail[i]
    PROVE  /\ levels \in Seq(Level) /\ Len(levels) <= MaxDetail
           /\ \A i \in 1..Len(levels) : Valid(Len(levels[i].neighbors), levels[i].selected)
BY DEF ViewInv

LEMMA ViewsPush ==
    ASSUME ListInv, ViewInv, NEW m, PushDetail(m)
    PROVE  /\ detail' \in Seq(Level) /\ Len(detail') <= MaxDetail
           /\ \A i \in 1..Len(detail') : Valid(Len(detail'[i].neighbors), detail'[i].selected)
<1>1. CASE detail' = detail
    BY <1>1 DEF ViewInv
<1>2. CASE m \in Recallable /\ detail' = Append(detail, Opened(m))
    <2> DEFINE level == Opened(m)
               old == detail
               levels == Append(old, level)
               n == Len(old) + 1
    <2>1. level \in Level /\ Valid(Len(level.neighbors), level.selected)
        <3>1. table["memories"] \in Seq(Nat)
            BY DEF ListInv, Listed
        <3>2. m \in Nat
            BY <1>2, <3>1, RecallableFinite
        <3>3. Neighbors(m) \in Seq(Nat)
            BY <3>1, NeighborsType
        <3>4. level = [id |-> m, neighbors |-> Neighbors(m), selected |-> 0]
            BY DEF Opened
        <3>5. QED  BY <3>2, <3>3, <3>4 DEF Level, Valid
    <2>2. old \in Seq(Level) /\ Len(old) \in Nat
        BY SeqFacts DEF ViewInv
    <2> HIDE DEF level, old
    <2>3. levels \in Seq(Level) /\ Len(levels) = n /\ levels[n] = level
        BY <2>1, <2>2
    <2>4. \A i \in 1..Len(old) : levels[i] = old[i]
        BY <2>2
    <2>5. \A i \in 1..n : i = n \/ i \in 1..Len(old)
        BY <2>2
    <2>6. n \in Nat /\ n <= MaxDetail
        <3>1. Len(old) < MaxDetail
            BY DEF PushDetail, old
        <3>2. QED  BY <2>2, <3>1, ConsoleBoundsAssumption
    <2>7. \A i \in 1..n : \/ levels[i] = level
                          \/ i \in 1..Len(detail) /\ levels[i] = detail[i]
        BY <2>3, <2>4, <2>5 DEF old
    <2> HIDE DEF levels, n
    <2>8. /\ levels \in Seq(Level) /\ Len(levels) <= MaxDetail
          /\ \A i \in 1..Len(levels) : Valid(Len(levels[i].neighbors), levels[i].selected)
        BY <2>1, <2>3, <2>6, <2>7, LevelsKept
    <2>9. QED  BY <1>2, <2>8 DEF levels, level, old
<1>3. QED  BY <1>1, <1>2 DEF PushDetail

LEMMA ViewsInit == ConsoleInit => ViewInv
<1> SUFFICES ASSUME ConsoleInit PROVE ViewInv
    OBVIOUS
<1>1. tab = "memories" /\ search = NoSearch /\ detail = <<>> /\ session = NoRow
    BY DEF ConsoleInit
<1>2. tab \in ToSet(Tabs)
    BY <1>1, TabsAre
<1>3. search \in [active : BOOLEAN, results : Seq(Int), selected : Nat]
    BY <1>1 DEF NoSearch, NoResults
<1>4. ~Searched
    BY <1>1 DEF Searched, NoSearch
<1>5. detail \in Seq(Level) /\ Len(detail) = 0
    BY <1>1
<1>6. QED  BY <1>1, <1>2, <1>3, <1>4, <1>5, ConsoleBoundsAssumption DEF ViewInv, NoRow

(* A step changes one view, if any.                                        *)
LEMMA ViewsFrame == ASSUME ViewInv, UNCHANGED views PROVE ViewInv'
BY DEF ViewInv, views, Searched

LEMMA ViewsDetail ==
    ASSUME ViewInv, UNCHANGED <<tab, search>>, session' \in Nat,
           detail' \in Seq(Level), Len(detail') <= MaxDetail,
           \A i \in 1..Len(detail') : Valid(Len(detail'[i].neighbors), detail'[i].selected)
    PROVE  ViewInv'
BY DEF ViewInv, Searched, Level, Valid

LEMMA ViewsSearch ==
    ASSUME ViewInv, UNCHANGED <<tab, detail, session>>,
           search' \in [active : BOOLEAN, results : Seq(Int), selected : Nat],
           Searched' => Valid(Len(search'.results), search'.selected)
    PROVE  ViewInv'
BY DEF ViewInv, Level, Valid

LEMMA ViewsMoveInDetail ==
    ASSUME ViewInv, NEW down \in BOOLEAN, MoveInDetail(down), tab' = tab
    PROVE  ViewInv'
<1> DEFINE n == Len(detail)
           top == detail[n]
           level == [id |-> top.id, neighbors |-> top.neighbors,
                     selected |-> StepTo(Len(top.neighbors), top.selected, down)]
           levels == [detail EXCEPT ![n] = level]
<1>1. n \in Nat /\ n <= MaxDetail /\ n \in 1..n /\ detail \in Seq(Level)
    <2>1. n \in Nat /\ n # 0
        BY SeqFacts DEF ViewInv, MoveInDetail
    <2>2. QED  BY <2>1 DEF ViewInv
<1>2. top \in Level /\ Valid(Len(top.neighbors), top.selected)
    BY <1>1 DEF ViewInv
<1>3. level \in Level /\ Valid(Len(level.neighbors), level.selected)
    <2> HIDE DEF top
    <2>1. top.id \in Nat /\ top.neighbors \in Seq(Nat) /\ top.selected \in Nat
        BY <1>2 DEF Level
    <2>2. Len(top.neighbors) \in Nat
        BY <2>1, SeqFacts
    <2> DEFINE at == StepTo(Len(top.neighbors), top.selected, down)
    <2>3. at \in Nat /\ Valid(Len(top.neighbors), at)
        BY <1>2, <2>1, <2>2, StepStays
    <2> HIDE DEF at
    <2>4. level = [id |-> top.id, neighbors |-> top.neighbors, selected |-> at]
        BY DEF at
    <2>5. QED  BY <2>1, <2>3, <2>4 DEF Level
<1>4. detail' = levels
    BY DEF MoveInDetail
<1> HIDE DEF level, top
<1>5. levels \in Seq(Level) /\ Len(levels) = n
    BY <1>1, <1>3
<1>6. \A i \in 1..n : \/ levels[i] = level
                      \/ i \in 1..Len(detail) /\ levels[i] = detail[i]
    BY <1>1
<1> HIDE DEF levels, n
<1>7. /\ levels \in Seq(Level) /\ Len(levels) <= MaxDetail
      /\ \A i \in 1..Len(levels) : Valid(Len(levels[i].neighbors), levels[i].selected)
    BY <1>1, <1>3, <1>5, <1>6, LevelsKept
<1>8. UNCHANGED <<tab, search>> /\ session' \in Nat
    BY DEF MoveInDetail, ViewInv
<1>9. QED  BY <1>4, <1>7, <1>8, ViewsDetail

LEMMA ViewsMoveInResults ==
    ASSUME ViewInv, NEW down \in BOOLEAN, MoveInResults(down), tab' = tab
    PROVE  ViewInv'
<1> DEFINE len == Len(search.results)
           at == StepTo(len, search.selected, down)
<1>1. search \in [active : BOOLEAN, results : Seq(Int), selected : Nat]
    BY DEF ViewInv
<1>2. len \in Nat /\ search.selected \in Nat
    BY <1>1, SeqFacts
<1>3. Searched
    <2>1. Focus = "results" /\ "results" # "detail" /\ "results" # "none"
        BY DEF MoveInResults
    <2>2. tab \in {"memories", "sessions", "profile", "imports", "stats"}
        BY TabsAre DEF ViewInv
    <2>3. tab # "results"
        BY <2>2
    <2>4. QED  BY Zenon, <2>1, <2>3 DEF Focus
<1>4. Valid(len, search.selected)
    BY <1>3 DEF ViewInv
<1>5. at \in Nat /\ Valid(len, at)
    BY <1>2, <1>4, StepStays
<1> HIDE DEF at
<1>6. search' = [search EXCEPT !.selected = at]
    BY DEF MoveInResults, at
<1>7. /\ search' \in [active : BOOLEAN, results : Seq(Int), selected : Nat]
      /\ search'.results = search.results /\ search'.selected = at
    BY <1>1, <1>5, <1>6
<1>8. UNCHANGED <<tab, detail, session>>
    BY DEF MoveInResults
<1>9. QED  BY <1>5, <1>7, <1>8, ViewsSearch

(* A selection that is on its list gives one of its rows.                  *)
LEMMA RowTaken ==
    ASSUME NEW rows \in Seq(Nat), rows # <<>>, NEW at \in Nat, Valid(Len(rows), at)
    PROVE  rows[at + 1] \in Nat
<1>1. Len(rows) \in Nat /\ Len(rows) # 0
    BY SeqFacts
<1>2. (at + 1) \in 1..Len(rows)
    BY <1>1 DEF Valid
<1>3. QED  BY <1>2

LEMMA ViewsEnter == ASSUME ListInv, ViewInv, Enter PROVE ViewInv'
<1>1. UNCHANGED <<tab, search>>
    BY DEF Enter
<1>2. CASE OpenMemory
    <2>1. session' = session /\ \E m : PushDetail(m)
        BY <1>2 DEF OpenMemory
    <2>2. QED  BY <1>1, <2>1, ViewsPush, ViewsDetail DEF ViewInv
<1>3. CASE OpenSession
    <2>1. /\ session' = loaded["sessions"][selected["sessions"] + 1] /\ loaded["sessions"] # <<>>
          /\ detail' = detail
        BY <1>3 DEF OpenSession
    <2>2. /\ loaded["sessions"] \in Seq(Nat) /\ selected["sessions"] \in Nat
          /\ Valid(Len(loaded["sessions"]), selected["sessions"])
        BY DEF ListInv, Listed
    <2>3. session' \in Nat
        BY <2>1, <2>2, RowTaken
    <2>4. QED  BY <1>1, <2>1, <2>3, ViewsDetail DEF ViewInv
<1>4. QED  BY <1>2, <1>3 DEF Enter

LEMMA ViewsRecenter == ASSUME ListInv, ViewInv, Recenter PROVE ViewInv'
<1>1. UNCHANGED <<tab, search, session>> /\ \E m : PushDetail(m)
    BY DEF Recenter
<1>2. QED  BY <1>1, ViewsPush, ViewsDetail DEF ViewInv

LEMMA ViewsBack == ASSUME ViewInv, Back PROVE ViewInv'
<1>1. tab' = tab
    BY DEF Back
<1>2. CASE detail # <<>> /\ detail' = Front(detail) /\ UNCHANGED <<session, search>>
    <2> DEFINE levels == SubSeq(detail, 1, Len(detail) - 1)
    <2>1. Len(detail) \in Nat /\ Len(detail) # 0 /\ detail \in Seq(Level) /\ Len(detail) <= MaxDetail
        BY <1>2, SeqFacts DEF ViewInv
    <2>2. levels \in Seq(Level) /\ Len(levels) <= MaxDetail
          /\ Len(levels) <= Len(detail)
          /\ \A i \in 1..Len(levels) : levels[i] = detail[i]
        BY <2>1, ConsoleBoundsAssumption
    <2>3. Len(levels) \in Nat
        BY <2>2, SeqFacts
    <2> HIDE DEF levels
    <2>4. \A i \in 1..Len(levels) : i \in 1..Len(detail)
        BY <2>1, <2>2, <2>3
    <2>5. \A i \in 1..Len(levels) : Valid(Len(levels[i].neighbors), levels[i].selected)
        BY <2>2, <2>4 DEF ViewInv
    <2>6. detail' = levels
        BY <1>2 DEF Front, levels
    <2>7. session' \in Nat
        BY <1>2 DEF ViewInv
    <2>8. QED  BY <1>1, <1>2, <2>2, <2>5, <2>6, <2>7, ViewsDetail
<1>3. CASE session' = NoRow /\ UNCHANGED <<detail, search>>
    <2>1. session' \in Nat
        BY <1>3 DEF NoRow
    <2>2. QED  BY <1>1, <1>3, <2>1, ViewsDetail DEF ViewInv
<1>4. CASE search' = NoSearch /\ UNCHANGED <<detail, session>>
    <2>1. search' \in [active : BOOLEAN, results : Seq(Int), selected : Nat]
        BY <1>4 DEF NoSearch, NoResults
    <2>2. ~Searched'
        BY <1>4 DEF Searched, NoSearch
    <2>3. QED  BY <1>1, <1>4, <2>1, <2>2, ViewsSearch
<1>5. QED  BY <1>2, <1>3, <1>4 DEF Back

LEMMA ViewsSwitchTab == ASSUME ViewInv, SwitchTab PROVE ViewInv'
<1>1. tab' \in ToSet(Tabs) /\ UNCHANGED <<search, detail, session>>
    <2>1. PICK i \in 1..Len(Tabs) : tab' = Tabs[i]
        BY DEF SwitchTab
    <2>2. Len(Tabs) = 5 /\ DOMAIN Tabs = 1..5
        BY DEF Tabs
    <2>3. QED  BY <2>1, <2>2 DEF SwitchTab, ToSet
<1>2. QED  BY <1>1 DEF ViewInv, Searched

LEMMA ViewsRefresh == ASSUME ViewInv, Refresh PROVE ViewInv'
<1>1. UNCHANGED <<tab, search>> /\ detail' = <<>> /\ session' = NoRow
    BY DEF Refresh
<1>2. detail' \in Seq(Level) /\ Len(detail') = 0 /\ session' \in Nat
    BY <1>1 DEF NoRow
<1>3. QED  BY <1>1, <1>2, ViewsDetail, ConsoleBoundsAssumption

LEMMA ViewsBox == ASSUME ViewInv, StartSearch \/ LeaveSearch PROVE ViewInv'
<1>1. search \in [active : BOOLEAN, results : Seq(Int), selected : Nat]
    BY DEF ViewInv
<1>2. UNCHANGED <<tab, detail, session>>
    BY DEF StartSearch, LeaveSearch
<1>3. PICK b \in BOOLEAN : search' = [search EXCEPT !.active = b]
    BY DEF StartSearch, LeaveSearch
<1>4. /\ search' \in [active : BOOLEAN, results : Seq(Int), selected : Nat]
      /\ search'.results = search.results /\ search'.selected = search.selected
    BY <1>1, <1>3
<1>5. Searched' => Valid(Len(search'.results), search'.selected)
    BY <1>4 DEF ViewInv, Searched
<1>6. QED  BY <1>2, <1>4, <1>5, ViewsSearch

LEMMA ViewsSubmit == ASSUME ListInv, ViewInv, SubmitSearch PROVE ViewInv'
<1>1. search \in [active : BOOLEAN, results : Seq(Int), selected : Nat]
    BY DEF ViewInv
<1>2. UNCHANGED <<tab, detail, session>>
    BY DEF SubmitSearch
<1>3. CASE search' = [active |-> FALSE, results |-> NoResults, selected |-> search.selected]
    <2>1. search' \in [active : BOOLEAN, results : Seq(Int), selected : Nat]
        BY <1>1, <1>3 DEF NoResults
    <2>2. ~Searched'
        BY <1>3 DEF Searched
    <2>3. QED  BY <1>2, <2>1, <2>2, ViewsSearch
<1>4. ASSUME NEW results \in SearchResults \cup {search.results}, search' = Answered(results)
      PROVE  ViewInv'
    <2>1. results \in Seq(Int)
        <3>1. table["memories"] \in Seq(Nat)
            BY DEF ListInv, Listed
        <3>2. QED  BY <1>1, <1>4, <3>1, ResultsType
    <2>2. /\ search' \in [active : BOOLEAN, results : Seq(Int), selected : Nat]
          /\ search'.selected = 0
        BY <1>4, <2>1 DEF Answered
    <2>3. Valid(Len(search'.results), search'.selected)
        BY <2>2 DEF Valid
    <2>4. QED  BY <1>2, <2>2, <2>3, ViewsSearch
<1>5. QED  BY <1>3, <1>4 DEF SubmitSearch

-----------------------------------------------------------------------------
LEMMA ListsStep == ASSUME ListInv, ViewInv, [ConsoleNext]_consoleVars PROVE ListInv'
<1>1. ASSUME NEW t \in Listed, AddRow(t) PROVE ListInv'
    BY <1>1, ListsAddRow
<1>2. CASE Refresh
    <2>1. PICK failed \in ReadFailures : RefreshLists(Listed \ failed)
        BY <1>2 DEF Refresh
    <2>2. table' = table
        BY <1>2 DEF Refresh, database
    <2>3. QED  BY <2>1, <2>2, ListsRefresh
<1>3. ASSUME NEW down \in BOOLEAN, MoveInList(down), table' = table PROVE ListInv'
    <2>1. tab \in Listed
        BY <1>3 DEF MoveInList, Focus, Listed
    <2>2. QED  BY <1>3, <2>1, ListsMove
<1>4. CASE UNCHANGED <<table, loaded, selected, end, changed>>
    BY <1>4, ListsFrame
<1>5. CASE Daemon
    BY <1>1, <1>4, <1>5 DEF Daemon, Archive, lists
<1>6. CASE Move
    <2>1. table' = table
        BY <1>6 DEF Move, database
    <2>2. QED  BY <1>3, <1>4, <1>6, <2>1 DEF Move, MoveInDetail, MoveInResults, lists
<1>7. CASE Enter \/ Recenter \/ Back \/ SwitchTab \/ StartSearch \/ LeaveSearch \/ SubmitSearch
    <2>1. UNCHANGED <<database, lists>>
        BY <1>7 DEF Enter, Recenter, Back, SwitchTab, StartSearch, LeaveSearch, SubmitSearch
    <2>2. QED  BY <1>4, <2>1 DEF database, lists
<1>8. CASE UNCHANGED consoleVars
    BY <1>4, <1>8 DEF consoleVars, database, lists
<1>9. QED  BY <1>2, <1>5, <1>6, <1>7, <1>8 DEF ConsoleNext, Key

LEMMA ViewsStep == ASSUME ListInv, ViewInv, [ConsoleNext]_consoleVars PROVE ViewInv'
<1>1. CASE UNCHANGED views
    BY <1>1, ViewsFrame
<1>2. CASE Daemon
    <2>1. UNCHANGED views
        BY <1>2 DEF Daemon, AddRow, Archive
    <2>2. QED  BY <1>1, <2>1
<1>3. CASE Move
    <2>1. PICK down \in BOOLEAN : MoveInDetail(down) \/ MoveInResults(down) \/ MoveInList(down)
        BY <1>3 DEF Move
    <2>2. tab' = tab
        BY <1>3 DEF Move
    <2>3. CASE MoveInList(down)
        <3>1. UNCHANGED views
            BY <2>2, <2>3 DEF MoveInList, views
        <3>2. QED  BY <1>1, <3>1
    <2>4. QED  BY <2>1, <2>2, <2>3, ViewsMoveInDetail, ViewsMoveInResults
<1>4. CASE UNCHANGED consoleVars
    BY <1>1, <1>4 DEF consoleVars
<1>5. QED
    BY <1>2, <1>3, <1>4, ViewsEnter, ViewsRecenter, ViewsBack, ViewsSwitchTab, ViewsRefresh,
       ViewsBox, ViewsSubmit DEF ConsoleNext, Key

(* A memory that was archived stays in its table.                          *)
LEMMA ArchivedKept ==
    ASSUME ListInv, ArchivedListed, [ConsoleNext]_consoleVars
    PROVE  ArchivedListed'
<1>1. CASE UNCHANGED database
    BY <1>1 DEF database, ArchivedListed
<1>2. ASSUME NEW t \in Listed, AddRow(t) PROVE ArchivedListed'
    <2>1. archived' = archived
        BY <1>2 DEF AddRow
    <2>2. CASE t # "memories"
        <3>1. table'["memories"] = table["memories"]
            BY <1>2, <2>2 DEF AddRow, ListInv, Listed
        <3>2. QED  BY <2>1, <3>1 DEF ArchivedListed
    <2>3. CASE t = "memories"
        <3> DEFINE rows == table[t]
                   n == Len(rows)
                   before == SubSeq(rows, 1, 0) \o <<n + 1>>
                   after == SubSeq(rows, 1, n)
        <3>1. rows \in Seq(Nat) /\ n \in Nat
            BY SeqFacts DEF ListInv
        <3>2. table'[t] = before \o after
            <4>1. table' = [table EXCEPT ![t] = InsertAt(@, 1, Len(@) + 1)]
                BY <1>2, <2>3 DEF AddRow, Places
            <4>2. table'[t] = InsertAt(rows, 1, n + 1)
                BY <4>1 DEF ListInv
            <4>3. QED  BY <4>2 DEF InsertAt
        <3> HIDE DEF rows
        <3>3. before \in Seq(Nat) /\ Len(before) = 1
            BY <3>1
        <3>4. after \in Seq(Nat) /\ Len(after) = n /\ \A i \in 1..n : after[i] = rows[i]
            BY <3>1
        <3> HIDE DEF before, after
        <3>5. /\ Len(before \o after) = 1 + n /\ before \o after \in Seq(Nat)
              /\ \A i \in 1..n : (before \o after)[1 + i] = rows[i]
            <4>1. /\ before \o after \in Seq(Nat)
                  /\ Len(before \o after) = Len(before) + Len(after)
                  /\ \A i \in 1..Len(after) : (before \o after)[Len(before) + i] = after[i]
                <5>1. before \in Seq(Nat) /\ after \in Seq(Nat)
                    BY <3>3, <3>4
                <5>2. QED  BY <5>1, ConcatFacts
            <4> DEFINE all == before \o after
            <4> HIDE DEF all, n
            <4>2. all \in Seq(Nat) /\ Len(all) = 1 + n
                BY <3>3, <3>4, <4>1 DEF all
            <4>3. \A i \in 1..n : all[1 + i] = after[i]
                BY <3>3, <3>4, <4>1 DEF all
            <4>4. QED  BY <3>4, <4>2, <4>3 DEF all
        <3>6. \A i \in 1..n : (1 + i) \in 1..(1 + n)
            BY <3>1
        <3> DEFINE rows2 == before \o after
        <3>7. rows2 = table'[t] /\ DOMAIN rows2 = 1..(1 + n)
            BY <3>2, <3>5, SeqFacts
        <3> HIDE DEF rows2
        <3>8. ToSet(rows) \subseteq ToSet(rows2)
            <4>1. DOMAIN rows = 1..n
                BY <3>1
            <4>2. \A i \in 1..n : rows[i] = rows2[1 + i]
                BY <3>5 DEF rows2
            <4> HIDE DEF n
            <4>3. QED  BY <3>6, <3>7, <4>1, <4>2 DEF ToSet
        <3>9. QED  BY <2>1, <2>3, <3>7, <3>8 DEF ArchivedListed, rows
    <2>4. QED  BY <2>2, <2>3
<1>3. ASSUME NEW m \in Recallable, Archive(m) PROVE ArchivedListed'
    BY <1>3 DEF Archive, ArchivedListed, Recallable
<1>4. CASE Daemon
    BY <1>2, <1>3, <1>4 DEF Daemon
<1>5. CASE Key
    BY <1>1, <1>5 DEF Key, Move, Enter, Recenter, Back, SwitchTab, Refresh, StartSearch,
       LeaveSearch, SubmitSearch
<1>6. QED  BY <1>1, <1>4, <1>5 DEF ConsoleNext, consoleVars

(* The lists and the views keep each other: a list has its rows in the     *)
(* order of its table and a selection on it, and every view opens on rows  *)
(* that were there (tui.rs: refresh, load_more, open_selected).            *)
THEOREM ConsoleInvariant == ConsoleSpec => []ConsoleInv
<1>1. ConsoleInit => ConsoleInv
    <2>1. ConsoleInit => ArchivedListed
        BY DEF ConsoleInit, ArchivedListed
    <2>2. QED  BY <2>1, ListsInit, ViewsInit DEF ConsoleInv
<1>2. ConsoleInv /\ [ConsoleNext]_consoleVars => ConsoleInv'
    BY ListsStep, ViewsStep, ArchivedKept DEF ConsoleInv
<1>3. QED  BY <1>1, <1>2, PTL DEF ConsoleSpec

(* Every list, view and selection keeps its kind, over any number of rows  *)
(* and levels (the fields of App in tui.rs).                               *)
THEOREM ConsoleTypeCorrect == ConsoleSpec => []ConsoleTypeOK
<1>1. ConsoleInv => ConsoleTypeOK
    BY DEF ConsoleInv, ListInv, ViewInv, ArchivedListed, ConsoleTypeOK
<1>2. QED  BY <1>1, ConsoleInvariant, PTL

(* Whatever is refreshed, searched, paged, opened or closed, the list that *)
(* has the keys is the one drawn and its selection is one of its rows      *)
(* (tui.rs: draw, move_selection).                                         *)
THEOREM KeysAlwaysReachRows == ConsoleSpec => []KeysReachRows
<1>1. ConsoleInv => KeysReachRows
    BY FocusShown DEF ConsoleInv, ListInv, ViewInv, KeysReachRows
<1>2. QED  BY <1>1, ConsoleInvariant, PTL

(* For tables and pages of any size, pages read by offset join up with no  *)
(* row twice and none skipped while the table does not change (load_more). *)
THEOREM PagesJoinUp == ConsoleSpec => []PagesContiguous
<1>1. ConsoleInv => PagesContiguous
    BY DEF ConsoleInv, ListInv
<1>2. QED  BY <1>1, ConsoleInvariant, PTL

(* A list that asks for no further page is whole, if its table fits the    *)
(* largest page and did not change (load_more, refresh).                   *)
THEOREM NothingBeyondTheEnd == ConsoleSpec => []EndIsTheEnd
<1>1. ConsoleInv => EndIsTheEnd
    BY DEF ConsoleInv, ListInv
<1>2. QED  BY <1>1, ConsoleInvariant, PTL

=============================================================================
