# memoryd in TLA+

TLA+ models of memoryd (a local memory daemon: capture, durable embed queue,
dream passes, recall, import, HTTP, MCP, terminal viewer, agent set-up), the TLC configurations that check them, and
proofs that TLAPS checks. Paths below are relative to the repository root;
`store.rs`, `worker.rs`, `writer.rs`, `dream.rs`, `import.rs`, `importers.rs`,
`config.rs`, `adapters.rs` and `openaicompat.rs` are in `crates/memoryd-core/src`;
`main.rs`, `mcp.rs`, `import_sources.rs`, `hook.rs`, `integrate.rs` and `tui.rs` in
`crates/memoryd/src`.

`PROJECT.json` lists the components, the runs with their properties, a mutant of
the code for each property (a plausible bug the property must catch), the source
lines each definition models, the hazards and the theorems.

To check one run: `tlc -config DreamPassOne.cfg MCDreamPass.tla`. To check the
proofs of a module: `tlapm DreamPassProofs.tla`.

## Inventory of the system

memoryd keeps everything in one SQLite database (WAL). Each process, and each
thread of the daemon except those that share the writer actor, opens its own
connection, so the unit of atomicity is the SQL transaction, and between two
transactions any other writer may come in. Several processes are normal: the
daemon, `memoryd mcp` servers started by editors, hooks, and CLI commands
(`import`, `dream`, `approve`) all open the same file.

| Component | State it keeps | Operations | Hard behaviour | What makes it correct |
|---|---|---|---|---|
| Embed queue (`store.rs`, `worker.rs`) | `jobs`, `embeddings`, `provider_usage` | capture enqueues; lease, complete, fail, dead-letter; expired leases are reclaimed | at-least-once leases, late answers, crash between lease and answer, retention of leased events | queue cap, attempts bounded, a job settles once, a done job has its vector |
| Capture (`store.rs`) | `raw_events`, `sessions` | one transaction: event, session, FTS row, job if there is room | queue at its cap (degraded ack) | an acknowledged event is stored, once |
| Writer actor (`writer.rs`) | channel of jobs, one store | run a job, reply | a job panics; the last handle is dropped | only the caller of a failed job sees an error; the queue is drained |
| Daemon (`main.rs`) | shutdown flag, connection counter, threads | accept, admit, serve, drain, join | signal at any point, drain deadline, failing accept | truthful answers, no request cut, every join returns |
| HTTP front end (`main.rs`) | per-peer throttle | look up the peer, read, authorise, route, write, record | requests of one peer overlap, a full table, rows committed before the answer | answers agree with rows, a lockout was earned |
| Consolidate, distill (`store.rs`, `dream.rs`) | `raw_events.consolidated_at`, `memories`, `sessions.status`, spend ledger | read a batch, call the provider, write | read and write in different transactions, racing passes, interruption, daily budget | no event lost or consolidated twice, budget kept, sessions settle |
| Approvals gate (`store.rs`, `dream.rs`) | `approvals`, `profile_facts` | extract, heuristics, auto-approve sweep, owner decisions | probes and sweeps read before they write; owner races sweep | a fact cites its approval, one active fact per key, rejection is durable |
| Orchestrator, associate, decay (`dream.rs`, `store.rs`) | `dream_runs`, `memories.state`, `decay_at`, links | phases under a wall clock; promote by links, age by checkpoints in batches | state read before an embedding call and written back after, the clock runs out anywhere | state is a function of age; the loop ends; a completed run left nothing out |
| Retention (`store.rs`) | all rows with an age | delete old rows in batches | deletes what another worker holds | see embed queue, import |
| Recall (`store.rs`) | cached vectors of queries | rank memories by text, vector, links | vectors stored under one model and looked up under another | what was embedded is compared |
| Import (`import.rs`, `import_sources.rs`, `store.rs`) | `import_batches`, `raw_events.content_hash` | resume a batch, stage a unit, pause at the cap | growing files, overlapping imports, crash between units, full queue | nothing stored twice, a completed batch is complete |
| Importers (`importers.rs`, `import.rs`) | none | five formats into units | interleaved parts, session changes, side chains, dates | a stored event is one turn of one session |
| Config (`config.rs`, `main.rs`) | the environment file | `setup`, environment, flags, `validate` | any combination of the three | no paid provider without a budget |
| Provider adapters (`adapters.rs`, `openaicompat.rs`) | none persistent; the fallback of the embed worker | request with retries, fallback, embed/chat split | retries nested in attempts nested in ticks; three processes each resolve an adapter | bounded requests; one embed model |
| MCP server (`mcp.rs`) | line buffer, initialised flag | read a bounded line, dispatch, reply | any split of the bytes, over-long lines, client hang-up, end of input | replies in order, nothing acknowledged is missing |
| Schema, migrations (`store.rs`) | `schema_migrations` | one transaction for all missing versions | two processes open an old file at once | events indexed exactly once |
| Vector index (`vectorindex.rs`) | in-memory index | search | approximate search | best-k of what is live |
| Hooks, CLI integration (`hook.rs`, `integrate.rs`) | config files of other agents and their backups | `integrate`, and the hooks it installs | repeated, interrupted and mixed runs, edits of the user, hooks that run at once | the user's entries and the original backup stay; one capture per event |
| TUI (`tui.rs`) | lists, selections, search, details | keys, paged reads | a database that changes between two reads, reads that fail | keys reach rows that exist; pages join up |
| Redaction (`redact` in `store.rs`), logging | none | conversions | | |

How they interact:

- Captures (HTTP, MCP, hooks, imports) write events and jobs. The embed worker
  leases jobs and, through the writer actor, settles them. `EmbedQueue` models
  the tables, `Daemon` the threads that call them.
- A dream pass reads what captures wrote and writes memories (`DreamPass`), then
  links and ages them (`Lifecycle`), then proposes and decides facts about the
  owner (`ProfileGate`), then deletes expired rows (the `RetainExpired` action of
  `EmbedQueue`, `Retain` of `Import`).
- The embed worker's and the pass's calls leave the process through the adapters
  (`Provider`, over `Adapters` and `Config`), outside any transaction. The worker
  and the pass store vectors that recall looks up.
- HTTP requests (`Http`) and MCP calls (`McpServer`) end in the same capture
  transaction; `Daemon` has the threads that serve the former.
- `integrate` installs the hooks (`AgentSetup`) that are further processes on the
  same database; the viewer (`Console`) reads it while all of them write.

The phases of a pass are separate modules because they share no variable
they both write, apart from the archival of memories, which appears in `DreamPass`
as an action of its environment (`Archive`) and in `Lifecycle` in full. The order
of the phases, their clock and the row of the run are in `Lifecycle`.

## The modules

Every module names the code of each definition in `PROJECT.json` under `map`.
Each module of state has a type invariant, `TypeOK` (`McpTypeOK`, `SetupTypeOK` and `ConsoleTypeOK` where the
proofs of several modules share one). It documents the state and is proved
for EmbedQueue, ProfileGate, DreamPass, Daemon, McpServer, AgentSetup, Console and, with one pass at a time,
Lifecycle; the runs check the properties that relate states, whose violation it would not show. Definitions with the word *Mutant* in their comment are bugs that could have been
written in place of the definition they precede; no specification uses them.

### EmbedQueue and EmbedPromise

State: the `jobs` and `raw_events` tables, the embeddings by event rowid, the leases in
the hands of each worker, a clock. Actions: `CaptureEvent` (the whole capture
transaction with the queue cap), `StartTick` and `LeaseEmbedJobs`
(the ready rows in `scheduled, id` order, expired `running` rows among them),
`Settle` (one answer: `CompleteEmbedJob` with its usage row, or `FailJob` with
backoff and dead-lettering), `Abandon` (a crash, or a tick cut by a store error),
`ConsolidatePending`, `RetainExpired` (deletes consolidated events past their
horizon; rowids are reused).

`EmbedPromise` is what a capture may rely on: at most `QueueDepth` jobs open, each
settled once. `EmbedQueue` implements it under the mapping `Outcome` (absent,
open, done, dead), leases, clock, retries and crashes hidden. With two workers it
does not; what holds then is proved (`SharedSafe`).

### DreamPass

State: events with their `consolidated_at`, sessions with status and idleness,
memories with the events they cite, the recorded spend of the trailing day, and
per pass: phase, the spend window it started from, unrecorded spend, what it has
read (`todo`) and what it will write (`prepared`). Actions: one per transaction
(`ReadEvents`, `WriteMemories`, `ReadSessions`, `WriteSummaries`) and one per
provider call (`Summarise`, `Narrate`); `Interrupt` is an error, the wall-clock cap or
the end of the process between any two of them. `CaptureEvent`, `GoIdle`,
`WindowMoves` and `Archive` are the environment.

### ProfileGate

State: memories that may lead to proposals, `approvals`, `profile_facts`, and per pass
the probed candidate and the list of approvals its sweep read. Actions: the extract phase (probe
one candidate at a time, write once), the heuristic phase (gather, propose), the
sweep (list, then decide one by one in a transaction that checks the state
again), and `OwnerDecides` at any time.

### Lifecycle

State: memories with state, age origin and checkpoint (`decay_at`), which of them
are linked; per pass its phase, when it started, whether it left a phase out, what its
`dream_runs` row says, what it has read. Actions: `StartPass`, one per phase or batch
(`Consolidate`, `Distill`, `ReadCandidates`/`WriteLinks`: associate reads a state, embeds,
writes the promotion; `ExtractAndApprove`; `ReadDue`/`WriteDecay`: one batch of the decay
loop, whose clock is read once; `RetainAndFinish`), each of which looks at the wall
clock as the code does; `CreateMemory` by others, time, interruption.

### Daemon

State: the shutdown flag, the main thread, the kernel backlog, each connection and
what it decided to answer, the counter, the writer's channel, the outcome of each
caller's job, the writer, worker and dream threads. Actions: accept and admit,
answer directly or through a job, the job committing, failing or panicking, the
counter's release on every way out of a connection thread, the drain deadline,
the three joins in their order, the writer's end when the last handle is gone.

### Http

State: whether a token is configured, the throttle's entries, per connection the stage
of its thread, its peer, the status it will answer and the row it committed. Actions: one per
step of `handle_http_connection` between which other threads run: `Admit` (the
look-up, before a byte is read), reading and its refusals, `HandleRequest` (health, authorisation, routing), `Audit`,
`Capture`, `Recall`, `Write`, `Record` (failure or success, with window, lockout and eviction). Times are
ages, so the state stays finite without a horizon. `history` is an auxiliary
variable: the recorded failures that may count towards a lockout, kept apart from
the counters of the code.

### Transcripts and Import

`Transcripts` are the readers of the five formats as functions from a sequence of
lines to a sequence of units: Claude Code's main chain and tool results, Codex's rollouts
with their session changes, OpenCode's parts grouped by message, Hermes' rows, the generic JSONL; with
truncation (not of the generic JSONL), redaction and calendar arithmetic. `TimeOf` reads the instant as each format does: a written
date for Claude Code and Codex, a number in seconds or milliseconds by its size for the two databases, milliseconds whatever
the size for a generic export (`import.rs:221-224`). `ToldLine` of `Import` says what
a line of a file tells without the readers, with a table of the months and a count of the leap years, as the reference for
`EventsAreTurns`.

`Import` has the lengths the files have now, one batch row per file, the bag of stored
units, the queue's room, each importer's position. Actions: start or
restart of an import, open a file (parse it, resume where the batch paused), stage one unit (look-up by
content hash, capture under the cap, counters: one transaction), close or pause the batch, fail
at any point; files grow, jobs settle, retention deletes.

### Config, Adapters and Provider

`Config` is a chain of functions: the answers of `setup`, the file they become, the
environment of a shell that sources it, `apply_env`, the command line, `validate`. `Adapters`
is the enumeration behind the adapter trait and how each process resolves one: default
adapter, embed adapter, the split of a dream pass, the fallback of a degraded one.

`Provider` composes them with the processes that call a provider, under one
configuration: jobs with attempts and times, the endpoint's condition, the call in
progress with its retries, the adapter of the tick, the time until which the worker
falls back, the embeddings with the model they are stamped with. Actions: `StartTick`, `Request`
(one HTTP request and what follows: settle, retry after an exponential delay or `Retry-After`, both capped, or
give up), `EmbedInProcess`, `TickFails`, which may arm the fallback, `DreamPass`, `Recall`.

### AgentSetup

State: the config files of the agents on a machine as sequences of entries (ours name their part,
binary and the name of a database), their backups, what a run has still to write, the hook
processes of an event. A name is a value of `--db`, or none; `Opens` says which database each name opens, and two names may open the
same one (the path of the default database given explicitly, `MEMORYD_DB`, another spelling: `main.rs:1158` and `default_db_path`). It is
fixed in a behaviour: `MEMORYD_DB` does not change. Actions: `Plan` (a run reads every file and computes all new
contents first), `TakeBackup` and `Install` file by file, `Stop` in between, edits of the user, an
event of an agent that starts all its hooks at once, one step of a hook (recall, then capture).

### Console

State: the rows of the tables in query order, per list the rows read, the selection
and whether more is expected; tab, search box, stack of details. Actions: one per key of `handle_key`
(with the reads it does, each of which may fail), and the daemon adding and archiving rows in between.

### McpServer and McpPromise

State: the schema version and the events of the database; per process: pipe, last
chunk read, line buffer, over-long flag, initialised flag, the reply being
written; per client: lines sent, replies read, whether it closed or hung up.
Actions: `Open` and `Migrate` (SQLite's deferred transaction: a snapshot, then an
upgrade that is refused if another process committed in between), `ReadCapped`
(one `fill_buf` round), `EndOfInput`, `Dispatch`, `WriteReply`. A line is written as its kind followed by
padding, so a line cut, glued or overrun decodes to another kind.

`McpPromise` is the client's view: lines are answered in order, each by one reply
its kind allows before or after initialisation, and a closed session ends. `McpServer` implements it, liveness
included, with bytes, buffers and store hidden.

## Runs

| Run | Question | Properties |
|---|---|---|
| EmbedQueueOneWorker | one daemon, every operation, a crash or aborted tick, retention on | `DoneIsEmbedded` `DeadOnlyWhenExhausted` `KeepsPromise` (refinement) |
| DreamPassOne | one pass at a time, interrupted, late events, an archived memory | `EventsKept` `ConsolidatedOnce` `SpendCapped` `EveryEventConsolidated` `EverySessionSettles` |
| ProfileGateOnePass | one pass at a time, interrupted, racing the owner, more memories than a pass reads | `FactsCiteApprovals` `LatestFactActive` `ProposeOnce` `RejectionDurable` `EveryKeyDecided` |
| LifecycleOnePass | whole passes under their clock, associate and decay over a whole life | `StatesCurrent` `CompletedIsCaughtUp` `DecayEnds` `EveryMemoryArchived` |
| DaemonServe | threads from start to exit | `AnswersTruthful` `NoRequestCut` `EveryConnectionEnds` `ShutdownCompletes` |
| ImportRace | two importers of each of the five formats, growing files, a cut, retention | `NeverStoredTwice` `CompletedIsStaged` `EventsAreTurns` `EveryTurnStored` |
| ProviderRequests | every configuration from a few answers, variables and flags; worker, passes and recall over a changing endpoint | `RequestsBounded` `VectorsAreRecalled` `ChatIsBudgeted` |
| McpSessions | two processes open the database, one client talks | `StoreMatchesReplies` `KeepsPromise` (refinement) |
| HooksAndHttp | two runs of `integrate` with any arguments, stopped anywhere, edits, an event; or two connections of two peers against a throttle of one entry | `OwnEntriesKept` `BackupIsOriginal` `RunsIdempotent` `CapturedOnce` `NoEcho` `AnswersMatchRows` `LockoutEarned` |
| ConsoleKeys | every sequence of keys over changing tables and failing reads | `KeysReachRows` `PagesContiguous` `EndIsTheEnd` |
| DaemonAcceptFails | violated: an accept error ends the loop and the daemon hangs | `ServeReturns` |
| ProfileGateStarves | violated: a memory beyond the first batch is never proposed | `EveryCandidateProposed` |

`MCHooksAndHttp` holds two systems that share nothing, and a behaviour is of one of them (`way`): the states are the sum, not the product.
`MCProfileGate` draws approval ids in order, which loses nothing but names (they are random and nothing orders by them), and gives one of
the two fact keys to the decisions and the other to the rest, which is a bound (a key starts with the kind of its memory).

### Bounds, and why they are enough

- *EmbedQueue*: two captures, two attempts, a clock of three ticks with a lease of
  one. A lease can expire, be reclaimed and be answered late, a deferral can fall due,
  and the second capture meets a full queue (`QueueDepth = 1`) or reuses the rowid
  of an expired event. The clock saturates at `Horizon` and time differences with it,
  so that no behaviour stops for lack of time. One `Abandon` is enough for a lease to be forgotten in each of
  the places it can be.
- *DreamPass*: three events against a batch of two, so a batch is full, cut and
  followed by another; two sessions against a page of one; two memories make a
session worth a narrative; a sweep that closes one small session; one text so that clusters have two members. The budget of three pays a narrative
  and a summary, and binds in most behaviours. One interruption, one archived memory.
- *ProfileGate*: three memories against a batch of two, so that one is left out of every batch; two fact keys and one heuristic key, three
  approvals, one heuristic of a pass at most, one interruption. ProfileGateStarves has two memories and a batch of one.
- *Lifecycle*: three memories against a decay batch of one and an associate batch of two;
  thresholds in ticks (half-life 1, dormant 2, archive 4), a horizon past all of them,
  a wall clock of two ticks that can run out before, in and after each loop.
- *Daemon*: three clients against two connection threads, so the counter is full
  with one connection waiting; closed connections return, so nothing ends by exhaustion.
- *Http*: two connections, so a look-up, an answer and a record of one peer can surround those
  of the other; two failures to a lockout, window and lockout of two ticks; a table of one
  entry, so the second peer evicts the first. One peer is loopback, the other not.
- *Import*: histories of two or more lines per format, with a repeated text in two files, a side chain, a
  bad line, a secret, interleaved parts, a dropped role, a session change, a text over the cap, instants at a leap day
  and a turn of the year, a number where a date is expected, a date where a number is, and an export with seconds for milliseconds; a queue of one job, one failure, one sweep.
- *Provider*: seven answers to `setup` over three shells, three command lines (those that `validate` refuses do
  not start); two jobs, two retries, two attempts, one store error.
- *AgentSetup*: each agent with two files alone and the two with one file together; two runs, so that every
  mode, binary and database follows every other; two names of one database; one edit, one event.
- *Console*: pages of one row and a store limit of two, so that paging, its last page and the
  limit are all met by three memories; details two deep.
- *McpServer*: two lines of sizes up to the limit and one byte over, chunks of at most
  two bytes, so every line can be split before, at and after its newline and two
  lines can share a chunk. A second process only opens. An event of an old release
  holds the one queue slot, so both `stored` and `degraded` acknowledgements occur.

Deadlock is checked except in Daemon (the daemon exits), McpSessions
(sessions end) and HooksAndHttp (the user stops running `integrate`). Only ProviderRequests uses symmetry, and it has no liveness property.

### Fairness

- Loops of the code are weakly fair: the worker thread's `tick`, the dream
  thread's interval (`main.rs` starts a pass again and again), the main, writer and
  connection threads of the daemon. Their calls return because sockets, HTTP
  requests and SQLite's busy handler have timeouts.
- Time passes.
- Import is not a loop: `EveryTurnStored` assumes that the user starts the import
  again (`import_sources.rs:261`: a paused run is resumed by a re-run), and that
  no field of a unit is refused (`store.rs:387-389`: a refused unit would end the import in every run).
- Clients owe nothing: not to write, to close or to read. An MCP process runs
  whenever it has something to do, and waits otherwise.
- No environment action (`Abandon`, `Interrupt`, `Fail`, `OwnerDecides`) is fair.
- `Http`, `Provider`, `AgentSetup` and `Console` claim safety only and state no
  fairness: a client need not write, an endpoint need not recover, a user need not
  press a key.

## What is proved

TLC checks the instances above; the theorems hold for every value of the
constants that satisfies the named assumptions of the module (numbers are
natural, batch sizes positive where the code makes them so, names distinct).

### EmbedQueueProofs

- `TypeCorrect`: any workers and caps. `OneWorkerRefines`, `OneWorkerSafe` and the
  rest depend on it.
- `OneWorkerSafe`, `OneWorkerSettlesOnce`, `OneWorkerRefines`: under the
  assumption `OneWorker`, the cap holds, a job is leased at most `MaxAttempts` times plus once
  per crash, a settled job keeps its state, and every step is a step or stutter of
  `EmbedPromise`. Neither follows from the cap alone. The invariant `OneWorkerInv`
  adds what a lease knows of its row: with one worker a lease in hand always
  matches a `running` row with the same attempt count (`LeasesSound`,
  `LeasesCurrent`), because the only process that could reclaim it is the one
  that holds it.
- `SharedSafe`: any number of workers. `SharedInv` counts: usage rows plus leases
  in hand never exceed attempts taken, so a late answer may repeat work but not
  invent it, and a dead job has used all its attempts.

- `OneWorkerEmbeds`: with one worker, a done job of an event that is still there has left the vector of that
  event's own text, although rowids are reused. `EventsJoined` joins a live event and its job by both rows;
  `LeasesFresh` says that a lease in hand carries the text of its event, or is of an older owner of the
  rowid, whose late vector is written over because the present owner's job is not done.

### ProfileGateProofs

`GateTypeCorrect`, `FactsCite`, `LatestActive` and `DecisionsFinal` hold for any number of racing
passes and owners: the transaction of a decision reads the state again. For one
pass at a time (`OnePass`), interrupted anywhere, `OnePassProposesOnce` and
`OnePassRejectionDurable` rest on `PreparedFresh`: a key about to be proposed has no
approval and no active fact. TLC runs one pass; the theorems for several passes cover what
TLC does not enumerate here.

### DreamPassProofs

- `DreamTypeCorrect` (any passes) also shows that what a pass carries is finite, which
  makes costs natural numbers.
- `NoEventLost`: marks and episodes are written in one transaction, so however many passes race,
  a marked event is a source of an episode.
- `OnePassConsolidatesOnce`: `ConsolidatedOnce` is not inductive. `BatchFresh` says that
  what the only pass has read is unmarked and in one item only (clusters are
  disjoint because the first event of each is the least of its text), and `EpisodesMarked` that
  episodes cite marked events, so the batch meets no episode when it is written.
- `OnePassSpendCapped`: `SpendTracked` says that the window a pass read covers what is
  recorded and what it owes, so a call affordable against the window is affordable
  against the ledger, even while old spend leaves it.

### ServerProofs

Http, for any number of connections and peers, any limits and any size of the table:

- `AnswersAgree`: `Consistent` adds to `AnswersMatchRows` that no row is there before the answer is decided,
  and that a thread that captures was authorised.
- `LockoutsEarned`: `LockoutEarned` is about steps, and rests on `Accounted`: the count
  of an entry never exceeds the failures of its peer recorded since its last success or
  lockout, and those it counts are no older than its window. The invariant stands
  whatever a full table evicts (an evicted count starts again at zero) and whoever records a failure.
  `LockGrows` then leaves one step that can start a lockout.

McpServer, for any number of servers and lines and any input of the clients:

- `McpTypeCorrect`, and `StoreMatches`: the store has an event for each acknowledgement a client was told and a
  job for each `stored`. Both sides grow in the step that handles a line (the reply in hand counts as
  told, whether it can be written or not), so the proof counts two sets at once. `SchemaSound` adds that nobody serves before
  the schema is current and that a server's snapshot of it is never ahead.
- `SessionsKeepPromise`: every step of a process and its client is a step of McpPromise or hidden from it.
  `SessionInv` (`SessionsFramed`) says where the client's lines are: the bytes ahead of the process are its
  lines after the first `k`, at increasing positions, the first of them perhaps
  begun (`Cut`); what is kept is what was read of the current line, or the line is over the limit (`Held`); and the
  replies so far are as many as the requests among the lines dealt with, whose
  `ready` has opened the gate (`DealtWith`). Then the line a process handles is the one whose
  reply is due, and the end of input is reached with every request answered.

### LifecycleProofs

With one pass at a time (`OnePass`; with two, TLC finds a counterexample, see the hazards), for any ages,
batch sizes, wall clock and number of memories:

- `OnePassStatesCurrent`: that a state is of its age is not inductive. `RowsCurrent` says of each
  row when it entered its state and that its checkpoint is where the next one begins;
  `ReadCurrent` that what a pass writes back is what it read, since only creations
  come between.
- `OnePassCompletedIsCaughtUp`: `Reported` says that a phase is left out only of a pass that is
  over time, so a decay loop that ends within its time has left out none, and that nothing due at the decay clock is left
  after the empty batch; memories created later are not due at it.

### DaemonProofs

For any number of connections, any maximum and any worker concurrency:

- `AnswersAreTruthful`: `QueueOnce` says that the writer's channel holds one job of each waiting
  caller and no other, so an outcome is of the caller's own job; `WriterLast` that the writer
  ends after the last handle, so a reply channel is never dropped with the writer.
- `ConnectionsCounted`: the counter of the accept loop is the number of threads started and not ended
  (`ActiveCounted`), so it never falls below zero and bounds the threads; `TickSound` does the same
  for the jobs left in a worker's tick.
- `NoRequestIsCut`: from `WriterLast`, whatever the drain deadline cut short.

### ImportProofs

For any lines in any of the five formats, any number of importers that race, fail and start again, a queue of
any size and any retention, assuming that the rows of one OpenCode message have one role (it is read
from the message's data) and that the mark of a shortened text is no secret:

- `ImportsNeverStoreTwice`: `NeverStoredTwice` is inductive, given that an event has the hash its unit was
  looked up with (`StoredHash`: a redacted text is not redacted further).
- `ImportedEventsAreTurns`: `ImportShape` says where the units of an importer come from: the reading of a
  beginning of its file. The proof is then about the readers. `ParseDrawn`, one lemma per format, says that each unit they
  make was told in the file: in one line, or for OpenCode in the lines of one turn, with the
  speaker, the session named last before it and the instant its format gives a line of it; `Accumulates` is the
  invariant of the fold over the parts of OpenCode. `DaysAgree` says that `days_from_civil` counts the days by
  the calendar for every year, and `WrittenAgree` that an offset and a date out of range are treated alike.
- `CompletedImportsAreStaged`: `AloneInv` adds to the property, for a file whose imports never overlapped, that the row
  of an import under way counts exactly the units before its place (`Counted`), each stored or
  deleted since, and that a completed row covers what was read at some length (`Covered`). Without it
  the counters of a row that is started again would say nothing of where the importer is. `ParseStarts`
  says that what is read of a file that has grown begins with what was read before, for every agent but OpenCode, whose
  messages grow (the property claims only the counters there).

The lemmas about the readers need induction over the lines, and the induction theorems of the
library take an operator. They are proved by the least counterexample: the set of lengths at which a
claim fails is a set of naturals, so it has a least element, and the step leaves it none (`Counting`). What a
recursive function computes is unfolded once, from its existence (`Recursion`). Neither
needs to know how `SetToSortSeq` sorts: any order of the messages gives the same turns.

### ClientProofs

The processes that call a provider, and what runs outside the daemon.

- Provider, for any environments, flags, jobs, delays and caps:
  - `RequestsAreBounded`: `RequestsBounded` says nothing of a job between two requests. The
    invariant `Nested` adds what has been paid: a leased job has cost a full call
    for each attempt but the current one and the tries of the call under way
    (`Paid`), the call under way is of a leased job and a remote adapter
    (`CallIsLeased`), and a job that can be leased again has an attempt left, or a
    failed tick to thank for it (`AttemptsBounded`).
  - `RecallFindsVectors`: `Stamped` says that every vector outside a fallback, of an event or of a memory, has the model of
    the embed adapter. It rests on `AdaptersWhole` and `DreamModel`: only a dream pass has a
    split adapter, and the split embeds under its embed side whatever the chat side has become.
  - `ChatsAreBudgeted`: only the default adapter chats, and `validate` saw its budget;
    `SpendCapIsRead` follows the cap from the variable to the configuration.
- AgentSetup, for any sequence of runs with whatever arguments, edits, interruptions and events: `SetupInv`. Its `FileInv` adds to the
  properties that what a run has planned contains what the user has in the file
  (`OwnEntriesPlanned`), that without a backup a file of the user has no entry of memoryd
  (`OriginalUntilBackup`), that each planned file will be, and each other file is, one the run has nothing to add to (`RunSettles`),
  and that a part has one capturing entry for a name of a database in the file and in the plan (`CapturersUnique`). `HookInv` needs the
  last of these: an event has one hook for a name of a database, and, where its hooks use no other name for that database, nothing is captured
  there until it ends (`HooksApart`).
- Console, for tables and pages of any size: `ConsoleInv`. `ListInv` keeps a list a prefix of its unchanged table, from whatever
  offset the next page starts, and its selection on a row; `ViewInv` and `ArchivedListed` do the same for search results
  and details. `FocusShown` compares the two functions that choose the list with the keys and the list drawn.

### What stays with TLC

Every invariant and action property of the runs is stated by a theorem. What is only model-checked is the liveness
under fairness (`EveryEventConsolidated`, `EverySessionSettles`, `EveryKeyDecided`, `EveryTurnStored`, `DecayEnds`,
`EveryMemoryArchived`, `EveryConnectionEnds`, `ShutdownCompletes`), anything with `ENABLED`, the liveness in the two
`KeepsPromise` (their safety parts are proved), and several passes at a time in Lifecycle.

## What the code does that its docs do not say

*DaemonAcceptFails* is a run of its own: an accept error other than `WouldBlock` returns from
`serve_loop` without setting the shutdown flag (`main.rs:858`), and the join of the embed
worker then waits for ever, although the comment there says that the actor drains and exits.

*ProfileGateStarves* is the other: the extract phase reads the first `EXTRACT_BATCH` profile-relevant memories by id in every
pass, proposed or not (`store.rs:1434-1442`), so in a larger corpus the rest is never proposed while the first ones stay
recall-eligible, although `docs/ARCHITECTURE-PLAN.md:5372` says that a run proposes facts from the profile-relevant memories and
`dream.rs:72` calls the batch a cap of one run. `EveryKeyDecided` is what holds: a memory does not stay within the batch
unproposed, and no proposal stays pending.

Met while modelling, and without a run of their own:

Queue and provider

- Two daemons on one database: a late `fail_job` re-opens a job the other has
  finished (`store.rs:2720`, the update is by id only), so a job settles once, and the queue
  keeps its cap, with one worker only.
- Reclaiming an expired lease does not compare attempts with the cap, so each crash can add a
  lease beyond `job_max_attempts`, against `docs/ARCHITECTURE-PLAN.md:1861` (a job over the cap
  is parked as dead). `AttemptsBounded` states the bound that holds: the cap plus one per crash.
- Three tries of 20 s each outlive the 30 s lease (`openaicompat.rs:20-21`).
- The worker's fallback is armed by a failed tick only, and adapter errors never fail a
  tick (`worker.rs:86-96`), although the comment at `main.rs:673` wants it to spare job retries.
- `validate` looks at the default adapter alone: a remote embed adapter passes with no budget, an
  unusable URL or an empty key, against `README.md:226`; the embeds of the worker and of recall
  cost nothing in the ledger.
- The remote adapter's model id is its embed model, so the usage rows of a language
  model call name the embed model, against `adapters.rs:20-22`.
- Vectors of a fallback carry the local model; with a remote embed adapter recall never
  compares them and a done job is never embedded again. Changing the embed model between two starts orphans
  all earlier vectors; `Provider` has one configuration per behaviour.
- `setup` leaves out a retention of 0, so sourcing the new file in the same shell keeps the
  variable of an earlier one.

Dream passes

- Two passes at once can consolidate an event twice, propose a key twice, overspend
  the budget together, and bring back an archived memory (associate writes the state
  it read before the embedding call) without a checkpoint.
- Spend of a pass cut before its write is never recorded (`store.rs:736`). The `dream_runs` row of a pass that is cut or
  fails stays `running` (`dream.rs:322`); no code writes the other statuses. `CompletedIsCaughtUp` assumes that the
  wall clock does not step back.
- Recall is documented to refresh `last_accessed_at` (`store.rs:1122`, `docs/ARCHITECTURE-PLAN.md:1716`),
  and writes nothing to memories: no access revives one.
- Distillation limits its page before it drops sessions without live memories
  (`store.rs:847`), which can starve what comes later. `EverySessionSettles` excuses
  behaviours with archived memories for this reason.
- A narrative dearer than the whole budget ends the phase in every pass, and no later
  session is distilled (`store.rs:885`).
- `auto_approve` defaults to true, unlike the comment at `dream.rs:455-458`.
- Retention deletes an event with its embedding (`store.rs:1070`), but a worker that holds a lease can store the
  vector afterwards, and SQLite reuses rowids.
- Evidence created in the very millisecond of the frontier is never used (`store.rs:1604`).

Import

- The walk of import sources stops at `MAX_IMPORT_FILES` and collects the same first files on a
  later run, unlike the comment there (`import_sources.rs:23-26`). A re-import after retention stages deleted content
  again; overlapping imports of a file reset each other's counters.
- An OpenCode message imported while it is being written is stored in part, and later
  again in full. The content hash leaves the session out, so a text said in two sessions is
  stored for the first only.
- A generic export with `ts` in seconds is dated January 1970 (`import.rs:221-224` takes any integer for milliseconds), and retention
  deletes it; the importers of the databases tell seconds from milliseconds by size (`importers.rs:310-325`).

HTTP, MCP, storage

- The throttle's window is fixed, an eviction forgets a peer's failures, a health check of a local peer
  clears them, and a 401 whose answer cannot be written is not recorded: that every peer with
  enough failures is locked out is therefore not claimed.
- Two processes that open an old database at once: the second fails with a busy
  snapshot instead of waiting (`store.rs:3478`).

Agent set-up

- Entries are compared as text (`integrate.rs:250-298`), so after `integrate` and `integrate --db <path>` with the path of the same
  database two hooks capture every prompt twice in it, and the context of one may echo what the other has just captured, against
  the comment at `hook.rs:61-62`. `CapturedOnce` and `NoEcho` hold for hooks that call each database by one name
  (`CalledByOneName`), in the run and in the theorems; without that condition TLC refutes both.
- With `--db` the Stop hook of Codex has no ` dream"` to be recognised by, so each run
  appends another (`integrate.rs:545`).
- An upgrade from `--mode mcp` never installs the capture hooks of Hermes (the marker of the dream
  line is there) nor of OpenCode (the plugin is left as it is). Binaries whose path does not name memoryd are not recognised
  by the markers.
- A file is backed up the first time only; what the user writes between plan and write is
  lost, and a file created then is overwritten without a backup. A user and a project scope installed together are not modelled.

Viewer

- `refresh` asks for all rows the user had paged through, but a page holds at most 200
  (`tui.rs:287`, `store.rs:508`): beyond that `r` cuts the list and calls it complete. `EndIsTheEnd` leaves
  such tables out.
- A memory detail left open keeps j, k, g and Esc when another tab is chosen.

## What is not modelled, and why

- Text: FTS matching, tokenising, the patterns of redaction (a secret is one piece of a text, and one that
  spans two pieces is not modelled), HTTP and JSON parsing, wording of config entries. Data, without interleaving.
- Ranking of recall and the vector index: floating point and an approximate search.
- Link weights and pruning: floating point; `Lifecycle` keeps only whether a memory is linked.
- The retention of audit, usage and job rows: deletes that nothing else reads.
- OpenCode's legacy layout of one file per part is read as the current one; `MAX_IMPORT_FILES` is left out.
- Drawing and the statistics of the viewer, logging: output.
- A wall clock that steps back.
- In `McpServer`, which of two error replies a refused call gets (a protocol error or a tool result marked as one; both are
  `error`), and the schema versions between the first that indexes events and the last: versions 3 to 7 change no row the model keeps, and a database
  that stopped between two of them is taken for a current one.

## Plan

Order of work, the most important behaviour first. Done: EmbedQueue with
EmbedPromise, ProfileGate, DreamPass, Daemon, Lifecycle, McpServer with
McpPromise, Transcripts and Import, Config, Adapters and Provider, Http, AgentSetup, Console, and proofs
of each, of every safety property the runs check. What a later version could add:

1. A refinement of the dream pass: one abstract promise for events (captured, then
   cited by one memory), implemented by `DreamPass` with one pass.
2. Associate with two passes and link fan-out (the pruning of one side only of a
   symmetric link), in `Lifecycle`.
3. Best-k selection of the recall ranking against a reference definition.
4. The retention of the remaining tables.
