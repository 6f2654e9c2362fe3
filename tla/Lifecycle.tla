------------------------------ MODULE Lifecycle ------------------------------
(***************************************************************************)
(* The dream pass under its wall clock, and the ageing of memories in      *)
(* memoryd: consolidation creates a memory with a checkpoint, the          *)
(* associate phase promotes linked memories, the decay phase moves them    *)
(* through the lifecycle and advances the checkpoints, and the row of the  *)
(* run tells how far the pass came (store.rs, dream.rs).                   *)
(*                                                                         *)
(* A memory's age counts from last_accessed_at, which is written when the  *)
(* memory is created and by nothing else (recall only reads): here it is   *)
(* the creation time.                                                      *)
(* Scores are a function of the age; the model keeps the ages at which     *)
(* they cross a threshold. A score falls below 0.15 at 2.73697 half-lives, *)
(* the checkpoint is at DORMANT_HALFLIFE_FACTOR = 2.737 of them: one age   *)
(* here. All memories are of one kind, one that decays.                    *)
(***************************************************************************)
EXTENDS Integers, FiniteSets

CONSTANTS
    Passes,         \* dream processes that may run at the same time
    MaxMemories,    \* bound: memories created
    HalfLife,       \* age at which decay_score falls to 0.50
    DormantAfter,   \* age at which decay_score falls below 0.15
    ArchiveAfter,   \* half_life * DORMANT_HALVINGS + ARCHIVE_GRACE
    AssociateBatch, \* ASSOCIATE_BATCH
    DecayBatch,     \* DECAY_BATCH
    MaxSeconds,     \* opts.max_seconds, in clock values
    Retaining,      \* whether a retention horizon is configured: either
    Horizon,        \* bound: the last clock value
    MaxInterrupts   \* bound: passes cut by an error or a crash

ASSUME LifecycleBoundsAssumption ==
    /\ MaxMemories \in Nat
    /\ Horizon \in Nat
    /\ MaxInterrupts \in Nat

ASSUME LifecycleAgesAssumption ==
    /\ HalfLife \in Nat \ {0} /\ DormantAfter \in Nat /\ ArchiveAfter \in Nat
    /\ HalfLife <= DormantAfter
    /\ DormantAfter <= ArchiveAfter

ASSUME LifecycleCapsAssumption ==
    /\ AssociateBatch \in Nat /\ DecayBatch \in Nat \ {0}
    /\ MaxSeconds \in Nat \ {0} /\ Retaining \subseteq BOOLEAN

VARIABLES
    now,            \* wall clock
    memories,       \* the memories table, by insertion order
    linked,         \* memories with at least one row in memory_links
    phase,          \* where each pass is
    started,        \* the clock value at which a pass began
    skipped,        \* whether a pass left out a phase
    report,         \* status of the dream_runs row of a pass's last run
    read,           \* rows a pass's associate phase has read: id and state
    decayNow,       \* the clock value of a pass's decay phase
    due,            \* ids a pass's decay phase has read
    interrupts      \* passes cut short so far

table == <<memories, linked>>
clock == <<started, skipped, report>>
local == <<phase, clock, read, decayNow, due>>
vars == <<now, table, local, interrupts>>

-----------------------------------------------------------------------------
MemoryIds == 1..MaxMemories
Time == 0..Horizon
Never == -1

NoMemory == [state |-> "absent", since |-> 0, decayAt |-> Never]
Eligible == {"active", "associated", "decaying", "dormant"}
Recallable == {m \in MemoryIds : memories[m].state \in Eligible}

StateAt(age) ==
    IF age < HalfLife THEN "active"
    ELSE IF age < DormantAfter THEN "decaying"
    ELSE IF age < ArchiveAfter THEN "dormant" ELSE "archived"

\* Mutants of NextDecayAt: the checkpoint of the next state but one; the
\* grace is forgotten.
NextDecayAtLate(state, since) ==
    CASE state = "active" -> since + DormantAfter
      [] state = "decaying" -> since + ArchiveAfter
      [] state = "dormant" -> since + ArchiveAfter
      [] OTHER -> Never
NextDecayAtNoGrace(state, since) ==
    CASE state = "active" -> since + HalfLife
      [] state = "decaying" -> since + DormantAfter
      [] state = "dormant" -> since + DormantAfter
      [] OTHER -> Never

NextDecayAt(state, since) ==
    IF state = "active" THEN since + HalfLife
    ELSE IF state = "decaying" THEN since + DormantAfter
    ELSE IF state = "dormant" THEN since + ArchiveAfter ELSE Never

Init ==
    /\ now = 0
    /\ memories = [m \in MemoryIds |-> NoMemory]
    /\ linked = {}
    /\ phase = [p \in Passes |-> "idle"]
    /\ read = [p \in Passes |-> {}]
    /\ decayNow = [p \in Passes |-> 0]
    /\ due = [p \in Passes |-> {}]
    /\ started = [p \in Passes |-> 0]
    /\ skipped = [p \in Passes |-> FALSE]
    /\ report = [p \in Passes |-> "none"]
    /\ interrupts = 0

Tick ==
    /\ now < Horizon
    /\ now' = now + 1
    /\ UNCHANGED <<table, local, interrupts>>

(* Only memories whose whole life fits under the horizon are created.      *)
CreateMemory ==
    /\ now + ArchiveAfter <= Horizon
    /\ \E m \in MemoryIds :
          /\ \A k \in MemoryIds : memories[k].state = "absent" <=> k >= m
          /\ memories' = [memories EXCEPT
                ![m] = [state |-> "active", since |-> now, decayAt |-> now + HalfLife]]
    /\ UNCHANGED <<now, linked, local, interrupts>>

-----------------------------------------------------------------------------
(* The oldest eligible memories; ids are in the order of created_at.       *)
IsCandidates(S) ==
    /\ S \subseteq Recallable
    /\ Cardinality(S) <= AssociateBatch
    /\ S = Recallable \/ Cardinality(S) = AssociateBatch
    /\ \A m \in S, n \in Recallable \ S : m < n

Over(p) == now - started[p] >= MaxSeconds

GoTo(p, to) == phase' = [phase EXCEPT ![p] = to]
Skip(p) == skipped' = [skipped EXCEPT ![p] = TRUE]

(* The row of the run is finished; budget_hit is a phase's, any of them.   *)
Finish(p, partial) ==
    /\ GoTo(p, "idle")
    /\ \E status \in IF partial THEN {"partial"} ELSE {"completed", "budget_capped"} :
          report' = [report EXCEPT ![p] = status]

BeginPass(p) ==
    /\ phase[p] = "idle"
    /\ GoTo(p, "consolidating")
    /\ started' = [started EXCEPT ![p] = now]
    /\ skipped' = [skipped EXCEPT ![p] = FALSE]
    /\ report' = [report EXCEPT ![p] = "running"]
    /\ UNCHANGED <<now, table, read, decayNow, due, interrupts>>

(* The consolidate loop; out of time, the pass ends here, partial.         *)
Consolidate(p) ==
    /\ phase[p] = "consolidating"
    /\ \/ Over(p) /\ Finish(p, TRUE) /\ Skip(p)
       \/ ~Over(p) /\ GoTo(p, "distilling") /\ UNCHANGED <<report, skipped>>
    /\ UNCHANGED <<now, table, started, read, decayNow, due, interrupts>>

Distill(p) ==
    /\ phase[p] = "distilling"
    /\ GoTo(p, "reading")
    /\ IF Over(p) THEN Skip(p) ELSE UNCHANGED skipped
    /\ UNCHANGED <<now, table, started, report, read, decayNow, due, interrupts>>

(* The associate phase reads its candidates, then embeds them outside any  *)
(* transaction.                                                            *)
ReadCandidates(p) ==
    /\ phase[p] = "reading"
    /\ \/ Over(p) /\ Skip(p) /\ GoTo(p, "extracting") /\ UNCHANGED read
       \/ /\ ~Over(p)
          /\ \E S \in SUBSET MemoryIds :
                /\ IsCandidates(S)
                /\ \/ /\ Cardinality(S) >= 2
                      /\ GoTo(p, "associating")
                      /\ read' = [read EXCEPT
                            ![p] = {[id |-> m, state |-> memories[m].state] : m \in S}]
                   \/ /\ Cardinality(S) < 2
                      /\ GoTo(p, "extracting")
                      /\ UNCHANGED read
          /\ UNCHANGED skipped
    /\ UNCHANGED <<now, table, started, report, decayNow, due, interrupts>>

\* Mutant of Promoted: every linked candidate is promoted.
PromotedAll(r, links) == IF r.id \in links THEN "associated" ELSE r.state

Promoted(r, links) ==
    IF r.id \in links /\ r.state = "active" THEN "associated" ELSE r.state

(* Sessions and cosines link any candidates, at least two of them; the     *)
(* state read earlier is written back, promoted if active and linked.      *)
WriteLinks(p) ==
    /\ phase[p] = "associating"
    /\ \E S \in SUBSET {r.id : r \in read[p]} :
          /\ Cardinality(S) # 1
          /\ linked' = linked \cup S
          /\ memories' = [m \in MemoryIds |->
                IF \E r \in read[p] : r.id = m
                THEN [memories[m] EXCEPT
                         !.state = Promoted(CHOOSE r \in read[p] : r.id = m, linked')]
                ELSE memories[m]]
    /\ read' = [read EXCEPT ![p] = {}]
    /\ GoTo(p, "extracting")
    /\ UNCHANGED <<now, clock, decayNow, due, interrupts>>

(* Profile facts, heuristics and automatic approval, then the decay phase  *)
(* begins whatever the clock says.                                         *)
ExtractAndApprove(p) ==
    /\ phase[p] = "extracting"
    /\ GoTo(p, "decaying")
    /\ decayNow' = [decayNow EXCEPT ![p] = now]
    /\ IF Over(p) THEN Skip(p) ELSE UNCHANGED skipped
    /\ UNCHANGED <<now, table, started, report, read, due, interrupts>>

-----------------------------------------------------------------------------
(* The decay phase: one clock value, batches until nothing is due.         *)
\* Mutant of DueAt: the query knows only the states decay itself writes.
DueAtDecayed(at) ==
    {m \in Recallable : /\ memories[m].state # "associated"
                        /\ memories[m].decayAt # Never /\ memories[m].decayAt <= at}

DueAt(at) ==
    {m \in Recallable : memories[m].decayAt # Never /\ memories[m].decayAt <= at}

IsDueBatch(S, at) ==
    /\ S \subseteq DueAt(at)
    /\ Cardinality(S) <= DecayBatch
    /\ S = DueAt(at) \/ Cardinality(S) = DecayBatch
    /\ \A m \in S, n \in DueAt(at) \ S : memories[m].decayAt <= memories[n].decayAt

\* Mutant of DecayOver: the decay loop runs on.
DecayOverNever(p) == FALSE

DecayOver(p) == Over(p)

ReadDue(p) ==
    /\ phase[p] = "decaying"
    /\ \/ DecayOver(p) /\ Finish(p, TRUE) /\ Skip(p) /\ UNCHANGED due
       \/ /\ ~DecayOver(p)
          /\ \E S \in SUBSET MemoryIds :
                /\ IsDueBatch(S, decayNow[p])
                /\ due' = [due EXCEPT ![p] = S]
                /\ GoTo(p, IF S = {} THEN "retaining" ELSE "writing")
          /\ UNCHANGED <<report, skipped>>
    /\ UNCHANGED <<now, table, started, read, decayNow, interrupts>>

Decayed(m, at) ==
    LET since == memories[m].since
        state == StateAt(at - since)
    IN  [state |-> state, since |-> since, decayAt |-> NextDecayAt(state, since)]

WriteDecay(p) ==
    /\ phase[p] = "writing"
    /\ memories' = [m \in MemoryIds |->
          IF m \in due[p] THEN Decayed(m, decayNow[p]) ELSE memories[m]]
    /\ due' = [due EXCEPT ![p] = {}]
    /\ GoTo(p, "decaying")
    /\ UNCHANGED <<now, linked, clock, read, decayNow, interrupts>>

(* The retention loop, when a horizon is configured, and the end.          *)
RetainAndFinish(p) ==
    /\ phase[p] = "retaining"
    /\ \E retaining \in Retaining :
          /\ Finish(p, retaining /\ Over(p))
          /\ IF retaining /\ Over(p) THEN Skip(p) ELSE UNCHANGED skipped
    /\ UNCHANGED <<now, table, started, read, decayNow, due, interrupts>>

(* A store error or the end of the process: the row stays running.         *)
Interrupt(p) ==
    /\ phase[p] # "idle"
    /\ interrupts < MaxInterrupts
    /\ interrupts' = interrupts + 1
    /\ phase' = [phase EXCEPT ![p] = "idle"]
    /\ read' = [read EXCEPT ![p] = {}]
    /\ due' = [due EXCEPT ![p] = {}]
    /\ UNCHANGED <<now, table, clock, decayNow>>

-----------------------------------------------------------------------------
PassProgress(p) ==
    \/ BeginPass(p)
    \/ Consolidate(p)
    \/ Distill(p)
    \/ ReadCandidates(p)
    \/ WriteLinks(p)
    \/ ExtractAndApprove(p)
    \/ ReadDue(p)
    \/ WriteDecay(p)
    \/ RetainAndFinish(p)

Next ==
    \/ Tick
    \/ CreateMemory
    \/ \E p \in Passes : PassProgress(p) \/ Interrupt(p)

Spec == Init /\ [][Next]_vars

(* The daemon starts a pass every interval, every call of a pass returns,  *)
(* and time passes.                                                        *)
FairSpec == Spec /\ WF_vars(Tick) /\ \A p \in Passes : WF_vars(PassProgress(p))

-----------------------------------------------------------------------------
MemoryRow == [state : {"absent", "archived"} \cup Eligible, since : Time,
              decayAt : {Never} \cup Nat]
Snapshot == [id : MemoryIds, state : Eligible]

TypeOK ==
    /\ now \in Time
    /\ memories \in [MemoryIds -> MemoryRow]
    /\ linked \subseteq MemoryIds
    /\ phase \in [Passes -> {"idle", "consolidating", "distilling", "reading", "associating",
                             "extracting", "decaying", "writing", "retaining"}]
    /\ started \in [Passes -> Time]
    /\ skipped \in [Passes -> BOOLEAN]
    /\ report \in [Passes -> {"none", "running", "completed", "budget_capped", "partial"}]
    /\ read \in [Passes -> SUBSET Snapshot]
    /\ decayNow \in [Passes -> Time]
    /\ due \in [Passes -> SUBSET MemoryIds]
    /\ interrupts \in 0..MaxInterrupts
    /\ \A m \in MemoryIds : memories[m].since <= now
    /\ \A m \in MemoryIds : memories[m].state = "archived" => memories[m].decayAt = Never

-----------------------------------------------------------------------------
Ageing(state) == IF state = "associated" THEN "active" ELSE state

(* With one pass, a memory that is not due has the state its age demands   *)
(* ("State is a pure function of age", store.rs:1121-1122): checkpoints    *)
(* and thresholds agree, and neither promotion nor an interrupted pass     *)
(* lets a state go stale unnoticed.                                        *)
StatesCurrent ==
    \A m \in MemoryIds :
        memories[m].state # "absent" /\ ~(memories[m].decayAt \in 0..now) =>
            Ageing(memories[m].state) = StateAt(now - memories[m].since)

(* The decay loop ends: no row is due again right after it was recomputed. *)
DecayEnds == \A p \in Passes : phase[p] # "idle" ~> phase[p] = "idle"

(* Every memory is archived in the end, whatever it is linked to and       *)
(* whenever passes are cut.                                                *)
EveryMemoryArchived ==
    \A m \in MemoryIds : m \in Recallable ~> memories[m].state = "archived"

(* What the row of a run says is true: unless it says partial, the pass    *)
(* left out no phase and no memory due at its decay clock is still due.    *)
CompletedIsCaughtUp ==
    \A p \in Passes :
        report[p] \in {"completed", "budget_capped"} =>
            ~skipped[p] /\ DueAt(decayNow[p]) = {}

=============================================================================
