----------------------------- MODULE ProfileGate -----------------------------
(***************************************************************************)
(* The approvals gate (H6) of memoryd: dream passes propose profile facts  *)
(* and heuristics into the approvals table, and the owner, or the pass's   *)
(* own auto-approve sweep, decides them; accepting one commits a fact.     *)
(*                                                                         *)
(* Passes run in different processes (the daemon's scheduled dream thread, *)
(* the dream command, the session hooks) on one database.  Each write is   *)
(* one SQL transaction, hence one step; the probes that precede the write  *)
(* of extracted proposals, and the provider calls between them, are not    *)
(* part of it.                                                             *)
(***************************************************************************)
EXTENDS Integers, FiniteSets, Sequences, Functions

CONSTANTS
    Passes,         \* dream processes that may run at the same time
    MaxMemories,    \* bound: memories in a behaviour
    ApprovalIds,    \* bound: the random ids approvals may draw
    FactKeys,       \* keys profile_fact_key derives from memories
    HeuristicKeys,  \* keys of the form heuristic.<slug>
    ExtractBatch,   \* EXTRACT_BATCH: candidates read per pass
    MinInputs,      \* HEURISTIC_MIN_INPUTS
    MaxProposals,   \* HEURISTIC_MAX_PROPOSALS
    AutoApprove,    \* caps.auto_approve_profile_facts
    MaxInterrupts   \* bound: passes cut by an error, a crash or the wall clock

ASSUME GateBoundsAssumption ==
    /\ MaxMemories \in Nat
    /\ MaxInterrupts \in Nat
    /\ IsFiniteSet(ApprovalIds)

ASSUME GateCapsAssumption ==
    /\ ExtractBatch \in Nat
    /\ MinInputs \in Nat
    /\ MaxProposals \in Nat
    /\ AutoApprove \in BOOLEAN

ASSUME GateKeysAssumption == FactKeys \cap HeuristicKeys = {}

VARIABLES
    memories,       \* recall-eligible memories that feed the gate, by id
    approvals,      \* the approvals table, by id
    facts,          \* the profile_facts table, in insertion order
    phase,          \* where each pass is
    asOf,           \* the clock value a pass stamps its proposals with
    todo,           \* candidates a pass has not probed yet
    seen,           \* keys met in the current batch
    prepared,       \* memories whose proposals a pass is about to write
    sweep,          \* pending ids an auto-approve sweep still has to decide
    interrupts      \* passes cut short so far

table == <<memories, approvals, facts>>
local == <<phase, asOf, todo, seen, prepared, sweep>>
vars == <<table, local, interrupts>>

-----------------------------------------------------------------------------
MemoryIds == 1..MaxMemories
Keys == FactKeys \cup HeuristicKeys

(* "fact" stands for the kinds identity, preference and fact.              *)
Candidates == {"fact", "decision"}
Evidence == {"decision", "session_summary"}

NoMemory == [kind |-> "none", key |-> "none", created |-> 0]
NoApproval == [state |-> "absent", key |-> "none", requested |-> 0]

(* Time is counted in memories created: all that timestamps order here.    *)
Now == Cardinality({m \in MemoryIds : memories[m].kind # "none"})

Present == {a \in ApprovalIds : approvals[a].state # "absent"}
Pending == {a \in ApprovalIds : approvals[a].state = "pending"}

\* Mutant of Proposed: only pending approvals count.
ProposedPending(k) == \E a \in Pending : approvals[a].key = k

Proposed(k) == \E a \in Present : approvals[a].key = k
HasActiveFact(k) == \E i \in DOMAIN facts : facts[i].key = k /\ facts[i].state = "active"

-----------------------------------------------------------------------------
Init ==
    /\ memories = [m \in MemoryIds |-> NoMemory]
    /\ approvals = [a \in ApprovalIds |-> NoApproval]
    /\ facts = <<>>
    /\ phase = [p \in Passes |-> "idle"]
    /\ asOf = [p \in Passes |-> 0]
    /\ todo = [p \in Passes |-> {}]
    /\ seen = [p \in Passes |-> {}]
    /\ prepared = [p \in Passes |-> {}]
    /\ sweep = [p \in Passes |-> {}]
    /\ interrupts = 0

(* Consolidation or distillation stored a memory; its id is random, so it  *)
(* may come anywhere in id order. A key starts with the kind, so memories  *)
(* that share a key share a kind.                                          *)
CreateMemory ==
    /\ \E m \in MemoryIds, kind \in Candidates \cup Evidence, k \in FactKeys :
          /\ memories[m].kind = "none"
          /\ \A n \in MemoryIds : memories[n].key = k => memories[n].kind = kind
          /\ memories' = [memories EXCEPT
                ![m] = [kind |-> kind, key |-> k, created |-> Now + 1]]
    /\ UNCHANGED <<approvals, facts, local, interrupts>>

-----------------------------------------------------------------------------
(* Extract-profile phase.                                                  *)

ProfileRelevant == {m \in MemoryIds : memories[m].kind \in Candidates}

\* Mutant of IsBatch: the limit is one too small.
IsBatchShort(S) ==
    /\ S \subseteq ProfileRelevant
    /\ Cardinality(S) < ExtractBatch
    /\ S = ProfileRelevant \/ Cardinality(S) = ExtractBatch - 1
    /\ \A m \in S, n \in ProfileRelevant \ S : m < n

(* ORDER BY id LIMIT: the candidates with the smallest ids.                *)
IsBatch(S) ==
    /\ S \subseteq ProfileRelevant
    /\ Cardinality(S) <= ExtractBatch
    /\ S = ProfileRelevant \/ Cardinality(S) = ExtractBatch
    /\ \A m \in S, n \in ProfileRelevant \ S : m < n

StartExtract(p) ==
    /\ phase[p] = "idle"
    /\ \E S \in SUBSET MemoryIds :
          /\ IsBatch(S)
          /\ todo' = [todo EXCEPT ![p] = S]
          /\ phase' = [phase EXCEPT ![p] = IF S = {} THEN "extracted" ELSE "probing"]
    /\ asOf' = [asOf EXCEPT ![p] = Now]
    /\ seen' = [seen EXCEPT ![p] = {}]
    /\ prepared' = [prepared EXCEPT ![p] = {}]
    /\ UNCHANGED <<table, sweep, interrupts>>

\* Mutant of Fresh: keys already chosen in this batch are not tracked.
FreshUntracked(p, k) == ~Proposed(k) /\ ~HasActiveFact(k)

Fresh(p, k) == k \notin seen[p] /\ ~Proposed(k) /\ ~HasActiveFact(k)

(* One candidate: derive its key, look it up in both tables, and refine    *)
(* its value by a provider call if it is fresh.                            *)
ProbeCandidate(p) ==
    /\ phase[p] = "probing"
    /\ \E m \in todo[p] :
          /\ \A n \in todo[p] : m <= n
          /\ todo' = [todo EXCEPT ![p] = @ \ {m}]
          /\ seen' = [seen EXCEPT ![p] = @ \cup {memories[m].key}]
          /\ \/ /\ Fresh(p, memories[m].key)
                /\ prepared' = [prepared EXCEPT ![p] = @ \cup {m}]
             \/ /\ ~Fresh(p, memories[m].key)
                /\ UNCHANGED prepared
    /\ UNCHANGED <<table, phase, asOf, sweep, interrupts>>

Proposal(key, requested) == [state |-> "pending", key |-> key, requested |-> requested]

(* One new row per item of S, under ids drawn from the unused ones.        *)
Insert(S, keyOf, requested) ==
    \E A \in SUBSET (ApprovalIds \ Present) : \E item \in Bijection(A, S) :
        approvals' = [a \in ApprovalIds |->
            IF a \in A THEN Proposal(keyOf[item[a]], requested) ELSE approvals[a]]

(* One transaction inserts every prepared proposal, without looking again. *)
WriteProposals(p) ==
    /\ phase[p] = "probing"
    /\ todo[p] = {}
    /\ Insert(prepared[p], [m \in prepared[p] |-> memories[m].key], asOf[p])
    /\ seen' = [seen EXCEPT ![p] = {}]
    /\ prepared' = [prepared EXCEPT ![p] = {}]
    /\ phase' = [phase EXCEPT ![p] = "extracted"]
    /\ UNCHANGED <<memories, facts, asOf, todo, sweep, interrupts>>

-----------------------------------------------------------------------------
(* Heuristic-induction phase: evidence newer than the latest heuristic     *)
(* proposal, one provider call, one transaction that probes as it inserts. *)
NewerThanFrontier(m) ==
    \A a \in Present :
        approvals[a].key \in HeuristicKeys => memories[m].created > approvals[a].requested

EnoughEvidence ==
    Cardinality({m \in MemoryIds :
        memories[m].kind \in Evidence /\ NewerThanFrontier(m)}) >= MinInputs

GatherEvidence(p) ==
    /\ phase[p] = "extracted"
    /\ \/ /\ EnoughEvidence
          /\ asOf' = [asOf EXCEPT ![p] = Now]
          /\ phase' = [phase EXCEPT ![p] = "inducing"]
       \/ /\ ~EnoughEvidence
          /\ asOf' = [asOf EXCEPT ![p] = 0]
          /\ phase' = [phase EXCEPT ![p] = "induced"]
    /\ UNCHANGED <<table, todo, seen, prepared, sweep, interrupts>>

(* The provider answers with any principles, or none.                      *)
ProposeHeuristics(p) ==
    /\ phase[p] = "inducing"
    /\ \E K \in SUBSET HeuristicKeys :
          /\ Cardinality(K) <= MaxProposals
          /\ LET new == {k \in K : ~Proposed(k) /\ ~HasActiveFact(k)}
             IN  Insert(new, [k \in new |-> k], asOf[p])
    /\ asOf' = [asOf EXCEPT ![p] = 0]
    /\ phase' = [phase EXCEPT ![p] = "induced"]
    /\ UNCHANGED <<memories, facts, todo, seen, prepared, sweep, interrupts>>

-----------------------------------------------------------------------------
(* Decisions.                                                              *)

\* Mutant of Superseded: every active fact is superseded, whatever its key.
SupersededAll(k) == [i \in DOMAIN facts |-> [facts[i] EXCEPT !.state = "superseded"]]

Superseded(k) ==
    [i \in DOMAIN facts |->
        IF facts[i].key = k THEN [facts[i] EXCEPT !.state = "superseded"] ELSE facts[i]]

NewFact(a) ==
    [key |-> approvals[a].key, approval |-> a, state |-> "active"]

\* Mutant of Undecided: the state is not read again inside the transaction.
UndecidedUnchecked(a) == TRUE

Undecided(a) == approvals[a].state = "pending"

Approve(a) ==
    /\ Undecided(a)
    /\ approvals' = [approvals EXCEPT ![a].state = "approved"]
    /\ facts' = Append(Superseded(approvals[a].key), NewFact(a))

Reject(a) ==
    /\ Undecided(a)
    /\ approvals' = [approvals EXCEPT ![a].state = "rejected"]
    /\ UNCHANGED facts

(* Deciding a decided approval changes nothing.                            *)
AlreadyDecided(a) == ~Undecided(a) /\ UNCHANGED <<approvals, facts>>

DecideApproval(a, accept) ==
    \/ accept /\ Approve(a)
    \/ ~accept /\ Reject(a)
    \/ AlreadyDecided(a)

OwnerDecides ==
    /\ \E a \in Present, accept \in BOOLEAN : DecideApproval(a, accept)
    /\ UNCHANGED <<memories, local, interrupts>>

(* Auto-approve phase: the pending ids are listed once, then decided one   *)
(* transaction each, oldest request first.                                 *)
\* Mutant of Sweepable: heuristic proposals are left out.
SweepableFacts == {a \in Pending : approvals[a].key \in FactKeys}

Sweepable == Pending

StartSweep(p) ==
    /\ phase[p] = "induced"
    /\ \/ /\ AutoApprove
          /\ sweep' = [sweep EXCEPT ![p] = Sweepable]
          /\ phase' = [phase EXCEPT ![p] = "sweeping"]
       \/ /\ ~AutoApprove
          /\ phase' = [phase EXCEPT ![p] = "idle"]
          /\ UNCHANGED sweep
    /\ UNCHANGED <<table, asOf, todo, seen, prepared, interrupts>>

SweepNext(p) ==
    /\ phase[p] = "sweeping"
    /\ \E a \in sweep[p] :
          /\ \A b \in sweep[p] : approvals[a].requested <= approvals[b].requested
          /\ DecideApproval(a, TRUE)
          /\ sweep' = [sweep EXCEPT ![p] = @ \ {a}]
    /\ UNCHANGED <<memories, phase, asOf, todo, seen, prepared, interrupts>>

EndPass(p) ==
    /\ phase[p] = "sweeping"
    /\ sweep[p] = {}
    /\ phase' = [phase EXCEPT ![p] = "idle"]
    /\ UNCHANGED <<table, asOf, todo, seen, prepared, sweep, interrupts>>

(* A store or provider error (the ? of dream_once), the wall-clock cap or  *)
(* the end of the process cuts a pass between two steps.                   *)
Interrupt(p) ==
    /\ phase[p] # "idle"
    /\ interrupts < MaxInterrupts
    /\ interrupts' = interrupts + 1
    /\ phase' = [phase EXCEPT ![p] = "idle"]
    /\ asOf' = [asOf EXCEPT ![p] = 0]
    /\ todo' = [todo EXCEPT ![p] = {}]
    /\ seen' = [seen EXCEPT ![p] = {}]
    /\ prepared' = [prepared EXCEPT ![p] = {}]
    /\ sweep' = [sweep EXCEPT ![p] = {}]
    /\ UNCHANGED table

-----------------------------------------------------------------------------
PassProgress(p) ==
    \/ StartExtract(p)
    \/ ProbeCandidate(p)
    \/ WriteProposals(p)
    \/ GatherEvidence(p)
    \/ ProposeHeuristics(p)
    \/ StartSweep(p)
    \/ SweepNext(p)
    \/ EndPass(p)

Next ==
    \/ CreateMemory
    \/ OwnerDecides
    \/ \E p \in Passes : PassProgress(p) \/ Interrupt(p)

Spec == Init /\ [][Next]_vars

(* The daemon's dream thread starts a pass every interval, and every call  *)
(* of a pass returns. Nothing makes the owner decide.                      *)
FairSpec == Spec /\ \A p \in Passes : WF_vars(PassProgress(p))

-----------------------------------------------------------------------------
MemoryRow == [kind : {"none"} \cup Candidates \cup Evidence,
              key : {"none"} \cup FactKeys, created : 0..MaxMemories]
ApprovalRow == [state : {"absent", "pending", "approved", "rejected"},
                key : {"none"} \cup Keys, requested : 0..MaxMemories]
FactRow == [key : Keys, approval : ApprovalIds, state : {"active", "superseded"}]
Phases == {"idle", "probing", "extracted", "inducing", "induced", "sweeping"}

TypeOK ==
    /\ memories \in [MemoryIds -> MemoryRow]
    /\ approvals \in [ApprovalIds -> ApprovalRow]
    /\ facts \in Seq(FactRow)
    /\ phase \in [Passes -> Phases]
    /\ asOf \in [Passes -> 0..MaxMemories]
    /\ todo \in [Passes -> SUBSET MemoryIds]
    /\ seen \in [Passes -> SUBSET FactKeys]
    /\ prepared \in [Passes -> SUBSET MemoryIds]
    /\ sweep \in [Passes -> SUBSET ApprovalIds]
    /\ interrupts \in 0..MaxInterrupts
    /\ \A a \in Present : approvals[a].key \in Keys
    /\ \A p \in Passes : \A m \in todo[p] \cup prepared[p] : memories[m].kind # "none"
    /\ \A m \in MemoryIds : memories[m].kind # "none" => memories[m].key \in FactKeys
    /\ \A p \in Passes : sweep[p] \subseteq Present

-----------------------------------------------------------------------------
(* H6: every fact cites an approved approval of its own key, an approval   *)
(* is cited by one fact only (no decision commits twice), and an approved  *)
(* one is cited, so no decision is half applied.                           *)
FactsCiteApprovals ==
    /\ \A i \in DOMAIN facts :
          /\ approvals[facts[i].approval].state = "approved"
          /\ approvals[facts[i].approval].key = facts[i].key
    /\ \A i, j \in DOMAIN facts : facts[i].approval = facts[j].approval => i = j
    /\ \A a \in ApprovalIds :
          approvals[a].state = "approved" => \E i \in DOMAIN facts : facts[i].approval = a

(* The active fact of a key is the last one committed for it: the unique   *)
(* index on active facts never rejects a commit, and no key loses its fact *)
(* to the decision of another key.                                         *)
LatestFactActive ==
    \A i \in DOMAIN facts :
        facts[i].state = "active" <=>
            \A j \in DOMAIN facts : j > i => facts[j].key # facts[i].key

(* A decision is final: racing owners and sweeps cannot overturn it.       *)
DecidedOnce ==
    [][\A a \in ApprovalIds :
          approvals[a].state \in {"approved", "rejected"} =>
              approvals'[a] = approvals[a]]_vars

(* Propose once per fact_key (PROJECT-CONTEXT.md:103): a key has at most   *)
(* one approval, in any state.                                             *)
ProposeOnce ==
    \A a, b \in Present : approvals[a].key = approvals[b].key => a = b

(* A rejection is durable (store.rs:1421): once the owner rejected a key,  *)
(* no sweep and no later proposal makes a fact of it active.               *)
RejectionDurable ==
    \A a \in ApprovalIds :
        approvals[a].state = "rejected" => ~HasActiveFact(approvals[a].key)

(* What makes propose-once inductive with one pass: the proposals about to *)
(* be written have distinct, unproposed keys of the current batch, and are *)
(* only held while probing.                                                *)
PreparedFresh ==
    \A p \in Passes :
        /\ phase[p] # "probing" => prepared[p] = {}
        /\ \A m \in prepared[p] :
              /\ memories[m].key \in seen[p]
              /\ ~Proposed(memories[m].key)
        /\ \A m, n \in prepared[p] : memories[m].key = memories[n].key => m = n

OnePass == \A p, q \in Passes : p = q

(* The candidates a pass reads: rank below the limit, in id order.         *)
InBatch(m) ==
    /\ m \in ProfileRelevant
    /\ Cardinality({n \in ProfileRelevant : n < m}) < ExtractBatch

(* A memory does not stay among the candidates a pass reads without its    *)
(* key reaching the gate and, with auto-approve on, no proposal stays      *)
(* pending, whether the pass that made it was cut or not.                  *)
EveryKeyDecided ==
    /\ \A m \in MemoryIds : []<>(InBatch(m) => Proposed(memories[m].key))
    /\ \A a \in ApprovalIds : []<>(a \notin Pending)

(* What the docs promise: the passes propose facts from the durable,       *)
(* profile-relevant memories, each pass reading at most EXTRACT_BATCH of   *)
(* them (docs/ARCHITECTURE-PLAN.md:5372, dream.rs:72). False: a pass reads *)
(* the same first ids again, proposed already or not, and no pass reads a  *)
(* memory beyond them.                                                     *)
EveryCandidateProposed ==
    \A m \in MemoryIds : m \in ProfileRelevant ~> Proposed(memories[m].key)

=============================================================================
