------------------------------ MODULE DreamPass ------------------------------
(***************************************************************************)
(* The phases of a dream pass of memoryd that turn captured events into    *)
(* memories: consolidation, distillation of idle sessions, and the rolling *)
(* spend ledger both draw on (dream.rs, store.rs). Later phases of a pass  *)
(* are modelled in ProfileGate.                                            *)
(*                                                                         *)
(* Each phase reads its candidates, calls the provider for each of them    *)
(* outside any transaction, and writes everything in one transaction that  *)
(* does not read again.  Passes of several processes may interleave.       *)
(***************************************************************************)
EXTENDS Integers, FiniteSets

CONSTANTS
    Passes,             \* dream processes that may run at the same time
    MaxEvents,          \* bound: captured events
    Sessions,           \* session numbers, in started_at order
    Texts,              \* normalised event texts
    ConsolidateBatch,   \* CONSOLIDATE_BATCH
    SessionsPerPass,    \* DISTILL_SESSIONS_PER_PASS
    MinMemories,        \* DISTILL_MIN_MEMORIES
    SweepLimit,         \* small sessions closed by one pass
    ChatAdapter,        \* whether the adapter answers summarize and distill
    Price,              \* estimated cost of one text
    Budget,             \* budget_usd, in the same unit
    MaxArchived,        \* bound: memories archived by the decay phase
    MaxInterrupts       \* bound: passes cut by an error, a crash or the clock

ASSUME DreamBoundsAssumption ==
    /\ MaxEvents \in Nat
    /\ MaxArchived \in Nat
    /\ MaxInterrupts \in Nat
    /\ IsFiniteSet(Sessions) /\ Sessions \subseteq Nat

ASSUME DreamCapsAssumption ==
    /\ ConsolidateBatch \in Nat \ {0}
    /\ SessionsPerPass \in Nat
    /\ MinMemories \in Nat
    /\ SweepLimit \in Nat
    /\ ChatAdapter \in BOOLEAN
    /\ Price \in Nat
    /\ Budget \in Nat

VARIABLES
    events,         \* raw_events, by id
    sessions,       \* the status of each session
    idle,           \* sessions whose newest event is older than the idle time
    memories,       \* the memories table
    archived,       \* ids of memories no longer recall-eligible
    ledger,         \* spend recorded in provider_usage in the trailing window
    phase,          \* where each pass is
    window,         \* window_spend of each pass
    unbilled,       \* spend of a pass not yet recorded
    todo,           \* items a pass has read and not yet sent to the provider
    prepared,       \* items a pass will write
    interrupts      \* passes cut short so far

store == <<events, sessions, idle, memories, archived>>
local == <<phase, window, unbilled, todo, prepared>>
vars == <<store, ledger, local, interrupts>>

-----------------------------------------------------------------------------
EventIds == 1..MaxEvents
NoEvent == [session |-> 0, text |-> "none", consolidated |-> FALSE]
Captured == {e \in EventIds : events[e].text # "none"}

\* Mutant of Unconsolidated: events of settled sessions are left out.
UnconsolidatedOpen ==
    {e \in Captured : ~events[e].consolidated /\ sessions[events[e].session] = "open"}

Unconsolidated == {e \in Captured : ~events[e].consolidated}

(* Memory ids are random; here a memory is named by the transaction that   *)
(* inserted it and the item it came from.                                  *)
NextTx == Cardinality({m.tx : m \in memories}) + 1
Id(m) == <<m.tx, m.kind, m.first>>

NewMemories(p, kind) ==
    {[tx |-> NextTx, kind |-> kind, first |-> i.first, session |-> i.session,
      sources |-> i.sources] : i \in prepared[p]}

Episodes(s) == {m \in memories : m.kind = "episode" /\ m.session = s}
LiveMembers(s) == {Id(m) : m \in Episodes(s)} \ archived

-----------------------------------------------------------------------------
Init ==
    /\ events = [e \in EventIds |-> NoEvent]
    /\ sessions = [s \in Sessions |-> "none"]
    /\ idle = [s \in Sessions |-> FALSE]
    /\ memories = {}
    /\ archived = {}
    /\ ledger = 0
    /\ phase = [p \in Passes |-> "idle"]
    /\ window = [p \in Passes |-> 0]
    /\ unbilled = [p \in Passes |-> 0]
    /\ todo = [p \in Passes |-> {}]
    /\ prepared = [p \in Passes |-> {}]
    /\ interrupts = 0

StatusAfterCapture(s) == IF sessions[s] = "none" THEN "open" ELSE sessions[s]

(* A capture or an imported unit. Its timestamp is the client's, so a late *)
(* one does not wake an idle session.                                      *)
CaptureEvent ==
    /\ \E e \in EventIds, s \in Sessions, t \in Texts, late \in BOOLEAN :
          /\ Captured = 1..(e - 1)
          /\ events' = [events EXCEPT
                ![e] = [session |-> s, text |-> t, consolidated |-> FALSE]]
          /\ sessions' = [sessions EXCEPT ![s] = StatusAfterCapture(s)]
          /\ idle' = [idle EXCEPT ![s] = late /\ (@ \/ sessions[s] = "none")]
    /\ UNCHANGED <<memories, archived, ledger, local, interrupts>>

GoIdle ==
    /\ \E s \in Sessions :
          /\ sessions[s] # "none"
          /\ ~idle[s]
          /\ idle' = [idle EXCEPT ![s] = TRUE]
    /\ UNCHANGED <<events, sessions, memories, archived, ledger, local, interrupts>>

(* The oldest recorded spend leaves the trailing 24 hours.                 *)
WindowMoves ==
    /\ ledger > 0
    /\ ledger' = ledger - 1
    /\ UNCHANGED <<store, local, interrupts>>

(* A decay phase archives a memory nobody used.                            *)
Archive ==
    /\ Cardinality(archived) < MaxArchived
    /\ \E m \in memories : Id(m) \notin archived /\ archived' = archived \cup {Id(m)}
    /\ UNCHANGED <<events, sessions, idle, memories, ledger, local, interrupts>>

-----------------------------------------------------------------------------
StartPass(p) ==
    /\ phase[p] = "idle"
    /\ phase' = [phase EXCEPT ![p] = "consolidating"]
    /\ window' = [window EXCEPT ![p] = ledger]
    /\ UNCHANGED <<store, ledger, unbilled, todo, prepared, interrupts>>

(* Consolidation: the unconsolidated events with the smallest ids.         *)
IsBatch(S) ==
    /\ S \subseteq Unconsolidated
    /\ Cardinality(S) <= ConsolidateBatch
    /\ S = Unconsolidated \/ Cardinality(S) = ConsolidateBatch
    /\ \A e \in S, d \in Unconsolidated \ S : e < d

(* Events of one batch with the same text form one item, of the session of *)
(* the first of them.                                                      *)
SameText(S, e) == {d \in S : events[d].text = events[e].text}

Clusters(S) ==
    {[first |-> e, session |-> events[e].session, sources |-> SameText(S, e)] :
        e \in {d \in S : \A c \in SameText(S, d) : d <= c}}

ReadEvents(p) ==
    /\ phase[p] = "consolidating"
    /\ \E S \in SUBSET EventIds :
          /\ IsBatch(S)
          /\ todo' = [todo EXCEPT ![p] = Clusters(S)]
          /\ phase' = [phase EXCEPT ![p] = IF S = {} THEN "distilling" ELSE "summarising"]
    /\ UNCHANGED <<store, ledger, window, unbilled, prepared, interrupts>>

IsNext(p, i) == i \in todo[p] /\ \A j \in todo[p] : i.first <= j.first

\* Mutant of Affordable: the cost of the call is not added.
AffordableBefore(p, cost) == window[p] <= Budget

Affordable(p, cost) == window[p] + cost <= Budget

Charge(p, cost) ==
    /\ window' = [window EXCEPT ![p] = @ + cost]
    /\ unbilled' = [unbilled EXCEPT ![p] = @ + cost]

(* One cluster: a paid or free summary, or, over budget or without a chat  *)
(* adapter, its own text.                                                  *)
Summarise(p) ==
    /\ phase[p] = "summarising"
    /\ \E i \in todo[p] :
          /\ IsNext(p, i)
          /\ todo' = [todo EXCEPT ![p] = @ \ {i}]
          /\ prepared' = [prepared EXCEPT ![p] = @ \cup {i}]
    /\ \/ /\ ChatAdapter /\ Affordable(p, Price)
          /\ Charge(p, Price)
       \/ /\ ~(ChatAdapter /\ Affordable(p, Price))
          /\ UNCHANGED <<window, unbilled>>
    /\ UNCHANGED <<store, ledger, phase, interrupts>>

\* Mutants of Consumed: all events are marked, or only the representatives.
ConsumedAll(p) == Captured
ConsumedFirsts(p) == {i.first : i \in prepared[p]}

Consumed(p) == UNION {i.sources : i \in prepared[p]}

Bill(p) ==
    /\ ledger' = ledger + unbilled[p]
    /\ unbilled' = [unbilled EXCEPT ![p] = 0]
    /\ prepared' = [prepared EXCEPT ![p] = {}]

(* One transaction: the memories, their usage rows, and the marks on every *)
(* event read, whoever marked it meanwhile. A full batch reads again.      *)
WriteMemories(p) ==
    /\ phase[p] = "summarising"
    /\ todo[p] = {}
    /\ memories' = memories \cup NewMemories(p, "episode")
    /\ events' = [e \in EventIds |->
          IF e \in Consumed(p) THEN [events[e] EXCEPT !.consolidated = TRUE] ELSE events[e]]
    /\ phase' = [phase EXCEPT ![p] =
          IF Cardinality(Consumed(p)) < ConsolidateBatch
          THEN "distilling" ELSE "consolidating"]
    /\ Bill(p)
    /\ UNCHANGED <<sessions, idle, archived, window, todo, interrupts>>

-----------------------------------------------------------------------------
(* Distillation.                                                           *)
Quiet(s) ==
    /\ sessions[s] = "open"
    /\ idle[s]
    /\ \A e \in Unconsolidated : events[e].session # s

Candidates == {s \in Sessions : Quiet(s) /\ Cardinality(Episodes(s)) >= MinMemories}

\* Mutant of TooSmall: sessions one memory short are not swept.
TooSmallStrict == {s \in Sessions : Quiet(s) /\ Cardinality(Episodes(s)) < MinMemories - 1}

TooSmall == {s \in Sessions : Quiet(s) /\ Cardinality(Episodes(s)) < MinMemories}

(* The sweep has a limit and no order.                                     *)
IsSweep(S) ==
    /\ S \subseteq TooSmall
    /\ Cardinality(S) <= SweepLimit
    /\ S = TooSmall \/ Cardinality(S) = SweepLimit

IsPage(S) ==
    /\ S \subseteq Candidates
    /\ Cardinality(S) <= SessionsPerPass
    /\ S = Candidates \/ Cardinality(S) = SessionsPerPass
    /\ \A s \in S, t \in Candidates \ S : s < t

(* Candidates without recall-eligible members are dropped after the limit  *)
(* was applied. The cap on members per narrative is left out.              *)
ReadSessions(p) ==
    /\ phase[p] = "distilling"
    /\ \E S \in SUBSET Sessions :
          /\ IsPage(S)
          /\ todo' = [todo EXCEPT ![p] =
                {[first |-> s, session |-> s, sources |-> LiveMembers(s)] :
                    s \in {t \in S : LiveMembers(t) # {}}}]
    /\ phase' = [phase EXCEPT ![p] = "narrating"]
    /\ UNCHANGED <<store, ledger, window, unbilled, prepared, interrupts>>

(* One session: its narrative, or the end of the phase when the budget     *)
(* binds or nobody can write narratives.                                   *)
Narrate(p) ==
    /\ phase[p] = "narrating"
    /\ \E i \in todo[p] :
          LET cost == Price * Cardinality(i.sources)
              goesOn == ChatAdapter /\ (Price = 0 \/ Affordable(p, cost))
          IN  /\ IsNext(p, i)
              /\ \/ /\ goesOn
                    /\ todo' = [todo EXCEPT ![p] = @ \ {i}]
                    /\ prepared' = [prepared EXCEPT ![p] = @ \cup {i}]
                    /\ Charge(p, cost)
                 \/ /\ ~goesOn
                    /\ todo' = [todo EXCEPT ![p] = {}]
                    /\ UNCHANGED <<prepared, window, unbilled>>
    /\ UNCHANGED <<store, ledger, phase, interrupts>>

(* One transaction: the sweep of small sessions, then the narratives.      *)
WriteSummaries(p) ==
    /\ phase[p] = "narrating"
    /\ todo[p] = {}
    /\ memories' = memories \cup NewMemories(p, "summary")
    /\ \E S \in SUBSET Sessions :
          /\ IsSweep(S)
          /\ sessions' = [s \in Sessions |->
                IF \E i \in prepared[p] : i.session = s THEN "consolidated"
                ELSE IF s \in S THEN "closed" ELSE sessions[s]]
    /\ phase' = [phase EXCEPT ![p] = "idle"]
    /\ Bill(p)
    /\ UNCHANGED <<events, idle, archived, window, todo, interrupts>>

(* A store or provider error (the ? of dream_once), the wall-clock cap or  *)
(* the end of the process: what was paid and not recorded is forgotten.    *)
Interrupt(p) ==
    /\ phase[p] # "idle"
    /\ interrupts < MaxInterrupts
    /\ interrupts' = interrupts + 1
    /\ phase' = [phase EXCEPT ![p] = "idle"]
    /\ unbilled' = [unbilled EXCEPT ![p] = 0]
    /\ todo' = [todo EXCEPT ![p] = {}]
    /\ prepared' = [prepared EXCEPT ![p] = {}]
    /\ UNCHANGED <<store, ledger, window>>

-----------------------------------------------------------------------------
PassProgress(p) ==
    \/ StartPass(p)
    \/ ReadEvents(p)
    \/ Summarise(p)
    \/ WriteMemories(p)
    \/ ReadSessions(p)
    \/ Narrate(p)
    \/ WriteSummaries(p)

Next ==
    \/ CaptureEvent
    \/ GoIdle
    \/ WindowMoves
    \/ Archive
    \/ \E p \in Passes : PassProgress(p) \/ Interrupt(p)

Spec == Init /\ [][Next]_vars

(* The daemon starts a pass every interval, every call of a pass returns,  *)
(* and time passes.                                                        *)
FairSpec ==
    /\ Spec
    /\ WF_vars(GoIdle)
    /\ WF_vars(WindowMoves)
    /\ \A p \in Passes : WF_vars(PassProgress(p))

-----------------------------------------------------------------------------
EventRow == [session : {0} \cup Sessions, text : {"none"} \cup Texts, consolidated : BOOLEAN]
Statuses == {"none", "open", "closed", "consolidated"}
Phases == {"idle", "consolidating", "summarising", "distilling", "narrating"}

TypeOK ==
    /\ events \in [EventIds -> EventRow]
    /\ sessions \in [Sessions -> Statuses]
    /\ idle \in [Sessions -> BOOLEAN]
    /\ \A m \in memories : m.kind \in {"episode", "summary"} /\ m.session \in Sessions
    /\ ledger \in Nat
    /\ phase \in [Passes -> Phases]
    /\ window \in [Passes -> Nat]
    /\ unbilled \in [Passes -> Nat]
    /\ interrupts \in 0..MaxInterrupts
    /\ DOMAIN todo = Passes /\ DOMAIN prepared = Passes
    /\ \A e \in Captured : sessions[events[e].session] # "none"
    /\ \A p \in Passes : \A i \in todo[p] \cup prepared[p] : i.session \in Sessions

-----------------------------------------------------------------------------
(* No captured event is lost: an event marked consolidated is a source of  *)
(* a memory, whatever pass marked it and whichever was cut short.          *)
EventsKept ==
    \A e \in Captured :
        events[e].consolidated =>
            \E m \in memories : m.kind = "episode" /\ e \in m.sources

(* With one pass no event is consolidated twice ("a crash mid-run never    *)
(* double-applies", docs/ARCHITECTURE-PLAN.md:1858).                       *)
ConsolidatedOnce ==
    \A m, n \in memories :
        m.kind = "episode" /\ n.kind = "episode" /\ m.sources \cap n.sources # {} => m = n

(* "`budget_usd` is a rolling daily cap across passes" (dream.rs:327-331): *)
(* recorded spend of the window and a running pass's calls stay within it. *)
SpendCapped == \A p \in Passes : ledger + unbilled[p] <= Budget

(* Every captured event is consolidated in the end, late events of settled *)
(* sessions and interrupted passes included.                               *)
EveryEventConsolidated ==
    \A e \in EventIds : e \in Captured ~> events[e].consolidated

(* An idle session is distilled or swept in the end, unless it wakes up or *)
(* memories are archived: a session without live memories stays open and   *)
(* can fill the page for ever (store.rs:847 applies the limit first).      *)
EverySessionSettles ==
    \A s \in Sessions :
        sessions[s] = "open" /\ idle[s]
            ~> sessions[s] # "open" \/ ~idle[s] \/ archived # {}

-----------------------------------------------------------------------------
(* The inductive invariants the proofs rest on.                            *)

Items(p) == todo[p] \cup prepared[p]

(* Costs are natural numbers because what is counted is finite.            *)
ItemsFinite ==
    /\ IsFiniteSet(memories)
    /\ \A p \in Passes :
          IsFiniteSet(prepared[p]) /\ \A i \in Items(p) : IsFiniteSet(i.sources)

SessionsNamed == \A e \in Captured : events[e].session \in Sessions

Consolidated == Captured \ Unconsolidated

EpisodesMarked ==
    \A m \in memories : m.kind = "episode" => m.sources \subseteq Consolidated

(* What the only pass will write was read and not marked since, and no     *)
(* event is in two of its items.                                           *)
BatchFresh ==
    \A p \in Passes :
        /\ phase[p] \in {"idle", "consolidating", "distilling"} => prepared[p] = {}
        /\ phase[p] = "summarising" =>
              \A i, j \in Items(p) :
                  /\ i.sources \subseteq Unconsolidated
                  /\ i.sources \cap j.sources # {} => i = j

(* The window a pass started with covers what is recorded and what it owes.*)
SpendTracked ==
    \A p \in Passes :
        IF phase[p] = "idle" THEN unbilled[p] = 0 ELSE ledger + unbilled[p] <= window[p]

OnePass == \A p, q \in Passes : p = q

=============================================================================
