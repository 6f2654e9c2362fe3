--------------------------- MODULE DreamPassProofs ---------------------------
(***************************************************************************)
(* Proofs about consolidation, distillation and the spend ledger, for      *)
(* every value of the constants.                                           *)
(***************************************************************************)
EXTENDS DreamPass, FiniteSetTheorems, TLAPS

(* The bounds on what a pass carries: rows it may write, at a finite cost. *)
DreamTypes == TypeOK /\ ItemsFinite /\ SessionsNamed

(* A set indexed by a finite set is finite.                                *)
LEMMA ImageFinite ==
    ASSUME NEW S, NEW T, NEW f \in [S -> T], IsFiniteSet(S),
           \A t \in T : \E s \in S : f[s] = t
    PROVE  IsFiniteSet(T)
<1>1. f \in Surjection(S, T)
  BY DEF Surjection
<1> QED
  BY <1>1, FS_Surjection

(* The ids of a session's live memories are finitely many.                 *)
LEMMA LiveMembersFinite ==
    ASSUME IsFiniteSet(memories), NEW s
    PROVE  IsFiniteSet(LiveMembers(s))
<1> DEFINE E == Episodes(s)
           T == {Id(m) : m \in E}
           f == [m \in E |-> Id(m)]
<1>1. IsFiniteSet(E)
  BY FS_Subset DEF Episodes
<1>2. f \in [E -> T] /\ \A t \in T : \E m \in E : f[m] = t
  OBVIOUS
<1>3. IsFiniteSet(T)
  <2> HIDE DEF f, T, E
  <2> QED
    BY <1>1, <1>2, ImageFinite
<1> QED
  BY <1>3, FS_Subset DEF LiveMembers

(* A transaction inserts finitely many memories, of known sessions.        *)
LEMMA NewMemoriesTyped ==
    ASSUME DreamTypes, NEW p \in Passes, NEW kind \in {"episode", "summary"}
    PROVE  /\ IsFiniteSet(memories \cup NewMemories(p, kind))
           /\ \A m \in NewMemories(p, kind) : m.kind = kind /\ m.session \in Sessions
<1> DEFINE T == NewMemories(p, kind)
           f == [i \in prepared[p] |->
                    [tx |-> NextTx, kind |-> kind, first |-> i.first,
                     session |-> i.session, sources |-> i.sources]]
<1>1. f \in [prepared[p] -> T] /\ \A t \in T : \E i \in prepared[p] : f[i] = t
  BY DEF NewMemories
<1>2. IsFiniteSet(prepared[p])
  BY DEF DreamTypes, ItemsFinite
<1>3. IsFiniteSet(T)
  <2> HIDE DEF f, T
  <2> QED
    BY <1>1, <1>2, ImageFinite
<1>4. IsFiniteSet(memories \cup T)
  BY <1>3, FS_Union DEF DreamTypes, ItemsFinite
<1>5. \A m \in T : m.kind = kind /\ m.session \in Sessions
  BY DEF NewMemories, DreamTypes, TypeOK
<1> QED
  BY <1>4, <1>5

(* What a batch read makes is typed: its events are captured ones.         *)
LEMMA ClustersTyped ==
    ASSUME DreamTypes, NEW S \in SUBSET EventIds, IsBatch(S)
    PROVE  \A i \in Clusters(S) : i.session \in Sessions /\ IsFiniteSet(i.sources)
<1>1. IsFiniteSet(S)
  <2>1. 1 \in Int /\ MaxEvents \in Int
    BY DreamBoundsAssumption
  <2>2. IsFiniteSet(1..MaxEvents)
    BY <2>1, FS_Interval
  <2> QED
    BY <2>2, FS_Subset DEF EventIds
<1>2. \A e \in S : IsFiniteSet(SameText(S, e))
  BY <1>1, FS_Subset DEF SameText
<1>3. \A e \in S : events[e].session \in Sessions
  BY DEF IsBatch, Unconsolidated, DreamTypes, SessionsNamed
<1> QED
  BY <1>2, <1>3 DEF Clusters

(* What calls cost is a natural number.                                    *)
LEMMA ChargeTyped ==
    ASSUME DreamTypes, NEW p \in Passes, NEW cost \in Nat, Charge(p, cost)
    PROVE  window' \in [Passes -> Nat] /\ unbilled' \in [Passes -> Nat]
  BY DEF Charge, DreamTypes, TypeOK

LEMMA CostNat ==
    ASSUME DreamTypes, NEW p \in Passes, NEW i \in todo[p]
    PROVE  Price * Cardinality(i.sources) \in Nat
<1>1. Cardinality(i.sources) \in Nat
  BY FS_CardinalityType DEF DreamTypes, ItemsFinite, Items
<1> QED
  BY <1>1, DreamCapsAssumption

LEMMA CaptureTypes ==
    ASSUME DreamTypes, CaptureEvent
    PROVE  DreamTypes'
<1>1. PICK e \in EventIds, s \in Sessions, t \in Texts, late \in BOOLEAN :
         /\ events' = [events EXCEPT ![e] = [session |-> s, text |-> t, consolidated |-> FALSE]]
         /\ sessions' = [sessions EXCEPT ![s] = StatusAfterCapture(s)]
         /\ idle' = [idle EXCEPT ![s] = late /\ (@ \/ sessions[s] = "none")]
  BY DEF CaptureEvent
<1>2. events' \in [EventIds -> EventRow]
  BY <1>1 DEF EventRow, DreamTypes, TypeOK
<1>3. StatusAfterCapture(s) \in Statuses /\ StatusAfterCapture(s) # "none"
  BY DEF StatusAfterCapture, DreamTypes, TypeOK, Statuses
<1>4. sessions' \in [Sessions -> Statuses]
  BY <1>1, <1>3 DEF DreamTypes, TypeOK
<1>5. idle' \in [Sessions -> BOOLEAN]
  <2> DEFINE b == late /\ (idle[s] \/ sessions[s] = "none")
  <2>1. b \in BOOLEAN
    OBVIOUS
  <2>2. idle' = [idle EXCEPT ![s] = b]
    BY <1>1
  <2> HIDE DEF b
  <2> QED
    BY <2>1, <2>2 DEF DreamTypes, TypeOK
<1>6. \A d \in Captured' :
         events'[d].session \in Sessions /\ sessions'[events'[d].session] # "none"
  <2> SUFFICES ASSUME NEW d \in EventIds, events'[d].text # "none"
               PROVE  events'[d].session \in Sessions /\ sessions'[events'[d].session] # "none"
    BY DEF Captured
  <2>1. CASE d = e
    BY <1>1, <1>3, <2>1 DEF DreamTypes, TypeOK
  <2>2. CASE d # e
    <3>1. events'[d] = events[d] /\ d \in Captured
      BY <1>1, <2>2 DEF DreamTypes, TypeOK, Captured
    <3> QED
      BY <1>1, <1>3, <3>1 DEF DreamTypes, TypeOK, SessionsNamed
  <2> QED
    BY <2>1, <2>2
<1> QED
  BY <1>2, <1>4, <1>5, <1>6
  DEF CaptureEvent, DreamTypes, TypeOK, ItemsFinite, SessionsNamed, Items, local

(* A pass that leaves events and sessions alone keeps the types as long as *)
(* its own items are typed.                                                *)
LEMMA LocalTypes ==
    ASSUME DreamTypes, UNCHANGED <<events, sessions, idle, interrupts>>,
           \A m \in memories' : m.kind \in {"episode", "summary"} /\ m.session \in Sessions,
           IsFiniteSet(memories'),
           ledger' \in Nat, phase' \in [Passes -> Phases], window' \in [Passes -> Nat],
           unbilled' \in [Passes -> Nat],
           DOMAIN todo' = Passes, DOMAIN prepared' = Passes,
           \A p \in Passes :
              /\ IsFiniteSet(prepared'[p])
              /\ \A i \in todo'[p] \cup prepared'[p] :
                    i.session \in Sessions /\ IsFiniteSet(i.sources)
    PROVE  DreamTypes'
  BY DEF DreamTypes, TypeOK, ItemsFinite, SessionsNamed, Items, Captured

(* What holds of the untouched rows and items, in the form LocalTypes asks *)
(* for.                                                                    *)
LEMMA ItemsTyped ==
    ASSUME DreamTypes
    PROVE  /\ \A m \in memories : m.kind \in {"episode", "summary"} /\ m.session \in Sessions
           /\ IsFiniteSet(memories)
           /\ \A p \in Passes :
                /\ IsFiniteSet(prepared[p])
                /\ \A i \in todo[p] \cup prepared[p] :
                      i.session \in Sessions /\ IsFiniteSet(i.sources)
  BY DEF DreamTypes, TypeOK, ItemsFinite, Items

LEMMA ReadEventsTypes ==
    ASSUME DreamTypes, NEW p \in Passes, ReadEvents(p)
    PROVE  DreamTypes'
<1>1. PICK S \in SUBSET EventIds :
         /\ IsBatch(S)
         /\ todo' = [todo EXCEPT ![p] = Clusters(S)]
         /\ phase' = [phase EXCEPT ![p] = IF S = {} THEN "distilling" ELSE "summarising"]
  BY DEF ReadEvents
<1>2. \A q \in Passes : \A i \in todo'[q] \cup prepared'[q] :
         i.session \in Sessions /\ IsFiniteSet(i.sources)
  <2> TAKE q \in Passes
  <2>1. todo'[q] = Clusters(S) \/ todo'[q] = todo[q] \/ todo'[q] = {}
    BY <1>1 DEF DreamTypes
  <2> QED
    BY <1>1, <2>1, ItemsTyped, ClustersTyped DEF ReadEvents
<1>3. phase' \in [Passes -> Phases]
  BY <1>1 DEF Phases, DreamTypes, TypeOK
<1> QED
  BY <1>2, <1>3, ItemsTyped, LocalTypes DEF ReadEvents, store, DreamTypes, TypeOK

(* Moving an item from what was read to what will be written, at a cost.   *)
LEMMA MoveTypes ==
    ASSUME DreamTypes, NEW p \in Passes, NEW i \in todo[p],
           todo' = [todo EXCEPT ![p] = @ \ {i}],
           prepared' = [prepared EXCEPT ![p] = @ \cup {i}],
           window' \in [Passes -> Nat], unbilled' \in [Passes -> Nat],
           UNCHANGED <<store, ledger, phase, interrupts>>
    PROVE  DreamTypes'
<1>1. ASSUME NEW q \in Passes
      PROVE  /\ IsFiniteSet(prepared'[q])
             /\ todo'[q] \cup prepared'[q] \subseteq Items(q)
  <2>1. CASE q = p
    <3>1. todo'[p] = todo[p] \ {i} /\ prepared'[p] = prepared[p] \cup {i}
      BY DEF DreamTypes, TypeOK
    <3>2. IsFiniteSet(prepared[p] \cup {i})
      BY ItemsTyped, FS_AddElement
    <3> QED
      BY <2>1, <3>1, <3>2 DEF Items
  <2>2. CASE q # p
    BY <2>2, ItemsTyped DEF Items, DreamTypes, TypeOK
  <2> QED
    BY <2>1, <2>2
<1>2. \A q \in Passes : \A j \in todo'[q] \cup prepared'[q] :
         j.session \in Sessions /\ IsFiniteSet(j.sources)
  BY <1>1, ItemsTyped DEF Items
<1> QED
  BY <1>1, <1>2, ItemsTyped, LocalTypes DEF store, DreamTypes, TypeOK

LEMMA SummariseTypes ==
    ASSUME DreamTypes, NEW p \in Passes, Summarise(p)
    PROVE  DreamTypes'
<1>1. PICK i \in todo[p] :
         /\ todo' = [todo EXCEPT ![p] = @ \ {i}]
         /\ prepared' = [prepared EXCEPT ![p] = @ \cup {i}]
  BY DEF Summarise
<1>2. window' \in [Passes -> Nat] /\ unbilled' \in [Passes -> Nat]
  <2>1. CASE Charge(p, Price)
    BY <2>1, ChargeTyped, DreamCapsAssumption
  <2>2. CASE UNCHANGED <<window, unbilled>>
    BY <2>2 DEF DreamTypes, TypeOK
  <2> QED
    BY <2>1, <2>2 DEF Summarise
<1> QED
  BY <1>1, <1>2, MoveTypes DEF Summarise

LEMMA NarrateTypes ==
    ASSUME DreamTypes, NEW p \in Passes, Narrate(p)
    PROVE  DreamTypes'
<1>1. PICK i \in todo[p] :
         \/ /\ todo' = [todo EXCEPT ![p] = @ \ {i}]
            /\ prepared' = [prepared EXCEPT ![p] = @ \cup {i}]
            /\ Charge(p, Price * Cardinality(i.sources))
         \/ /\ todo' = [todo EXCEPT ![p] = {}]
            /\ UNCHANGED <<prepared, window, unbilled>>
  BY DEF Narrate
<1>2. CASE /\ todo' = [todo EXCEPT ![p] = @ \ {i}]
           /\ prepared' = [prepared EXCEPT ![p] = @ \cup {i}]
           /\ Charge(p, Price * Cardinality(i.sources))
  BY <1>2, CostNat, ChargeTyped, MoveTypes DEF Narrate
<1>3. CASE /\ todo' = [todo EXCEPT ![p] = {}]
           /\ UNCHANGED <<prepared, window, unbilled>>
  <2>1. \A q \in Passes : todo'[q] \subseteq todo[q]
    BY <1>3 DEF DreamTypes, TypeOK
  <2>2. \A q \in Passes :
           /\ IsFiniteSet(prepared'[q])
           /\ \A j \in todo'[q] \cup prepared'[q] :
                 j.session \in Sessions /\ IsFiniteSet(j.sources)
    BY <1>3, <2>1, ItemsTyped
  <2> QED
    BY <1>3, <2>2, ItemsTyped, LocalTypes DEF Narrate, store, DreamTypes, TypeOK
<1> QED
  BY <1>1, <1>2, <1>3

(* The bookkeeping at the end of a write.                                  *)
LEMMA BillTypes ==
    ASSUME DreamTypes, NEW p \in Passes, Bill(p), UNCHANGED todo
    PROVE  /\ ledger' \in Nat
           /\ unbilled' \in [Passes -> Nat]
           /\ \A q \in Passes :
                /\ IsFiniteSet(prepared'[q])
                /\ \A i \in todo'[q] \cup prepared'[q] :
                      i.session \in Sessions /\ IsFiniteSet(i.sources)
<1>1. \A q \in Passes : prepared'[q] = prepared[q] \/ prepared'[q] = {}
  BY DEF Bill, DreamTypes, TypeOK
<1>2. \A q \in Passes :
         /\ IsFiniteSet(prepared'[q])
         /\ \A i \in todo'[q] \cup prepared'[q] :
               i.session \in Sessions /\ IsFiniteSet(i.sources)
  BY <1>1, ItemsTyped, FS_EmptySet
<1> QED
  BY <1>2 DEF Bill, DreamTypes, TypeOK

(* Marking events keeps their rows.                                        *)
LEMMA MarkTypes ==
    ASSUME DreamTypes, NEW p \in Passes,
           events' = [e \in EventIds |->
              IF e \in Consumed(p) THEN [events[e] EXCEPT !.consolidated = TRUE] ELSE events[e]]
    PROVE  /\ events' \in [EventIds -> EventRow]
           /\ Captured' = Captured
           /\ \A e \in EventIds : events'[e].session = events[e].session
<1>1. ASSUME NEW e \in EventIds
      PROVE  /\ events'[e] \in EventRow
             /\ events'[e].text = events[e].text
             /\ events'[e].session = events[e].session
  <2> DEFINE r == events[e]
  <2>1. r \in EventRow
    BY DEF DreamTypes, TypeOK
  <2>2. events'[e] = r \/ events'[e] = [r EXCEPT !.consolidated = TRUE]
    OBVIOUS
  <2> HIDE DEF r
  <2>3. /\ events'[e] \in EventRow
        /\ events'[e].text = r.text
        /\ events'[e].session = r.session
    BY <2>1, <2>2 DEF EventRow
  <2> QED
    BY <2>3 DEF r
<1> QED
  BY <1>1 DEF Captured

LEMMA WriteMemoriesTypes ==
    ASSUME DreamTypes, NEW p \in Passes, WriteMemories(p)
    PROVE  DreamTypes'
<1>1. /\ events' \in [EventIds -> EventRow]
      /\ Captured' = Captured
      /\ \A e \in EventIds : events'[e].session = events[e].session
  BY MarkTypes DEF WriteMemories
<1>2. \A e \in Captured' :
         events'[e].session \in Sessions /\ sessions'[events'[e].session] # "none"
  BY <1>1 DEF WriteMemories, Captured, DreamTypes, TypeOK, SessionsNamed
<1>3. /\ IsFiniteSet(memories')
      /\ \A m \in memories' : m.kind \in {"episode", "summary"} /\ m.session \in Sessions
  BY NewMemoriesTyped, ItemsTyped DEF WriteMemories
<1>4. phase' \in [Passes -> Phases]
  BY DEF WriteMemories, Phases, DreamTypes, TypeOK
<1>5. DOMAIN todo' = Passes /\ DOMAIN prepared' = Passes
  BY DEF WriteMemories, Bill, DreamTypes, TypeOK
<1> QED
  BY <1>1, <1>2, <1>3, <1>4, <1>5, BillTypes
  DEF WriteMemories, DreamTypes, TypeOK, ItemsFinite, SessionsNamed, Items

LEMMA ReadSessionsTypes ==
    ASSUME DreamTypes, NEW p \in Passes, ReadSessions(p)
    PROVE  DreamTypes'
<1>1. PICK S \in SUBSET Sessions :
         todo' = [todo EXCEPT ![p] =
            {[first |-> s, session |-> s, sources |-> LiveMembers(s)] :
                s \in {t \in S : LiveMembers(t) # {}}}]
  BY DEF ReadSessions
<1>2. \A s : IsFiniteSet(LiveMembers(s))
  BY LiveMembersFinite DEF DreamTypes, ItemsFinite
<1>3. \A q \in Passes : \A i \in todo'[q] \cup prepared'[q] :
         i.session \in Sessions /\ IsFiniteSet(i.sources)
  <2> SUFFICES ASSUME NEW q \in Passes, NEW i \in todo'[q] \cup prepared'[q]
               PROVE  i.session \in Sessions /\ IsFiniteSet(i.sources)
    OBVIOUS
  <2>1. CASE i \in todo[q] \cup prepared[q]
    BY <2>1, ItemsTyped
  <2>2. CASE q = p /\ i \in todo'[p]
    <3>1. PICK s \in S : i = [first |-> s, session |-> s, sources |-> LiveMembers(s)]
      BY <1>1, <2>2 DEF DreamTypes, TypeOK
    <3> QED
      BY <1>2, <3>1
  <2> QED
    BY <1>1, <2>1, <2>2 DEF ReadSessions, DreamTypes, TypeOK
<1>4. phase' \in [Passes -> Phases]
  BY DEF ReadSessions, Phases, DreamTypes, TypeOK
<1> QED
  BY <1>1, <1>3, <1>4, ItemsTyped, LocalTypes DEF ReadSessions, store, DreamTypes, TypeOK

LEMMA WriteSummariesTypes ==
    ASSUME DreamTypes, NEW p \in Passes, WriteSummaries(p)
    PROVE  DreamTypes'
<1>1. sessions' \in [Sessions -> Statuses]
  BY DEF WriteSummaries, Statuses, DreamTypes, TypeOK
<1>2. \A s \in Sessions : sessions[s] # "none" => sessions'[s] # "none"
  BY DEF WriteSummaries
<1>3. /\ IsFiniteSet(memories')
      /\ \A m \in memories' : m.kind \in {"episode", "summary"} /\ m.session \in Sessions
  BY NewMemoriesTyped, ItemsTyped DEF WriteSummaries
<1>4. phase' \in [Passes -> Phases]
  BY DEF WriteSummaries, Phases, DreamTypes, TypeOK
<1>5. DOMAIN todo' = Passes /\ DOMAIN prepared' = Passes
  BY DEF WriteSummaries, Bill, DreamTypes, TypeOK
<1> QED
  BY <1>1, <1>2, <1>3, <1>4, <1>5, BillTypes
  DEF WriteSummaries, Captured, DreamTypes, TypeOK, ItemsFinite, SessionsNamed, Items

LEMMA InterruptTypes ==
    ASSUME DreamTypes, NEW p \in Passes, Interrupt(p)
    PROVE  DreamTypes'
<1>1. \A q \in Passes :
         /\ prepared'[q] = prepared[q] \/ prepared'[q] = {}
         /\ todo'[q] \subseteq todo[q]
  BY DEF Interrupt, DreamTypes, TypeOK
<1>2. \A q \in Passes :
         /\ IsFiniteSet(prepared'[q])
         /\ \A i \in todo'[q] \cup prepared'[q] :
               i.session \in Sessions /\ IsFiniteSet(i.sources)
  BY <1>1, ItemsTyped, FS_EmptySet
<1>3. phase' \in [Passes -> Phases] /\ unbilled' \in [Passes -> Nat]
  BY DEF Interrupt, Phases, DreamTypes, TypeOK
<1>4. interrupts' \in 0..MaxInterrupts
  BY DreamBoundsAssumption DEF Interrupt, DreamTypes, TypeOK
<1> QED
  BY <1>2, <1>3, <1>4
  DEF Interrupt, store, DreamTypes, TypeOK, ItemsFinite, SessionsNamed, Items, Captured

(* Every step keeps the types.                                             *)
LEMMA TypesStep ==
    ASSUME DreamTypes, [Next]_vars
    PROVE  DreamTypes'
<1>1. CASE GoIdle \/ Archive \/ UNCHANGED vars
  <2>1. /\ UNCHANGED <<events, sessions, memories, ledger, local, interrupts>>
        /\ idle' \in [Sessions -> BOOLEAN]
    BY <1>1 DEF GoIdle, Archive, vars, store, DreamTypes, TypeOK
  <2> QED
    BY <2>1 DEF local, DreamTypes, TypeOK, ItemsFinite, SessionsNamed, Items, Captured
<1>3. CASE WindowMoves
  <2>1. UNCHANGED <<store, local, interrupts>> /\ ledger' \in Nat
    BY <1>3 DEF WindowMoves, DreamTypes, TypeOK
  <2> QED
    BY <2>1 DEF store, local, DreamTypes, TypeOK, ItemsFinite, SessionsNamed, Items, Captured
<1>2. ASSUME NEW p \in Passes, StartPass(p)
      PROVE  DreamTypes'
  BY <1>2
  DEF StartPass, store, Phases, DreamTypes, TypeOK, ItemsFinite, SessionsNamed, Items, Captured
<1> QED
  BY <1>1, <1>2, <1>3, CaptureTypes, ReadEventsTypes, SummariseTypes, WriteMemoriesTypes,
     ReadSessionsTypes, NarrateTypes, WriteSummariesTypes, InterruptTypes
  DEF Next, PassProgress

LEMMA TypesInit == Init => DreamTypes
  BY DreamBoundsAssumption, FS_EmptySet
  DEF Init, DreamTypes, TypeOK, ItemsFinite, SessionsNamed, Items, Captured, NoEvent,
      EventRow, Statuses, Phases

(* Every reachable state is well typed, and amounts are natural numbers.   *)
THEOREM DreamTypeCorrect == Spec => []TypeOK
<1>1. DreamTypes /\ [Next]_vars => DreamTypes'
  BY TypesStep
<1>2. DreamTypes => TypeOK
  BY DEF DreamTypes
<1> QED
  BY <1>1, <1>2, TypesInit, PTL DEF Spec

-----------------------------------------------------------------------------
(* What a capture does to the other events: nothing.                       *)
LEMMA CaptureFresh ==
    ASSUME TypeOK, CaptureEvent
    PROVE  \E e \in EventIds :
              /\ e \notin Captured
              /\ ~events'[e].consolidated
              /\ \A d \in EventIds \ {e} : events'[d] = events[d]
<1>1. PICK e \in EventIds, s \in Sessions, t \in Texts, late \in BOOLEAN :
         /\ Captured = 1..(e - 1)
         /\ events' = [events EXCEPT ![e] = [session |-> s, text |-> t, consolidated |-> FALSE]]
  BY Zenon DEF CaptureEvent
<1>2. e \notin Captured
  BY <1>1, DreamBoundsAssumption DEF EventIds
<1> QED
  BY <1>1, <1>2 DEF TypeOK

(* What the write of a batch does to the events and memories.              *)
LEMMA WriteMarks ==
    ASSUME DreamTypes, NEW p \in Passes, WriteMemories(p)
    PROVE  /\ Captured' = Captured
           /\ \A e \in EventIds : events'[e].consolidated
                 <=> (events[e].consolidated \/ e \in Consumed(p))
<1>1. Captured' = Captured
  BY MarkTypes DEF WriteMemories
<1>2. ASSUME NEW e \in EventIds
      PROVE  events'[e].consolidated <=> (events[e].consolidated \/ e \in Consumed(p))
  <2> DEFINE r == events[e]
  <2>1. r \in EventRow
    BY DEF DreamTypes, TypeOK
  <2>2. events'[e] = IF e \in Consumed(p) THEN [r EXCEPT !.consolidated = TRUE] ELSE r
    BY DEF WriteMemories
  <2> HIDE DEF r
  <2>3. events'[e].consolidated <=> (r.consolidated \/ e \in Consumed(p))
    BY <2>1, <2>2 DEF EventRow
  <2> QED
    BY <2>3 DEF r
<1> QED
  BY <1>1, <1>2

(* Memories are only added, and the episodes of a batch carry its sources. *)
LEMMA EpisodeWritten ==
    ASSUME NEW p \in Passes, NEW i \in prepared[p]
    PROVE  \E m \in NewMemories(p, "episode") : m.kind = "episode" /\ m.sources = i.sources
<1> DEFINE m == [tx |-> NextTx, kind |-> "episode", first |-> i.first,
                 session |-> i.session, sources |-> i.sources]
<1>1. m \in NewMemories(p, "episode") /\ m.kind = "episode" /\ m.sources = i.sources
  BY DEF NewMemories
<1> QED
  BY <1>1

LEMMA KeptStep ==
    ASSUME DreamTypes, EventsKept, [Next]_vars
    PROVE  EventsKept'
<1>1. CASE CaptureEvent
  BY <1>1, CaptureFresh DEF DreamTypes, CaptureEvent, EventsKept, Captured
<1>2. ASSUME NEW p \in Passes, WriteMemories(p)
      PROVE  EventsKept'
  <2> SUFFICES ASSUME NEW e \in EventIds, e \in Captured', events'[e].consolidated
               PROVE  \E m \in memories' : m.kind = "episode" /\ e \in m.sources
    BY DEF EventsKept, Captured
  <2>1. e \in Captured /\ (events[e].consolidated \/ e \in Consumed(p))
    BY <1>2, WriteMarks
  <2>2. memories' = memories \cup NewMemories(p, "episode")
    BY <1>2 DEF WriteMemories
  <2>3. CASE events[e].consolidated
    BY <2>1, <2>2, <2>3 DEF EventsKept
  <2>4. CASE e \in Consumed(p)
    <3>1. PICK i \in prepared[p] : e \in i.sources
      BY <2>4 DEF Consumed
    <3> QED
      BY <2>2, <3>1, EpisodeWritten
  <2> QED
    BY <2>1, <2>3, <2>4
<1>3. CASE UNCHANGED events /\ memories \subseteq memories'
  BY <1>3 DEF EventsKept, Captured
<1>4. \/ CaptureEvent
      \/ \E p \in Passes : WriteMemories(p)
      \/ UNCHANGED events /\ memories \subseteq memories'
  BY DEF Next, PassProgress, GoIdle, WindowMoves, Archive, StartPass, ReadEvents, Summarise,
         ReadSessions, Narrate, WriteSummaries, Interrupt, store, vars
<1> QED
  BY <1>1, <1>2, <1>3, <1>4

(* However many passes race, and wherever they are cut short, an event     *)
(* marked consolidated is a source of an episode: marks and episodes are   *)
(* written in one transaction and neither is taken back.                   *)
THEOREM NoEventLost == Spec => []EventsKept
<1>1. DreamTypes /\ EventsKept /\ [Next]_vars => (DreamTypes /\ EventsKept)'
  BY KeptStep, TypesStep
<1>2. Init => EventsKept
  BY DEF Init, EventsKept, Captured, NoEvent
<1> QED
  BY <1>1, <1>2, TypesInit, PTL DEF Spec

-----------------------------------------------------------------------------
(* A single pass spends within its window.                                 *)
SpendInv == DreamTypes /\ SpendTracked /\ SpendCapped

(* A charge the window affords stays tracked and within the budget.        *)
LEMMA ChargeStep ==
    ASSUME OnePass, SpendInv, NEW p \in Passes, phase[p] # "idle", NEW cost \in Nat,
           Charge(p, cost), cost = 0 \/ Affordable(p, cost),
           UNCHANGED <<ledger, phase>>
    PROVE  SpendTracked' /\ SpendCapped'
<1>1. /\ window'[p] = window[p] + cost /\ unbilled'[p] = unbilled[p] + cost
      /\ ledger \in Nat /\ window[p] \in Nat /\ unbilled[p] \in Nat
  BY DEF Charge, SpendInv, DreamTypes, TypeOK
<1>2. ledger + unbilled[p] <= window[p] /\ ledger + unbilled[p] <= Budget
  BY DEF SpendInv, SpendTracked, SpendCapped
<1>3. ledger' + unbilled'[p] <= window'[p]
  BY <1>1, <1>2
<1>4. ledger' + unbilled'[p] <= Budget
  BY <1>1, <1>2, DreamCapsAssumption DEF Affordable
<1> QED
  BY <1>3, <1>4 DEF OnePass, SpendTracked, SpendCapped

LEMMA BillStep ==
    ASSUME OnePass, SpendInv, NEW p \in Passes, phase[p] # "idle", Bill(p), UNCHANGED window
    PROVE  SpendTracked' /\ SpendCapped'
<1>1. ledger' = ledger + unbilled[p] /\ unbilled'[p] = 0
  BY DEF Bill, SpendInv, DreamTypes, TypeOK
<1>2. ledger + unbilled[p] <= window[p] /\ ledger + unbilled[p] <= Budget
  BY DEF SpendInv, SpendTracked, SpendCapped
<1>3. ledger \in Nat /\ unbilled[p] \in Nat
  BY DEF SpendInv, DreamTypes, TypeOK
<1>4. ledger' + unbilled'[p] = ledger + unbilled[p]
  BY <1>1, <1>3
<1> QED
  BY <1>1, <1>2, <1>4 DEF OnePass, SpendTracked, SpendCapped

LEMMA SpendStep ==
    ASSUME OnePass, SpendInv, [Next]_vars
    PROVE  SpendTracked' /\ SpendCapped'
<1>1. CASE CaptureEvent \/ GoIdle \/ Archive \/ UNCHANGED vars
  BY <1>1 DEF CaptureEvent, GoIdle, Archive, vars, local, SpendInv, SpendTracked, SpendCapped
<1>2. CASE WindowMoves
  <2>1. ledger \in Nat /\ ledger' \in Nat /\ ledger' <= ledger
    BY <1>2 DEF WindowMoves, SpendInv, DreamTypes, TypeOK
  <2>2. \A p \in Passes : unbilled[p] \in Nat /\ window[p] \in Nat
    BY DEF SpendInv, DreamTypes, TypeOK
  <2>3. UNCHANGED <<unbilled, window, phase>>
    BY <1>2 DEF WindowMoves, local
  <2> QED
    BY <2>1, <2>2, <2>3, DreamCapsAssumption DEF SpendInv, SpendTracked, SpendCapped
<1>3. ASSUME NEW p \in Passes, StartPass(p)
      PROVE  SpendTracked' /\ SpendCapped'
  <2>1. /\ unbilled'[p] = 0 /\ window'[p] = ledger /\ ledger' = ledger /\ ledger \in Nat
        /\ ledger + unbilled[p] <= Budget /\ unbilled[p] = 0
    BY <1>3 DEF StartPass, SpendInv, SpendTracked, SpendCapped, DreamTypes, TypeOK
  <2> QED
    BY <2>1 DEF OnePass, SpendTracked, SpendCapped
<1>4. ASSUME NEW p \in Passes, ReadEvents(p) \/ ReadSessions(p)
      PROVE  SpendTracked' /\ SpendCapped'
  <2>1. /\ UNCHANGED <<ledger, unbilled, window>>
        /\ phase[p] # "idle" /\ phase'[p] # "idle"
    BY <1>4 DEF ReadEvents, ReadSessions, SpendInv, DreamTypes, TypeOK
  <2> QED
    BY <2>1 DEF OnePass, SpendInv, SpendTracked, SpendCapped
<1>5. ASSUME NEW p \in Passes, Summarise(p)
      PROVE  SpendTracked' /\ SpendCapped'
  <2>1. phase[p] # "idle" /\ UNCHANGED <<ledger, phase>>
    BY <1>5 DEF Summarise
  <2>2. CASE Affordable(p, Price) /\ Charge(p, Price)
    BY <2>1, <2>2, ChargeStep, DreamCapsAssumption
  <2>3. CASE UNCHANGED <<window, unbilled>>
    BY <2>1, <2>3 DEF SpendInv, SpendTracked, SpendCapped
  <2> QED
    BY <1>5, <2>2, <2>3 DEF Summarise
<1>6. ASSUME NEW p \in Passes, Narrate(p)
      PROVE  SpendTracked' /\ SpendCapped'
  <2>1. phase[p] # "idle" /\ UNCHANGED <<ledger, phase>>
    BY <1>6 DEF Narrate
  <2>2. PICK i \in todo[p] :
           \/ /\ Price = 0 \/ Affordable(p, Price * Cardinality(i.sources))
              /\ Charge(p, Price * Cardinality(i.sources))
           \/ UNCHANGED <<window, unbilled>>
    BY <1>6 DEF Narrate
  <2> DEFINE cost == Price * Cardinality(i.sources)
  <2>3. cost \in Nat
    BY CostNat DEF SpendInv
  <2>4. Price = 0 => cost = 0
    <3>1. Cardinality(i.sources) \in Nat
      BY FS_CardinalityType DEF SpendInv, DreamTypes, ItemsFinite, Items
    <3> QED
      BY <3>1
  <2>5. \/ (cost = 0 \/ Affordable(p, cost)) /\ Charge(p, cost)
        \/ UNCHANGED <<window, unbilled>>
    BY <2>2, <2>4
  <2> HIDE DEF cost
  <2>6. CASE (cost = 0 \/ Affordable(p, cost)) /\ Charge(p, cost)
    BY <2>1, <2>3, <2>6, ChargeStep
  <2>7. CASE UNCHANGED <<window, unbilled>>
    BY <2>1, <2>7 DEF SpendInv, SpendTracked, SpendCapped
  <2> QED
    BY <2>5, <2>6, <2>7
<1>7. ASSUME NEW p \in Passes, WriteMemories(p) \/ WriteSummaries(p)
      PROVE  SpendTracked' /\ SpendCapped'
  BY <1>7, BillStep DEF WriteMemories, WriteSummaries
<1>8. ASSUME NEW p \in Passes, Interrupt(p)
      PROVE  SpendTracked' /\ SpendCapped'
  <2>1. /\ unbilled'[p] = 0 /\ phase'[p] = "idle" /\ ledger' = ledger
        /\ ledger \in Nat /\ unbilled[p] \in Nat /\ ledger + unbilled[p] <= Budget
    BY <1>8 DEF Interrupt, SpendInv, SpendCapped, DreamTypes, TypeOK
  <2>2. ledger' + unbilled'[p] <= Budget
    BY <2>1, DreamCapsAssumption
  <2> QED
    BY <2>1, <2>2 DEF OnePass, SpendTracked, SpendCapped
<1> QED
  BY <1>1, <1>2, <1>3, <1>4, <1>5, <1>6, <1>7, <1>8 DEF Next, PassProgress

(* Whatever a text costs and wherever a pass is cut short, one pass at a   *)
(* time never makes the spend of the trailing day exceed the budget: what  *)
(* a pass owes is covered by the window it read.                           *)
THEOREM OnePassSpendCapped ==
    ASSUME OnePass
    PROVE  Spec => []SpendCapped
<1>1. SpendInv /\ [Next]_vars => SpendInv'
  BY SpendStep, TypesStep DEF SpendInv
<1>2. Init => SpendInv
  BY TypesInit, DreamCapsAssumption DEF Init, SpendInv, SpendTracked, SpendCapped
<1>3. SpendInv => SpendCapped
  BY DEF SpendInv
<1> QED
  BY <1>1, <1>2, <1>3, PTL DEF Spec

-----------------------------------------------------------------------------
(* A single pass consolidates nothing twice.                               *)
OnceInv == DreamTypes /\ EpisodesMarked /\ BatchFresh /\ ConsolidatedOnce

(* The items of one batch have no event in common: the first event of each *)
(* is the least of its text.                                               *)
LEMMA ClustersDisjoint ==
    ASSUME NEW S \in SUBSET EventIds, IsBatch(S)
    PROVE  \A i, j \in Clusters(S) :
              /\ i.sources \subseteq Unconsolidated
              /\ i.sources \cap j.sources # {} => i = j
<1> SUFFICES ASSUME NEW i \in Clusters(S), NEW j \in Clusters(S)
             PROVE  /\ i.sources \subseteq Unconsolidated
                    /\ i.sources \cap j.sources # {} => i = j
  OBVIOUS
<1>1. PICK d \in S :
         /\ \A e \in SameText(S, d) : d <= e
         /\ i = [first |-> d, session |-> events[d].session, sources |-> SameText(S, d)]
  BY DEF Clusters
<1>2. PICK c \in S :
         /\ \A e \in SameText(S, c) : c <= e
         /\ j = [first |-> c, session |-> events[c].session, sources |-> SameText(S, c)]
  BY DEF Clusters
<1>3. i.sources \subseteq Unconsolidated
  BY <1>1 DEF SameText, IsBatch
<1>4. ASSUME i.sources \cap j.sources # {}
      PROVE  i = j
  <2>1. events[d].text = events[c].text
    BY <1>1, <1>2, <1>4 DEF SameText
  <2>2. d <= c /\ c <= d
    BY <1>1, <1>2, <2>1 DEF SameText
  <2>3. d \in Int /\ c \in Int
    BY DreamBoundsAssumption DEF EventIds
  <2>4. d = c
    BY <2>2, <2>3
  <2> QED
    BY <1>1, <1>2, <2>4
<1> QED
  BY <1>3, <1>4

(* What a step that marks no event keeps: rows only become captured.       *)
LEMMA UnmarkedStep ==
    ASSUME OnceInv,
           Unconsolidated \subseteq Unconsolidated', Consolidated \subseteq Consolidated',
           \A m \in memories' : m.kind = "episode" => m \in memories
    PROVE  EpisodesMarked' /\ ConsolidatedOnce'
  BY DEF OnceInv, EpisodesMarked, ConsolidatedOnce

LEMMA CaptureMarks ==
    ASSUME DreamTypes, CaptureEvent
    PROVE  Unconsolidated \subseteq Unconsolidated' /\ Consolidated \subseteq Consolidated'
  BY CaptureFresh DEF DreamTypes, Unconsolidated, Consolidated, Captured

(* The only pass writes a batch of events nobody has marked.               *)
LEMMA WriteOnce ==
    ASSUME OnceInv, NEW p \in Passes, WriteMemories(p)
    PROVE  EpisodesMarked' /\ ConsolidatedOnce'
<1>1. /\ memories' = memories \cup NewMemories(p, "episode")
      /\ phase[p] = "summarising"
  BY DEF WriteMemories
<1>2. ASSUME NEW m \in NewMemories(p, "episode")
      PROVE  \E i \in prepared[p] :
                m = [tx |-> NextTx, kind |-> "episode", first |-> i.first,
                     session |-> i.session, sources |-> i.sources]
  BY DEF NewMemories
<1>3. \A i, j \in prepared[p] :
         /\ i.sources \subseteq Unconsolidated
         /\ i.sources \cap j.sources # {} => i = j
  BY <1>1 DEF OnceInv, BatchFresh, Items
<1>4. Consolidated \cup Consumed(p) \subseteq Consolidated'
  <2>1. Consolidated \cup Consumed(p) \subseteq Captured
    BY <1>3 DEF Consolidated, Consumed, Unconsolidated
  <2>2. \A e \in Captured : e \in Consolidated <=> events[e].consolidated
    BY DEF Consolidated, Unconsolidated
  <2>3. \A e \in Captured' : e \in Consolidated' <=> events'[e].consolidated
    BY DEF Consolidated, Unconsolidated
  <2> QED
    BY <2>1, <2>2, <2>3, WriteMarks DEF OnceInv, Captured
<1>5. EpisodesMarked'
  <2> SUFFICES ASSUME NEW m \in memories', m.kind = "episode"
               PROVE  m.sources \subseteq Consolidated'
    BY DEF EpisodesMarked
  <2>1. CASE m \in memories
    BY <1>4, <2>1 DEF OnceInv, EpisodesMarked
  <2>2. CASE m \in NewMemories(p, "episode")
    <3>1. PICK i \in prepared[p] : m.sources = i.sources
      BY <1>2, <2>2
    <3> QED
      BY <1>4, <3>1 DEF Consumed
  <2> QED
    BY <1>1, <2>1, <2>2
<1>6. ASSUME NEW m \in memories, m.kind = "episode", NEW n \in NewMemories(p, "episode")
      PROVE  m.sources \cap n.sources = {}
  <2>1. PICK i \in prepared[p] : n.sources = i.sources
    BY <1>2
  <2> QED
    BY <1>3, <1>6, <2>1 DEF OnceInv, EpisodesMarked, Consolidated
<1>7. ASSUME NEW m \in NewMemories(p, "episode"), NEW n \in NewMemories(p, "episode"),
             m.sources \cap n.sources # {}
      PROVE  m = n
  <2>1. PICK i \in prepared[p] :
           m = [tx |-> NextTx, kind |-> "episode", first |-> i.first,
                session |-> i.session, sources |-> i.sources]
    BY <1>2
  <2>2. PICK j \in prepared[p] :
           n = [tx |-> NextTx, kind |-> "episode", first |-> j.first,
                session |-> j.session, sources |-> j.sources]
    BY <1>2
  <2>3. i = j
    BY <1>3, <1>7, <2>1, <2>2
  <2> QED
    BY <2>1, <2>2, <2>3
<1>8. ConsolidatedOnce'
  <2> SUFFICES ASSUME NEW m \in memories', NEW n \in memories',
                      m.kind = "episode", n.kind = "episode", m.sources \cap n.sources # {}
               PROVE  m = n
    BY DEF ConsolidatedOnce
  <2>1. CASE m \in memories /\ n \in memories
    BY <2>1 DEF OnceInv, ConsolidatedOnce
  <2> QED
    BY <1>1, <1>6, <1>7, <2>1
<1> QED
  BY <1>5, <1>8

(* The batch of the only pass stays fresh until it writes it.              *)
LEMMA FreshStep ==
    ASSUME OnePass, OnceInv, [Next]_vars
    PROVE  BatchFresh'
<1>1. ASSUME NEW p \in Passes, ReadEvents(p)
      PROVE  BatchFresh'
  <2>1. PICK S \in SUBSET EventIds :
           /\ IsBatch(S)
           /\ todo' = [todo EXCEPT ![p] = Clusters(S)]
           /\ phase' = [phase EXCEPT ![p] = IF S = {} THEN "distilling" ELSE "summarising"]
    BY <1>1 DEF ReadEvents
  <2>2. /\ prepared'[p] = {} /\ todo'[p] = Clusters(S)
        /\ phase'[p] \in {"distilling", "summarising"}
        /\ Unconsolidated' = Unconsolidated
    BY <1>1, <2>1
    DEF ReadEvents, store, OnceInv, BatchFresh, DreamTypes, TypeOK, Unconsolidated, Captured
  <2> QED
    BY <2>1, <2>2, ClustersDisjoint DEF OnePass, BatchFresh, Items
<1>2. ASSUME NEW p \in Passes, Summarise(p)
      PROVE  BatchFresh'
  <2>1. PICK i \in todo[p] :
           /\ todo' = [todo EXCEPT ![p] = @ \ {i}]
           /\ prepared' = [prepared EXCEPT ![p] = @ \cup {i}]
    BY <1>2 DEF Summarise
  <2>2. /\ Items(p)' \subseteq Items(p)
        /\ phase'[p] = "summarising" /\ phase[p] = "summarising"
        /\ Unconsolidated' = Unconsolidated
    BY <1>2, <2>1
    DEF Summarise, store, Items, OnceInv, DreamTypes, TypeOK, Unconsolidated, Captured
  <2> QED
    BY <2>2 DEF OnePass, OnceInv, BatchFresh
<1>3. ASSUME NEW p \in Passes, ReadSessions(p) \/ Narrate(p)
      PROVE  BatchFresh'
  <2>1. phase'[p] = "narrating"
    BY <1>3 DEF ReadSessions, Narrate, OnceInv, DreamTypes, TypeOK
  <2> QED
    BY <2>1 DEF OnePass, BatchFresh
<1>4. ASSUME NEW p \in Passes,
             StartPass(p) \/ WriteMemories(p) \/ WriteSummaries(p) \/ Interrupt(p)
      PROVE  BatchFresh'
  <2>1. prepared'[p] = {} /\ phase'[p] # "summarising"
    BY <1>4
    DEF StartPass, WriteMemories, WriteSummaries, Interrupt, Bill, OnceInv, BatchFresh,
        DreamTypes, TypeOK
  <2> QED
    BY <2>1 DEF OnePass, BatchFresh
<1>5. CASE CaptureEvent \/ GoIdle \/ WindowMoves \/ Archive \/ UNCHANGED vars
  <2>1. Unconsolidated \subseteq Unconsolidated' /\ UNCHANGED local
    BY <1>5, CaptureMarks
    DEF OnceInv, CaptureEvent, GoIdle, WindowMoves, Archive, vars, store, Unconsolidated, Captured
  <2> QED
    BY <2>1 DEF local, OnceInv, BatchFresh, Items
<1> QED
  BY <1>1, <1>2, <1>3, <1>4, <1>5 DEF Next, PassProgress

LEMMA OnceStep ==
    ASSUME OnceInv, [Next]_vars
    PROVE  EpisodesMarked' /\ ConsolidatedOnce'
<1>1. CASE CaptureEvent
  BY <1>1, CaptureMarks, UnmarkedStep DEF OnceInv, CaptureEvent
<1>2. ASSUME NEW p \in Passes, WriteSummaries(p)
      PROVE  EpisodesMarked' /\ ConsolidatedOnce'
  <2>1. \A m \in NewMemories(p, "summary") : m.kind = "summary"
    BY DEF NewMemories
  <2>2. UNCHANGED events /\ memories' = memories \cup NewMemories(p, "summary")
    BY <1>2 DEF WriteSummaries
  <2> QED
    BY <2>1, <2>2, UnmarkedStep DEF Unconsolidated, Consolidated, Captured
<1>3. CASE UNCHANGED <<events, memories>>
  BY <1>3, UnmarkedStep DEF Unconsolidated, Consolidated, Captured
<1>4. \/ CaptureEvent
      \/ \E p \in Passes : WriteMemories(p) \/ WriteSummaries(p)
      \/ UNCHANGED <<events, memories>>
  BY DEF Next, PassProgress, GoIdle, WindowMoves, Archive, StartPass, ReadEvents, Summarise,
         ReadSessions, Narrate, Interrupt, store, vars
<1> QED
  BY <1>1, <1>2, <1>3, <1>4, WriteOnce

(* With one pass at a time, cut short anywhere and with events arriving    *)
(* between any two of its steps, no event is a source of two episodes: a   *)
(* batch in progress holds only events no episode has, and each once.      *)
THEOREM OnePassConsolidatesOnce ==
    ASSUME OnePass
    PROVE  Spec => []ConsolidatedOnce
<1>1. OnceInv /\ [Next]_vars => OnceInv'
  <2> SUFFICES ASSUME OnceInv, [Next]_vars
               PROVE  OnceInv'
    OBVIOUS
  <2>1. DreamTypes'
    BY TypesStep DEF OnceInv
  <2> QED
    BY <2>1, FreshStep, OnceStep DEF OnceInv
<1>2. Init => OnceInv
  <2>1. Init => EpisodesMarked /\ BatchFresh /\ ConsolidatedOnce
    BY DEF Init, EpisodesMarked, BatchFresh, ConsolidatedOnce
  <2> QED
    BY <2>1, TypesInit DEF OnceInv
<1>3. OnceInv => ConsolidatedOnce
  BY DEF OnceInv
<1> QED
  BY <1>1, <1>2, <1>3, PTL DEF Spec

=============================================================================
