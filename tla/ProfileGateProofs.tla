-------------------------- MODULE ProfileGateProofs --------------------------
(***************************************************************************)
(* Proofs about the approvals gate, for any number of memories, approvals, *)
(* keys and interrupted passes.  With any number of passes: types, facts   *)
(* cite approved approvals one to one, the latest fact of a key is its     *)
(* active one, decisions are final.  With one pass at a time: a key is     *)
(* proposed once and a rejection is durable.                               *)
(***************************************************************************)
EXTENDS ProfileGate, FiniteSetTheorems, TLAPS

-----------------------------------------------------------------------------
(* The clock: at most MaxMemories, and less while an id is unused.         *)
LEMMA NowBounded ==
  ASSUME TypeOK
  PROVE  /\ Now \in 0..MaxMemories
         /\ \A m \in MemoryIds : memories[m].kind = "none" => Now + 1 \in 0..MaxMemories
PROOF
  <1> DEFINE C == {m \in MemoryIds : memories[m].kind # "none"}
  <1>1. IsFiniteSet(MemoryIds) /\ Cardinality(MemoryIds) = MaxMemories
    BY FS_Interval, GateBoundsAssumption, SMT DEF MemoryIds
  <1>2. IsFiniteSet(C) /\ Cardinality(C) <= MaxMemories /\ Cardinality(C) \in Nat
    <2>1. C \in SUBSET MemoryIds
      OBVIOUS
    <2> QED
      BY <1>1, <2>1, FS_Subset, FS_CardinalityType
  <1>3. Now = Cardinality(C)
    BY DEF Now
  <1>4. ASSUME NEW m \in MemoryIds, memories[m].kind = "none"
        PROVE  Cardinality(C) + 1 <= MaxMemories
    <2>1. m \notin C
      BY <1>4
    <2>2. C \in SUBSET (MemoryIds \ {m})
      BY <2>1
    <2>3. /\ IsFiniteSet(MemoryIds \ {m})
          /\ Cardinality(MemoryIds \ {m}) = MaxMemories - 1
      BY <1>1, FS_RemoveElement
    <2>4. Cardinality(C) <= MaxMemories - 1
      <3> HIDE DEF C
      <3> QED
        BY <2>2, <2>3, FS_Subset
    <2> HIDE DEF C
    <2> QED
      BY <1>2, <2>4, GateBoundsAssumption
  <1> HIDE DEF C
  <1> QED
    BY <1>2, <1>3, <1>4, GateBoundsAssumption

(* What an insertion into approvals does: rows present stay as they are,   *)
(* and every other row that changed is a pending proposal of a key of S.   *)
LEMMA InsertRows ==
  ASSUME TypeOK, NEW S, NEW keyOf \in [S -> Keys], NEW r \in 0..MaxMemories,
         Insert(S, keyOf, r)
  PROVE  /\ approvals' \in [ApprovalIds -> ApprovalRow]
         /\ \A a \in Present : approvals'[a] = approvals[a]
         /\ \A a \in ApprovalIds :
               \/ approvals'[a] = approvals[a]
               \/ /\ a \notin Present
                  /\ approvals'[a].state = "pending"
                  /\ \E s \in S : approvals'[a].key = keyOf[s]
         /\ \A a, b \in ApprovalIds \ Present :
               /\ approvals'[a].state # "absent"
               /\ approvals'[b].state # "absent"
               /\ approvals'[a].key = approvals'[b].key
               /\ \A s, t \in S : keyOf[s] = keyOf[t] => s = t
               => a = b
PROOF
  <1>1. PICK A \in SUBSET (ApprovalIds \ Present) : \E item \in Bijection(A, S) :
          approvals' = [a \in ApprovalIds |->
            IF a \in A THEN Proposal(keyOf[item[a]], r) ELSE approvals[a]]
    BY DEF Insert
  <1>2. PICK item \in Bijection(A, S) :
          approvals' = [a \in ApprovalIds |->
            IF a \in A THEN Proposal(keyOf[item[a]], r) ELSE approvals[a]]
    BY <1>1
  <1>3. /\ item \in [A -> S]
        /\ \A a, b \in A : item[a] = item[b] => a = b
    BY DEF Bijection, Injection, IsInjective
  <1>4. \A a \in A :
          /\ keyOf[item[a]] \in Keys
          /\ item[a] \in S
          /\ a \in ApprovalIds \ Present
    BY <1>3
  <1>5. ASSUME NEW a \in A
         PROVE  /\ approvals'[a] \in ApprovalRow
                /\ approvals'[a].state = "pending"
                /\ approvals'[a].key = keyOf[item[a]]
    <2>1. approvals'[a] = Proposal(keyOf[item[a]], r)
      BY <1>2
    <2>2. approvals'[a] = [state |-> "pending", key |-> keyOf[item[a]], requested |-> r]
      BY <2>1 DEF Proposal
    <2>3. keyOf[item[a]] \in {"none"} \cup Keys
      BY <1>4
    <2> QED
      BY <2>2, <2>3 DEF ApprovalRow
  <1>6. \A a \in ApprovalIds \ A : approvals'[a] = approvals[a]
    BY <1>2
  <1>7. \A a \in A : approvals'[a] \in ApprovalRow
    BY <1>5
  <1>8. approvals' \in [ApprovalIds -> ApprovalRow]
    <2>1. \A a \in ApprovalIds : approvals'[a] \in ApprovalRow
      BY <1>6, <1>7 DEF TypeOK
    <2>2. approvals' = [a \in ApprovalIds |-> approvals'[a]]
      BY <1>2
    <2> QED
      BY <2>1, <2>2
  <1>9. \A a \in Present : approvals'[a] = approvals[a]
    BY <1>6 DEF Present
  <1>10. \A a \in ApprovalIds :
           \/ approvals'[a] = approvals[a]
           \/ /\ a \notin Present
              /\ approvals'[a].state = "pending"
              /\ \E s \in S : approvals'[a].key = keyOf[s]
    BY <1>4, <1>6, <1>5
  <1>11. ASSUME NEW a \in ApprovalIds \ Present, NEW b \in ApprovalIds \ Present,
                approvals'[a].state # "absent", approvals'[b].state # "absent",
                approvals'[a].key = approvals'[b].key,
                \A s, t \in S : keyOf[s] = keyOf[t] => s = t
         PROVE  a = b
    <2>1. a \in A /\ b \in A
      BY <1>6, <1>11 DEF Present
    <2>2. keyOf[item[a]] = keyOf[item[b]]
      BY <2>1, <1>5, <1>11
    <2> QED
      BY <2>1, <2>2, <1>3, <1>4, <1>11
  <1> QED
    BY <1>8, <1>9, <1>10, <1>11

(* What a commit does to the facts table.                                  *)
LEMMA CommitRows ==
  ASSUME TypeOK, NEW k, NEW f \in FactRow, facts' = Append(Superseded(k), f)
  PROVE  /\ Len(facts) \in Nat
         /\ DOMAIN facts = 1..Len(facts)
         /\ DOMAIN facts' = 1..(Len(facts) + 1)
         /\ facts'[Len(facts) + 1] = f
         /\ \A i \in 1..Len(facts) :
               facts'[i] = IF facts[i].key = k
                           THEN [facts[i] EXCEPT !.state = "superseded"]
                           ELSE facts[i]
         /\ facts' \in Seq(FactRow)
PROOF
  <1>1. /\ Len(facts) \in Nat
        /\ DOMAIN facts = 1..Len(facts)
        /\ \A i \in 1..Len(facts) : facts[i] \in FactRow
    BY DEF TypeOK
  <1>2. \A i \in 1..Len(facts) : [facts[i] EXCEPT !.state = "superseded"] \in FactRow
    BY <1>1 DEF FactRow
  <1>3. /\ Superseded(k) \in [1..Len(facts) -> FactRow]
        /\ Superseded(k) \in Seq(FactRow)
        /\ Len(Superseded(k)) = Len(facts)
    BY <1>1, <1>2 DEF Superseded
  <1>4. \A i \in 1..Len(facts) :
           Superseded(k)[i] = IF facts[i].key = k
                              THEN [facts[i] EXCEPT !.state = "superseded"]
                              ELSE facts[i]
    BY <1>1 DEF Superseded
  <1> QED
    BY <1>1, <1>3, <1>4

-----------------------------------------------------------------------------
(* Types.                                                                  *)

LEMMA GateInitType == Init => TypeOK
PROOF
  <1> SUFFICES ASSUME Init PROVE TypeOK
    OBVIOUS
  <1>1. NoMemory \in MemoryRow /\ NoApproval \in ApprovalRow
    BY GateBoundsAssumption DEF NoMemory, NoApproval, MemoryRow, ApprovalRow
  <1>2. memories \in [MemoryIds -> MemoryRow] /\ approvals \in [ApprovalIds -> ApprovalRow]
    BY <1>1 DEF Init
  <1>3. Present = {}
    BY DEF Init, Present, NoApproval
  <1>4. facts \in Seq(FactRow)
    BY DEF Init
  <1>5. \A m \in MemoryIds : memories[m].kind = "none"
    BY DEF Init, NoMemory
  <1>6. 0 \in 0..MaxMemories /\ 0 \in 0..MaxInterrupts
    BY GateBoundsAssumption
  <1> QED
    BY <1>2, <1>3, <1>4, <1>5, <1>6 DEF Init, TypeOK, Phases

(* The rows of the tables that a memory or an insertion adds are typed,    *)
(* and a local step keeps what TypeOK says across tables.                  *)
LEMMA InsertTyped ==
  ASSUME TypeOK, NEW S, NEW keyOf \in [S -> Keys], NEW r \in 0..MaxMemories,
         Insert(S, keyOf, r)
  PROVE  /\ approvals' \in [ApprovalIds -> ApprovalRow]
         /\ \A a \in Present' : approvals'[a].key \in Keys
         /\ Present \subseteq Present'
PROOF
  <1>1. /\ approvals' \in [ApprovalIds -> ApprovalRow]
        /\ \A a \in Present : approvals'[a] = approvals[a]
        /\ \A a \in ApprovalIds :
              \/ approvals'[a] = approvals[a]
              \/ /\ a \notin Present
                 /\ approvals'[a].state = "pending"
                 /\ \E s \in S : approvals'[a].key = keyOf[s]
    BY InsertRows
  <1>2. \A a \in Present : approvals[a].key \in Keys
    BY DEF TypeOK
  <1>3. Present \subseteq Present'
    BY <1>1 DEF Present
  <1>4. \A a \in Present' : approvals'[a].key \in Keys
    BY <1>1, <1>2 DEF Present
  <1> QED
    BY <1>1, <1>3, <1>4

LEMMA DecideTyped ==
  ASSUME TypeOK, NEW a \in Present, NEW accept \in BOOLEAN, DecideApproval(a, accept)
  PROVE  /\ approvals' \in [ApprovalIds -> ApprovalRow]
         /\ \A b \in Present' : approvals'[b].key \in Keys
         /\ Present \subseteq Present'
         /\ facts' \in Seq(FactRow)
PROOF
  <1>1. /\ a \in ApprovalIds
        /\ approvals[a].key \in Keys
        /\ approvals \in [ApprovalIds -> ApprovalRow]
        /\ facts \in Seq(FactRow)
        /\ \A b \in Present : approvals[b].key \in Keys
    BY DEF TypeOK, Present
  <1>2. ASSUME NEW st \in {"approved", "rejected"},
               approvals' = [approvals EXCEPT ![a].state = st]
        PROVE  /\ approvals' \in [ApprovalIds -> ApprovalRow]
               /\ \A b \in Present' : approvals'[b].key \in Keys
               /\ Present \subseteq Present'
    <2>1. \A b \in ApprovalIds : approvals[b] \in ApprovalRow
      BY <1>1
    <2>2. [approvals[a] EXCEPT !.state = st] \in ApprovalRow
      BY <2>1, <1>1 DEF ApprovalRow
    <2>3. approvals' \in [ApprovalIds -> ApprovalRow]
      BY <1>1, <1>2, <2>2
    <2>4. /\ approvals'[a].state = st
          /\ approvals'[a].key = approvals[a].key
          /\ \A b \in ApprovalIds \ {a} : approvals'[b] = approvals[b]
      BY <1>1, <1>2, <2>1 DEF ApprovalRow
    <2> QED
      BY <2>3, <2>4, <1>1 DEF Present
  <1>3. CASE Approve(a)
    <2>1. NewFact(a) \in FactRow
      BY <1>1 DEF NewFact, FactRow
    <2>2. facts' \in Seq(FactRow)
      BY <1>3, <2>1, CommitRows DEF Approve
    <2> QED
      BY <1>2, <1>3, <2>2 DEF Approve
  <1>4. CASE Reject(a)
    BY <1>1, <1>2, <1>4 DEF Reject
  <1>5. CASE AlreadyDecided(a)
    BY <1>1, <1>5 DEF AlreadyDecided, Present
  <1> QED
    BY <1>3, <1>4, <1>5 DEF DecideApproval

LEMMA GateTypeStep ==
  ASSUME TypeOK, [Next]_vars
  PROVE  TypeOK'
PROOF
  <1> USE DEF local, table
  <1>1. CASE CreateMemory
    <2>1. PICK m \in MemoryIds, kind \in Candidates \cup Evidence, k \in FactKeys :
            /\ memories[m].kind = "none"
            /\ memories' = [memories EXCEPT ![m] = [kind |-> kind, key |-> k, created |-> Now + 1]]
      BY <1>1 DEF CreateMemory
    <2>2. [kind |-> kind, key |-> k, created |-> Now + 1] \in MemoryRow
      BY <2>1, NowBounded DEF MemoryRow
    <2>3. memories' \in [MemoryIds -> MemoryRow]
      BY <2>1, <2>2 DEF TypeOK
    <2>4. /\ memories'[m].kind # "none" /\ memories'[m].key \in FactKeys
          /\ \A n \in MemoryIds \ {m} : memories'[n] = memories[n]
      BY <2>1 DEF TypeOK, Candidates, Evidence
    <2>5. /\ UNCHANGED <<approvals, facts, phase, asOf, todo, seen, prepared, sweep, interrupts>>
          /\ Present' = Present
      BY <1>1 DEF CreateMemory, Present
    <2>6. /\ \A p \in Passes : \A n \in todo'[p] \cup prepared'[p] : memories'[n].kind # "none"
          /\ \A n \in MemoryIds : memories'[n].kind # "none" => memories'[n].key \in FactKeys
      BY <2>4, <2>5 DEF TypeOK
    <2> QED
      BY <2>3, <2>5, <2>6 DEF TypeOK
  <1>2. CASE OwnerDecides
    <2>1. PICK a \in Present, accept \in BOOLEAN : DecideApproval(a, accept)
      BY <1>2 DEF OwnerDecides
    <2> QED
      BY <1>2, <2>1, DecideTyped DEF OwnerDecides, TypeOK
  <1>3. ASSUME NEW p \in Passes, PassProgress(p) \/ Interrupt(p)
        PROVE  TypeOK'
    <2>1. CASE StartExtract(p)
      <3>1. PICK S \in SUBSET MemoryIds :
              /\ IsBatch(S)
              /\ todo' = [todo EXCEPT ![p] = S]
              /\ phase' = [phase EXCEPT ![p] = IF S = {} THEN "extracted" ELSE "probing"]
        BY <2>1 DEF StartExtract
      <3>2. \A m \in S : memories[m].kind # "none"
        BY <3>1 DEF IsBatch, ProfileRelevant, Candidates
      <3>3. Now \in 0..MaxMemories
        BY NowBounded
      <3>4. asOf' \in [Passes -> 0..MaxMemories]
        BY <2>1, <3>3 DEF StartExtract, TypeOK
      <3>5. /\ todo' \in [Passes -> SUBSET MemoryIds]
            /\ phase' \in [Passes -> Phases]
            /\ seen' \in [Passes -> SUBSET FactKeys]
            /\ prepared' \in [Passes -> SUBSET MemoryIds]
            /\ \A q \in Passes : \A m \in todo'[q] \cup prepared'[q] : memories[m].kind # "none"
        BY <2>1, <3>1, <3>2 DEF StartExtract, TypeOK, Phases
      <3>6. /\ UNCHANGED <<memories, approvals, facts, sweep, interrupts>>
            /\ Present' = Present
        BY <2>1 DEF StartExtract, Present
      <3> QED
        BY <3>4, <3>5, <3>6 DEF TypeOK
    <2>2. CASE ProbeCandidate(p)
      <3>1. PICK m \in todo[p] :
              /\ todo' = [todo EXCEPT ![p] = @ \ {m}]
              /\ seen' = [seen EXCEPT ![p] = @ \cup {memories[m].key}]
              /\ \/ prepared' = [prepared EXCEPT ![p] = @ \cup {m}]
                 \/ UNCHANGED prepared
        BY <2>2 DEF ProbeCandidate
      <3>2. m \in MemoryIds /\ memories[m].kind # "none" /\ memories[m].key \in FactKeys
        BY <3>1 DEF TypeOK
      <3>3. /\ todo' \in [Passes -> SUBSET MemoryIds]
            /\ seen' \in [Passes -> SUBSET FactKeys]
            /\ prepared' \in [Passes -> SUBSET MemoryIds]
            /\ \A q \in Passes : \A n \in todo'[q] \cup prepared'[q] : memories[n].kind # "none"
        <4>1. /\ todo \in [Passes -> SUBSET MemoryIds]
              /\ seen \in [Passes -> SUBSET FactKeys]
              /\ prepared \in [Passes -> SUBSET MemoryIds]
              /\ \A q \in Passes : \A n \in todo[q] \cup prepared[q] : memories[n].kind # "none"
          BY DEF TypeOK
        <4>2. /\ todo' \in [Passes -> SUBSET MemoryIds]
              /\ \A q \in Passes : todo'[q] \subseteq todo[q]
          BY <3>1, <4>1
        <4>3. seen' \in [Passes -> SUBSET FactKeys]
          BY <3>1, <3>2, <4>1
        <4>4. /\ prepared' \in [Passes -> SUBSET MemoryIds]
              /\ \A q \in Passes : prepared'[q] \subseteq prepared[q] \cup {m}
          BY <3>1, <3>2, <4>1
        <4> QED
          BY <3>2, <4>1, <4>2, <4>3, <4>4
      <3>4. /\ UNCHANGED <<memories, approvals, facts, phase, asOf, sweep, interrupts>>
            /\ Present' = Present
        BY <2>2 DEF ProbeCandidate, Present
      <3> QED
        BY <3>3, <3>4 DEF TypeOK
    <2>3. CASE WriteProposals(p)
      <3> DEFINE keyOf == [m \in prepared[p] |-> memories[m].key]
      <3>1. keyOf \in [prepared[p] -> Keys]
        BY DEF TypeOK, Keys
      <3>2. asOf[p] \in 0..MaxMemories
        BY DEF TypeOK
      <3>3. Insert(prepared[p], keyOf, asOf[p])
        BY <2>3 DEF WriteProposals
      <3>4. /\ approvals' \in [ApprovalIds -> ApprovalRow]
            /\ \A a \in Present' : approvals'[a].key \in Keys
            /\ Present \subseteq Present'
        <4> HIDE DEF keyOf
        <4> QED
          BY <3>1, <3>2, <3>3, InsertTyped
      <3>5. /\ UNCHANGED <<memories, facts, asOf, todo, sweep, interrupts>>
            /\ seen' \in [Passes -> SUBSET FactKeys]
            /\ prepared' \in [Passes -> SUBSET MemoryIds]
            /\ phase' \in [Passes -> Phases]
            /\ \A q \in Passes : prepared'[q] \subseteq prepared[q]
        BY <2>3 DEF WriteProposals, TypeOK, Phases
      <3> QED
        BY <3>4, <3>5 DEF TypeOK
    <2>4. CASE GatherEvidence(p)
      <3>1. /\ phase' \in [Passes -> Phases]
            /\ asOf' \in [Passes -> 0..MaxMemories]
        <4>1. Now \in 0..MaxMemories /\ 0 \in 0..MaxMemories
          BY NowBounded, GateBoundsAssumption
        <4>2. \E v \in 0..MaxMemories, ph \in Phases :
                 asOf' = [asOf EXCEPT ![p] = v] /\ phase' = [phase EXCEPT ![p] = ph]
          BY <2>4, <4>1 DEF GatherEvidence, Phases
        <4> QED
          BY <4>2 DEF TypeOK
      <3> QED
        BY <2>4, <3>1 DEF GatherEvidence, TypeOK, Present
    <2>5. CASE ProposeHeuristics(p)
      <3>1. PICK K \in SUBSET HeuristicKeys :
              LET new == {k \in K : ~Proposed(k) /\ ~HasActiveFact(k)}
              IN  Insert(new, [k \in new |-> k], asOf[p])
        BY <2>5 DEF ProposeHeuristics
      <3> DEFINE new == {k \in K : ~Proposed(k) /\ ~HasActiveFact(k)}
                 keyOf == [k \in new |-> k]
      <3>2. keyOf \in [new -> Keys]
        BY DEF Keys
      <3>3. asOf[p] \in 0..MaxMemories
        BY DEF TypeOK
      <3>4. Insert(new, keyOf, asOf[p])
        BY <3>1
      <3>5. /\ approvals' \in [ApprovalIds -> ApprovalRow]
            /\ \A a \in Present' : approvals'[a].key \in Keys
            /\ Present \subseteq Present'
        <4> HIDE DEF new, keyOf
        <4> QED
          BY <3>2, <3>3, <3>4, InsertTyped
      <3>6. /\ UNCHANGED <<memories, facts, todo, seen, prepared, sweep, interrupts>>
            /\ asOf' \in [Passes -> 0..MaxMemories]
            /\ phase' \in [Passes -> Phases]
        BY <2>5, GateBoundsAssumption DEF ProposeHeuristics, TypeOK, Phases
      <3> QED
        BY <3>5, <3>6 DEF TypeOK
    <2>6. CASE StartSweep(p)
      <3>1. /\ phase' \in [Passes -> Phases]
            /\ sweep' \in [Passes -> SUBSET ApprovalIds]
            /\ \A q \in Passes : sweep'[q] \subseteq Present
        <4>1. Sweepable \in SUBSET ApprovalIds /\ Sweepable \subseteq Present
          BY DEF Sweepable, Pending, Present
        <4>2. /\ \E ph \in Phases : phase' = [phase EXCEPT ![p] = ph]
              /\ sweep' = [sweep EXCEPT ![p] = Sweepable] \/ sweep' = sweep
          BY <2>6 DEF StartSweep, Phases
        <4> QED
          BY <4>1, <4>2 DEF TypeOK
      <3> QED
        BY <2>6, <3>1 DEF StartSweep, TypeOK, Present
    <2>7. CASE SweepNext(p)
      <3>1. PICK a \in sweep[p] :
              /\ DecideApproval(a, TRUE)
              /\ sweep' = [sweep EXCEPT ![p] = @ \ {a}]
        BY <2>7 DEF SweepNext
      <3>2. a \in Present
        BY <3>1 DEF TypeOK
      <3>3. /\ approvals' \in [ApprovalIds -> ApprovalRow]
            /\ \A b \in Present' : approvals'[b].key \in Keys
            /\ Present \subseteq Present'
            /\ facts' \in Seq(FactRow)
        BY <3>1, <3>2, DecideTyped
      <3>4. /\ sweep' \in [Passes -> SUBSET ApprovalIds]
            /\ \A q \in Passes : sweep'[q] \subseteq sweep[q]
        BY <3>1 DEF TypeOK
      <3> QED
        BY <2>7, <3>3, <3>4 DEF SweepNext, TypeOK
    <2>8. CASE EndPass(p)
      <3>1. phase' \in [Passes -> Phases]
        BY <2>8 DEF EndPass, TypeOK, Phases
      <3> QED
        BY <2>8, <3>1 DEF EndPass, TypeOK, Present
    <2>9. CASE Interrupt(p)
      <3>1. /\ phase' \in [Passes -> Phases]
            /\ asOf' \in [Passes -> 0..MaxMemories]
            /\ todo' \in [Passes -> SUBSET MemoryIds]
            /\ seen' \in [Passes -> SUBSET FactKeys]
            /\ prepared' \in [Passes -> SUBSET MemoryIds]
            /\ sweep' \in [Passes -> SUBSET ApprovalIds]
            /\ \A q \in Passes : /\ sweep'[q] \subseteq sweep[q]
                                 /\ todo'[q] \subseteq todo[q]
                                 /\ prepared'[q] \subseteq prepared[q]
        BY <2>9, GateBoundsAssumption DEF Interrupt, TypeOK, Phases
      <3>2. interrupts' \in 0..MaxInterrupts
        BY <2>9, GateBoundsAssumption DEF Interrupt, TypeOK
      <3>3. UNCHANGED <<memories, approvals, facts>> /\ Present' = Present
        BY <2>9 DEF Interrupt, Present
      <3> QED
        BY <3>1, <3>2, <3>3 DEF TypeOK
    <2> QED
      BY <1>3, <2>1, <2>2, <2>3, <2>4, <2>5, <2>6, <2>7, <2>8, <2>9 DEF PassProgress
  <1>4. CASE UNCHANGED vars
    BY <1>4 DEF vars, TypeOK, Present
  <1> QED
    BY <1>1, <1>2, <1>3, <1>4 DEF Next

(* Every reachable state is well typed, for any passes, memories and keys. *)
THEOREM GateTypeCorrect == Spec => []TypeOK
PROOF
  <1> QED
    BY GateInitType, GateTypeStep, PTL DEF Spec

-----------------------------------------------------------------------------
(* Facts: with any number of passes and any decisions.                     *)

(* What a step may do to approvals and facts: nothing, insert pending      *)
(* rows, or one decision.                                                  *)
LEMMA GateStepShape ==
  ASSUME TypeOK, [Next]_vars
  PROVE  \/ UNCHANGED <<approvals, facts>>
         \/ /\ facts' = facts
            /\ approvals' \in [ApprovalIds -> ApprovalRow]
            /\ \A a \in Present : approvals'[a] = approvals[a]
            /\ \A a \in ApprovalIds :
                  \/ approvals'[a] = approvals[a]
                  \/ a \notin Present /\ approvals'[a].state = "pending"
         \/ \E a \in Present, accept \in BOOLEAN : DecideApproval(a, accept)
PROOF
  <1> USE DEF local, table
  <1>1. CASE CreateMemory
    BY <1>1 DEF CreateMemory
  <1>2. CASE OwnerDecides
    BY <1>2 DEF OwnerDecides
  <1>3. ASSUME NEW p \in Passes, WriteProposals(p)
        PROVE  /\ facts' = facts
               /\ approvals' \in [ApprovalIds -> ApprovalRow]
               /\ \A a \in Present : approvals'[a] = approvals[a]
               /\ \A a \in ApprovalIds :
                     \/ approvals'[a] = approvals[a]
                     \/ a \notin Present /\ approvals'[a].state = "pending"
    <2> DEFINE keyOf == [m \in prepared[p] |-> memories[m].key]
    <2>1. /\ keyOf \in [prepared[p] -> Keys]
          /\ asOf[p] \in 0..MaxMemories
          /\ Insert(prepared[p], keyOf, asOf[p])
      BY <1>3 DEF WriteProposals, TypeOK, Keys
    <2> HIDE DEF keyOf
    <2>2. facts' = facts
      BY <1>3 DEF WriteProposals
    <2> QED
      BY <2>1, <2>2, InsertRows
  <1>4. ASSUME NEW p \in Passes, ProposeHeuristics(p)
        PROVE  /\ facts' = facts
               /\ approvals' \in [ApprovalIds -> ApprovalRow]
               /\ \A a \in Present : approvals'[a] = approvals[a]
               /\ \A a \in ApprovalIds :
                     \/ approvals'[a] = approvals[a]
                     \/ a \notin Present /\ approvals'[a].state = "pending"
    <2>1. PICK K \in SUBSET HeuristicKeys :
            LET new == {k \in K : ~Proposed(k) /\ ~HasActiveFact(k)}
            IN  Insert(new, [k \in new |-> k], asOf[p])
      BY <1>4 DEF ProposeHeuristics
    <2> DEFINE new == {k \in K : ~Proposed(k) /\ ~HasActiveFact(k)}
               keyOf == [k \in new |-> k]
    <2>2. /\ keyOf \in [new -> Keys]
          /\ asOf[p] \in 0..MaxMemories
          /\ Insert(new, keyOf, asOf[p])
      BY <2>1 DEF TypeOK, Keys
    <2> HIDE DEF new, keyOf
    <2>3. facts' = facts
      BY <1>4 DEF ProposeHeuristics
    <2> QED
      BY <2>2, <2>3, InsertRows
  <1>5. ASSUME NEW p \in Passes, SweepNext(p)
        PROVE  \E a \in Present, accept \in BOOLEAN : DecideApproval(a, accept)
    <2>1. PICK a \in sweep[p] : DecideApproval(a, TRUE)
      BY <1>5 DEF SweepNext
    <2>2. a \in Present
      BY DEF TypeOK
    <2> QED
      BY <2>1, <2>2
  <1>6. ASSUME NEW p \in Passes,
               \/ StartExtract(p) \/ ProbeCandidate(p) \/ GatherEvidence(p)
               \/ StartSweep(p) \/ EndPass(p) \/ Interrupt(p)
        PROVE  UNCHANGED <<approvals, facts>>
    BY <1>6 DEF StartExtract, ProbeCandidate, GatherEvidence, StartSweep, EndPass, Interrupt
  <1>7. CASE UNCHANGED vars
    BY <1>7 DEF vars
  <1> QED
    BY <1>1, <1>2, <1>3, <1>4, <1>5, <1>6, <1>7 DEF Next, PassProgress

(* What a decision does, row by row.                                       *)
LEMMA DecideRows ==
  ASSUME TypeOK, NEW a \in Present, NEW accept \in BOOLEAN, DecideApproval(a, accept)
  PROVE  \/ UNCHANGED <<approvals, facts>>
         \/ /\ approvals[a].state = "pending"
            /\ approvals'[a].key = approvals[a].key
            /\ \A b \in ApprovalIds \ {a} : approvals'[b] = approvals[b]
            /\ \/ approvals'[a].state = "rejected" /\ facts' = facts
               \/ /\ approvals'[a].state = "approved"
                  /\ facts' = Append(Superseded(approvals[a].key), NewFact(a))
PROOF
  <1>1. /\ a \in ApprovalIds
        /\ approvals \in [ApprovalIds -> ApprovalRow]
        /\ approvals[a] \in ApprovalRow
    BY DEF TypeOK, Present
  <1>2. ASSUME NEW st \in {"approved", "rejected"},
               approvals' = [approvals EXCEPT ![a].state = st]
        PROVE  /\ approvals'[a].state = st
               /\ approvals'[a].key = approvals[a].key
               /\ \A b \in ApprovalIds \ {a} : approvals'[b] = approvals[b]
    BY <1>1, <1>2 DEF ApprovalRow
  <1>3. CASE Approve(a)
    BY <1>2, <1>3 DEF Approve, Undecided
  <1>4. CASE Reject(a)
    BY <1>2, <1>4 DEF Reject, Undecided
  <1>5. CASE AlreadyDecided(a)
    BY <1>5 DEF AlreadyDecided
  <1> QED
    BY <1>3, <1>4, <1>5 DEF DecideApproval

LEMMA FactsStep ==
  ASSUME TypeOK, FactsCiteApprovals, LatestFactActive, [Next]_vars
  PROVE  FactsCiteApprovals' /\ LatestFactActive'
PROOF
  <1>0. \A i \in DOMAIN facts : facts[i] \in FactRow /\ facts[i].approval \in ApprovalIds
    <2>1. facts \in Seq(FactRow)
      BY DEF TypeOK
    <2>2. \A i \in DOMAIN facts : facts[i] \in FactRow
      BY <2>1
    <2> QED
      BY <2>2 DEF FactRow
  <1>1. CASE UNCHANGED <<approvals, facts>>
    BY <1>1 DEF FactsCiteApprovals, LatestFactActive
  <1>2. CASE /\ facts' = facts
             /\ \A a \in Present : approvals'[a] = approvals[a]
             /\ \A a \in ApprovalIds :
                   \/ approvals'[a] = approvals[a]
                   \/ a \notin Present /\ approvals'[a].state = "pending"
    <2>1. \A i \in DOMAIN facts : facts[i].approval \in Present
      BY <1>0 DEF FactsCiteApprovals, Present
    <2>2. FactsCiteApprovals'
      BY <1>2, <2>1 DEF FactsCiteApprovals
    <2> QED
      BY <1>2, <2>2 DEF LatestFactActive
  <1>3. ASSUME NEW a \in Present, NEW accept \in BOOLEAN, DecideApproval(a, accept)
        PROVE  FactsCiteApprovals' /\ LatestFactActive'
    <2>1. CASE UNCHANGED <<approvals, facts>>
      BY <2>1, <1>1
    <2>2. a \in ApprovalIds /\ approvals[a].key \in Keys
      BY DEF Present, TypeOK
    <2>3. CASE /\ approvals[a].state = "pending"
               /\ approvals'[a].key = approvals[a].key
               /\ \A b \in ApprovalIds \ {a} : approvals'[b] = approvals[b]
               /\ approvals'[a].state = "rejected"
               /\ facts' = facts
      <3>1. \A i \in DOMAIN facts : facts[i].approval \in ApprovalIds \ {a}
        BY <1>0, <2>3 DEF FactsCiteApprovals
      <3>2. FactsCiteApprovals'
        BY <2>3, <3>1 DEF FactsCiteApprovals
      <3> QED
        BY <2>3, <3>2 DEF LatestFactActive
    <2>4. CASE /\ approvals[a].state = "pending"
               /\ approvals'[a].key = approvals[a].key
               /\ \A b \in ApprovalIds \ {a} : approvals'[b] = approvals[b]
               /\ approvals'[a].state = "approved"
               /\ facts' = Append(Superseded(approvals[a].key), NewFact(a))
      <3> DEFINE n == Len(facts)
                 k == approvals[a].key
      <3>1. NewFact(a) \in FactRow
        BY <2>2 DEF NewFact, FactRow
      <3>2. /\ n \in Nat
            /\ DOMAIN facts = 1..n
            /\ DOMAIN facts' = 1..(n + 1)
            /\ facts'[n + 1] = NewFact(a)
            /\ \A i \in 1..n :
                  facts'[i] = IF facts[i].key = k
                              THEN [facts[i] EXCEPT !.state = "superseded"]
                              ELSE facts[i]
        BY <2>4, <3>1, CommitRows
      <3>3. \A i \in 1..n : facts[i] \in FactRow
        BY <3>2 DEF TypeOK
      <3>4. \A i \in 1..n :
               /\ facts'[i].key = facts[i].key
               /\ facts'[i].approval = facts[i].approval
               /\ facts[i].key = k => facts'[i].state = "superseded"
               /\ facts[i].key # k => facts'[i].state = facts[i].state
        BY <3>2, <3>3 DEF FactRow
      <3>5. /\ facts'[n + 1].key = k
            /\ facts'[n + 1].approval = a
            /\ facts'[n + 1].state = "active"
        BY <3>2 DEF NewFact
      <3>6. \A i \in 1..n : facts[i].approval \in ApprovalIds \ {a}
        BY <2>4, <3>2, <3>3 DEF FactsCiteApprovals, FactRow
      <3>7. FactsCiteApprovals'
        <4>1. \A i \in DOMAIN facts' :
                 /\ approvals'[facts'[i].approval].state = "approved"
                 /\ approvals'[facts'[i].approval].key = facts'[i].key
          <5>1. \A i \in 1..n :
                   /\ approvals'[facts[i].approval].state = "approved"
                   /\ approvals'[facts[i].approval].key = facts[i].key
            BY <2>4, <3>2, <3>6 DEF FactsCiteApprovals
          <5> QED
            BY <5>1, <2>4, <3>2, <3>4, <3>5
        <4>2. \A i, j \in DOMAIN facts' : facts'[i].approval = facts'[j].approval => i = j
          <5>1. \A i, j \in 1..n : facts[i].approval = facts[j].approval => i = j
            BY <3>2 DEF FactsCiteApprovals
          <5> HIDE DEF n, k
          <5> QED
            BY <5>1, <3>2, <3>4, <3>5, <3>6
        <4>3. ASSUME NEW b \in ApprovalIds, approvals'[b].state = "approved"
              PROVE  \E i \in DOMAIN facts' : facts'[i].approval = b
          <5>1. CASE b = a
            BY <5>1, <3>2, <3>5
          <5>2. CASE b # a
            <6>1. PICK i \in 1..n : facts[i].approval = b
              BY <2>4, <3>2, <4>3, <5>2 DEF FactsCiteApprovals
            <6> QED
              BY <6>1, <3>2, <3>4
          <5> QED
            BY <5>1, <5>2
        <4> QED
          BY <4>1, <4>2, <4>3 DEF FactsCiteApprovals
      <3>8. LatestFactActive'
        <4> SUFFICES ASSUME NEW i \in 1..(n + 1)
                     PROVE  facts'[i].state = "active" <=>
                              \A j \in 1..(n + 1) : j > i => facts'[j].key # facts'[i].key
          BY <3>2 DEF LatestFactActive
        <4>1. CASE i = n + 1
          <5>1. \A j \in 1..(n + 1) : ~(j > i)
            BY <4>1, <3>2
          <5> QED
            BY <5>1, <4>1, <3>5
        <4>2. CASE i \in 1..n /\ facts[i].key = k
          <5>1. n + 1 \in 1..(n + 1) /\ n + 1 > i
            BY <4>2, <3>2
          <5> QED
            BY <5>1, <4>2, <3>4, <3>5
        <4>3. CASE i \in 1..n /\ facts[i].key # k
          <5>1. facts[i].state = "active" <=>
                  \A j \in 1..n : j > i => facts[j].key # facts[i].key
            BY <4>3, <3>2 DEF LatestFactActive
          <5>2. \A j \in 1..(n + 1) : j \in 1..n \/ j = n + 1
            BY <3>2
          <5>3. \A j \in 1..n : j \in 1..(n + 1) /\ facts'[j].key = facts[j].key
            BY <3>2, <3>4
          <5>4. facts'[n + 1].key # facts[i].key
            BY <4>3, <3>5
          <5>5. facts'[i].key = facts[i].key /\ facts'[i].state = facts[i].state
            BY <4>3, <3>4
          <5> HIDE DEF n, k
          <5> QED
            BY <5>1, <5>2, <5>3, <5>4, <5>5
        <4>4. i = n + 1 \/ i \in 1..n
          BY <3>2
        <4> QED
          BY <4>1, <4>2, <4>3, <4>4
      <3> QED
        BY <3>7, <3>8
    <2> QED
      BY <1>3, <2>1, <2>3, <2>4, DecideRows
  <1> QED
    BY <1>1, <1>2, <1>3, GateStepShape

(* What an inductive invariant needs for the facts table.                  *)
LEMMA FactsInitially == Init => FactsCiteApprovals /\ LatestFactActive
PROOF
  <1> SUFFICES ASSUME Init PROVE FactsCiteApprovals /\ LatestFactActive
    OBVIOUS
  <1>1. DOMAIN facts = {} /\ \A a \in ApprovalIds : approvals[a].state = "absent"
    BY DEF Init, NoApproval
  <1> QED
    BY <1>1 DEF FactsCiteApprovals, LatestFactActive

(* H6, for any passes, owners and interruptions: every fact cites its own  *)
(* approved approval, no decision commits twice and none commits half.     *)
THEOREM FactsCite == Spec => []FactsCiteApprovals
PROOF
  <1>1. TypeOK /\ FactsCiteApprovals /\ LatestFactActive /\ [Next]_vars
        => (TypeOK /\ FactsCiteApprovals /\ LatestFactActive)'
    BY GateTypeStep, FactsStep
  <1> QED
    BY <1>1, GateInitType, FactsInitially, PTL DEF Spec

(* The active fact of a key is the last one committed for it, so the       *)
(* unique index on active facts never refuses a commit.                    *)
THEOREM LatestActive == Spec => []LatestFactActive
PROOF
  <1>1. TypeOK /\ FactsCiteApprovals /\ LatestFactActive /\ [Next]_vars
        => (TypeOK /\ FactsCiteApprovals /\ LatestFactActive)'
    BY GateTypeStep, FactsStep
  <1> QED
    BY <1>1, GateInitType, FactsInitially, PTL DEF Spec

(* No owner, sweep or later proposal changes a decided approval.           *)
THEOREM DecisionsFinal == Spec => DecidedOnce
PROOF
  <1>1. TypeOK /\ [Next]_vars =>
          [\A a \in ApprovalIds :
              approvals[a].state \in {"approved", "rejected"} =>
                  approvals'[a] = approvals[a]]_vars
    <2> SUFFICES ASSUME TypeOK, [Next]_vars,
                        NEW a \in ApprovalIds, approvals[a].state \in {"approved", "rejected"}
                 PROVE  approvals'[a] = approvals[a]
      OBVIOUS
    <2>1. a \in Present
      BY DEF Present
    <2>2. ASSUME NEW b \in Present, NEW accept \in BOOLEAN, DecideApproval(b, accept)
          PROVE  approvals'[a] = approvals[a]
      BY <2>2, DecideRows
    <2> QED
      BY <2>1, <2>2, GateStepShape
  <1> QED
    BY <1>1, GateTypeCorrect, PTL DEF Spec, DecidedOnce

-----------------------------------------------------------------------------
(* Propose-once, with one pass at a time.                                  *)

(* A decision changes no key and no presence.                              *)
LEMMA DecideKeepsKeys ==
  ASSUME TypeOK, NEW a \in Present, NEW accept \in BOOLEAN, DecideApproval(a, accept)
  PROVE  Present' = Present /\ \A b \in ApprovalIds : approvals'[b].key = approvals[b].key
PROOF
  <1>1. a \in ApprovalIds
    BY DEF Present
  <1> QED
    BY <1>1, DecideRows DEF Present

(* Inserting fresh, distinct keys keeps propose-once.                      *)
LEMMA InsertOnce ==
  ASSUME TypeOK, ProposeOnce, NEW S, NEW keyOf \in [S -> Keys], NEW r \in 0..MaxMemories,
         Insert(S, keyOf, r),
         \A s \in S : ~Proposed(keyOf[s]),
         \A s, t \in S : keyOf[s] = keyOf[t] => s = t
  PROVE  ProposeOnce'
PROOF
  <1>1. /\ \A a \in Present : approvals'[a] = approvals[a]
        /\ \A a \in ApprovalIds :
              \/ approvals'[a] = approvals[a]
              \/ /\ a \notin Present
                 /\ approvals'[a].state = "pending"
                 /\ \E s \in S : approvals'[a].key = keyOf[s]
        /\ \A a, b \in ApprovalIds \ Present :
              /\ approvals'[a].state # "absent"
              /\ approvals'[b].state # "absent"
              /\ approvals'[a].key = approvals'[b].key
              /\ \A s, t \in S : keyOf[s] = keyOf[t] => s = t
              => a = b
    BY InsertRows
  <1>2. \A a \in ApprovalIds \ Present, b \in Present :
           approvals'[a].state # "absent" => approvals'[a].key # approvals'[b].key
    <2> SUFFICES ASSUME NEW a \in ApprovalIds \ Present, NEW b \in Present,
                        approvals'[a].state # "absent",
                        approvals'[a].key = approvals'[b].key
                 PROVE  FALSE
      OBVIOUS
    <2>1. approvals[a].state = "absent"
      BY DEF Present
    <2>2. PICK s \in S : approvals'[a].key = keyOf[s]
      BY <1>1, <2>1
    <2>3. approvals[b].key = keyOf[s]
      BY <1>1, <2>2
    <2> QED
      BY <2>3 DEF Proposed
  <1>3. SUFFICES ASSUME NEW a \in Present', NEW b \in Present',
                        approvals'[a].key = approvals'[b].key
                 PROVE  a = b
    BY DEF ProposeOnce
  <1>4. /\ a \in ApprovalIds /\ approvals'[a].state # "absent"
        /\ b \in ApprovalIds /\ approvals'[b].state # "absent"
    BY DEF Present
  <1>5. CASE a \in Present /\ b \in Present
    BY <1>1, <1>3, <1>5 DEF ProposeOnce
  <1>6. CASE a \notin Present /\ b \notin Present
    BY <1>1, <1>3, <1>4, <1>6
  <1>7. CASE a \in Present /\ b \notin Present
    BY <1>2, <1>3, <1>4, <1>7
  <1>8. CASE a \notin Present /\ b \in Present
    BY <1>2, <1>3, <1>4, <1>8
  <1> QED
    BY <1>5, <1>6, <1>7, <1>8

LEMMA ProposeStep ==
  ASSUME OnePass, TypeOK, ProposeOnce, PreparedFresh, [Next]_vars
  PROVE  ProposeOnce' /\ PreparedFresh'
PROOF
  <1> USE DEF local, table
  <1>1. CASE CreateMemory
    <2>1. PICK m \in MemoryIds :
            /\ memories[m].kind = "none"
            /\ \E row : memories' = [memories EXCEPT ![m] = row]
      BY <1>1 DEF CreateMemory
    <2>2. \A p \in Passes : \A n \in prepared[p] : memories'[n] = memories[n]
      BY <2>1 DEF TypeOK
    <2>3. UNCHANGED <<approvals, phase, seen, prepared>>
      BY <1>1 DEF CreateMemory
    <2>4. Present' = Present /\ \A k : Proposed(k)' = Proposed(k)
      BY <2>3 DEF Present, Proposed
    <2> QED
      BY <2>2, <2>3, <2>4 DEF ProposeOnce, PreparedFresh
  <1>2. ASSUME NEW a \in Present, NEW accept \in BOOLEAN, DecideApproval(a, accept),
               UNCHANGED <<memories, phase, seen, prepared>>
        PROVE  ProposeOnce' /\ PreparedFresh'
    <2>1. Present' = Present /\ \A b \in ApprovalIds : approvals'[b].key = approvals[b].key
      BY <1>2, DecideKeepsKeys
    <2>2. \A b \in Present : b \in ApprovalIds
      BY DEF Present
    <2>3. \A k : Proposed(k)' <=> Proposed(k)
      BY <2>1, <2>2 DEF Proposed
    <2>4. ProposeOnce'
      BY <2>1, <2>2 DEF ProposeOnce
    <2>5. PreparedFresh'
      BY <1>2, <2>3 DEF PreparedFresh
    <2> QED
      BY <2>4, <2>5
  <1>3. CASE OwnerDecides
    BY <1>2, <1>3 DEF OwnerDecides
  <1>4. ASSUME NEW p \in Passes, PassProgress(p) \/ Interrupt(p)
        PROVE  ProposeOnce' /\ PreparedFresh'
    <2>1. \A q \in Passes : q = p
      BY DEF OnePass
    <2>2. ASSUME UNCHANGED approvals, prepared'[p] = {}
          PROVE  ProposeOnce' /\ PreparedFresh'
      BY <2>1, <2>2 DEF ProposeOnce, PreparedFresh, Present
    <2>3. phase[p] # "probing" => prepared[p] = {}
      BY DEF PreparedFresh
    <2>4. CASE StartExtract(p)
      BY <2>2, <2>4 DEF StartExtract, TypeOK
    <2>5. CASE ProbeCandidate(p)
      <3>1. PICK m \in todo[p] :
              /\ seen' = [seen EXCEPT ![p] = @ \cup {memories[m].key}]
              /\ \/ /\ Fresh(p, memories[m].key)
                    /\ prepared' = [prepared EXCEPT ![p] = @ \cup {m}]
                 \/ UNCHANGED prepared
        BY <2>5 DEF ProbeCandidate
      <3>2. /\ UNCHANGED <<memories, approvals, phase>>
            /\ Present' = Present
            /\ phase[p] = "probing"
        BY <2>5 DEF ProbeCandidate, Present
      <3>3. \A k : Proposed(k)' = Proposed(k)
        BY <3>2 DEF Proposed
      <3>4. seen'[p] = seen[p] \cup {memories[m].key}
        BY <3>1 DEF TypeOK
      <3>5. CASE UNCHANGED prepared
        BY <2>1, <3>2, <3>3, <3>4, <3>5 DEF ProposeOnce, PreparedFresh
      <3>6. CASE /\ Fresh(p, memories[m].key)
                 /\ prepared' = [prepared EXCEPT ![p] = @ \cup {m}]
        <4>1. prepared'[p] = prepared[p] \cup {m}
          BY <3>6 DEF TypeOK
        <4>2. memories[m].key \notin seen[p] /\ ~Proposed(memories[m].key)
          BY <3>6 DEF Fresh
        <4>3. \A n \in prepared[p] :
                 /\ memories[n].key \in seen[p]
                 /\ ~Proposed(memories[n].key)
          BY DEF PreparedFresh
        <4>4. \A n, o \in prepared[p] : memories[n].key = memories[o].key => n = o
          BY DEF PreparedFresh
        <4>5. \A n \in prepared'[p] :
                 /\ memories'[n].key \in seen'[p]
                 /\ ~Proposed(memories[n].key)'
          BY <3>2, <3>3, <3>4, <4>1, <4>2, <4>3
        <4>6. \A n, o \in prepared'[p] : memories'[n].key = memories'[o].key => n = o
          BY <3>2, <4>1, <4>2, <4>3, <4>4
        <4> QED
          BY <2>1, <3>2, <4>5, <4>6 DEF ProposeOnce, PreparedFresh
      <3> QED
        BY <3>1, <3>5, <3>6
    <2>6. CASE WriteProposals(p)
      <3> DEFINE keyOf == [m \in prepared[p] |-> memories[m].key]
      <3>1. /\ keyOf \in [prepared[p] -> Keys]
            /\ asOf[p] \in 0..MaxMemories
            /\ Insert(prepared[p], keyOf, asOf[p])
        BY <2>6 DEF WriteProposals, TypeOK, Keys
      <3>2. /\ \A s \in prepared[p] : ~Proposed(keyOf[s])
            /\ \A s, t \in prepared[p] : keyOf[s] = keyOf[t] => s = t
        BY DEF PreparedFresh
      <3>3. ProposeOnce'
        <4> HIDE DEF keyOf
        <4> QED
          BY <3>1, <3>2, InsertOnce
      <3>4. prepared'[p] = {}
        BY <2>6 DEF WriteProposals, TypeOK
      <3> QED
        BY <2>1, <3>3, <3>4 DEF PreparedFresh
    <2>7. CASE ProposeHeuristics(p)
      <3>1. PICK K \in SUBSET HeuristicKeys :
              LET new == {k \in K : ~Proposed(k) /\ ~HasActiveFact(k)}
              IN  Insert(new, [k \in new |-> k], asOf[p])
        BY <2>7 DEF ProposeHeuristics
      <3> DEFINE new == {k \in K : ~Proposed(k) /\ ~HasActiveFact(k)}
                 keyOf == [k \in new |-> k]
      <3>2. /\ keyOf \in [new -> Keys]
            /\ asOf[p] \in 0..MaxMemories
            /\ Insert(new, keyOf, asOf[p])
        BY <3>1 DEF TypeOK, Keys
      <3>3. /\ \A s \in new : ~Proposed(keyOf[s])
            /\ \A s, t \in new : keyOf[s] = keyOf[t] => s = t
        OBVIOUS
      <3>4. ProposeOnce'
        <4> HIDE DEF new, keyOf
        <4> QED
          BY <3>2, <3>3, InsertOnce
      <3>5. prepared'[p] = {}
        BY <2>3, <2>7 DEF ProposeHeuristics
      <3> QED
        BY <2>1, <3>4, <3>5 DEF PreparedFresh
    <2>8. CASE GatherEvidence(p)
      BY <2>2, <2>3, <2>8 DEF GatherEvidence
    <2>9. CASE StartSweep(p)
      BY <2>2, <2>3, <2>9 DEF StartSweep
    <2>10. CASE SweepNext(p)
      <3>1. PICK a \in sweep[p] : DecideApproval(a, TRUE)
        BY <2>10 DEF SweepNext
      <3>2. a \in Present
        BY DEF TypeOK
      <3> QED
        BY <1>2, <2>10, <3>1, <3>2 DEF SweepNext
    <2>11. CASE EndPass(p)
      BY <2>2, <2>3, <2>11 DEF EndPass
    <2>12. CASE Interrupt(p)
      BY <2>2, <2>12 DEF Interrupt, TypeOK
    <2> QED
      BY <1>4, <2>4, <2>5, <2>6, <2>7, <2>8, <2>9, <2>10, <2>11, <2>12 DEF PassProgress
  <1>5. CASE UNCHANGED vars
    BY <1>5 DEF vars, ProposeOnce, PreparedFresh, Present, Proposed
  <1> QED
    BY <1>1, <1>3, <1>4, <1>5 DEF Next

LEMMA ProposeInitially == Init => ProposeOnce /\ PreparedFresh
PROOF
  BY DEF Init, ProposeOnce, PreparedFresh, Present, NoApproval

(* One pass at a time never proposes a key twice, even when it is cut      *)
(* short between its probes and its write and starts again.                *)
THEOREM OnePassProposesOnce ==
  ASSUME OnePass
  PROVE  Spec => []ProposeOnce
PROOF
  <1>1. TypeOK /\ ProposeOnce /\ PreparedFresh /\ [Next]_vars
        => (TypeOK /\ ProposeOnce /\ PreparedFresh)'
    BY OnePass, GateTypeStep, ProposeStep
  <1> QED
    BY <1>1, GateInitType, ProposeInitially, PTL DEF Spec

(* Propose-once is what makes a rejection durable: an active fact of the   *)
(* key would cite another approval of it.                                  *)
THEOREM OnePassRejectionDurable ==
  ASSUME OnePass
  PROVE  Spec => []RejectionDurable
PROOF
  <1>1. TypeOK /\ FactsCiteApprovals /\ ProposeOnce => RejectionDurable
    <2> SUFFICES ASSUME TypeOK, FactsCiteApprovals, ProposeOnce,
                        NEW a \in ApprovalIds, approvals[a].state = "rejected",
                        NEW i \in DOMAIN facts, facts[i].key = approvals[a].key
                 PROVE  FALSE
      BY DEF RejectionDurable, HasActiveFact
    <2>1. /\ approvals[facts[i].approval].state = "approved"
          /\ approvals[facts[i].approval].key = facts[i].key
      BY DEF FactsCiteApprovals
    <2>2. facts[i].approval \in ApprovalIds
      <3>1. facts \in Seq(FactRow)
        BY DEF TypeOK
      <3>2. facts[i] \in FactRow
        BY <3>1
      <3> QED
        BY <3>2 DEF FactRow
    <2>3. facts[i].approval = a
      BY <2>1, <2>2 DEF ProposeOnce, Present
    <2> QED
      BY <2>1, <2>3
  <1> QED
    BY <1>1, GateTypeCorrect, FactsCite, OnePassProposesOnce, PTL

=============================================================================
