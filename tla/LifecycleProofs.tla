--------------------------- MODULE LifecycleProofs ---------------------------
(***************************************************************************)
(* Proofs about the ageing of memories under one pass at a time, for any   *)
(* half-life, thresholds, batch sizes, wall clock and number of memories.  *)
(***************************************************************************)
EXTENDS Lifecycle, FiniteSetTheorems, TLAPS

-----------------------------------------------------------------------------
(* One dream process.                                                      *)
OnePass == \A p \in Passes, q \in Passes : p = q

(* What a row says of its age: it entered its state, and its checkpoint is *)
(* where the next state begins.                                            *)
RowCurrent(row) ==
    /\ row.state = "absent" \/ row.since <= now
    /\ row.state \in {"active", "associated"} => row.decayAt = row.since + HalfLife
    /\ row.state = "decaying" =>
          row.since + HalfLife <= now /\ row.decayAt = row.since + DormantAfter
    /\ row.state = "dormant" =>
          row.since + DormantAfter <= now /\ row.decayAt = row.since + ArchiveAfter
    /\ row.state = "archived" =>
          row.since + ArchiveAfter <= now /\ row.decayAt = Never

RowsCurrent == \A m \in MemoryIds : RowCurrent(memories[m])

(* What a pass has read is still so when it writes.                        *)
ReadCurrent(p) ==
    /\ phase[p] # "associating" => read[p] = {}
    /\ phase[p] # "writing" => due[p] = {}
    /\ \A r \in read[p] : r.state = memories[r.id].state
    /\ \A m \in due[p] : memories[m].state \in Eligible /\ memories[m].decayAt <= decayNow[p]
    /\ \A m \in due[p] : memories[m].decayAt # Never

(* How far a pass came.                                                    *)
Reported(p) ==
    /\ decayNow[p] <= now
    /\ phase[p] # "idle" => report[p] = "running" /\ (skipped[p] => Over(p))
    /\ phase[p] = "retaining" => ~skipped[p] /\ DueAt(decayNow[p]) = {}
    /\ report[p] \in {"completed", "budget_capped"} =>
          ~skipped[p] /\ DueAt(decayNow[p]) = {}

LifecycleInv ==
    /\ TypeOK
    /\ RowsCurrent
    /\ \A p \in Passes : ReadCurrent(p)
    /\ \A p \in Passes : Reported(p)

-----------------------------------------------------------------------------
LEMMA AgeFacts ==
    /\ HalfLife \in Nat /\ HalfLife > 0 /\ DormantAfter \in Nat /\ ArchiveAfter \in Nat
    /\ HalfLife <= DormantAfter /\ DormantAfter <= ArchiveAfter
    /\ Time \subseteq Nat /\ Never \in Int /\ Never < 0
  BY LifecycleAgesAssumption, LifecycleBoundsAssumption DEF Time, Never

(* A decayed row is the row of its age at the decay clock.                 *)
LEMMA DecayedRow ==
    ASSUME NEW m \in MemoryIds, NEW at \in Time, TypeOK, memories[m].since <= at
    PROVE  LET row == Decayed(m, at)
           IN  /\ row \in MemoryRow
               /\ row.state # "absent" /\ row.since <= at
               /\ row.state = "active" => row.decayAt = row.since + HalfLife
               /\ row.state = "decaying" =>
                     row.since + HalfLife <= at /\ row.decayAt = row.since + DormantAfter
               /\ row.state = "dormant" =>
                     row.since + DormantAfter <= at /\ row.decayAt = row.since + ArchiveAfter
               /\ row.state = "archived" =>
                     row.since + ArchiveAfter <= at /\ row.decayAt = Never
               /\ row.state # "associated"
               /\ row.decayAt = Never \/ row.decayAt > at
<1> DEFINE since == memories[m].since
<1>1. since \in Time /\ since \in Nat /\ at \in Nat /\ since <= at
  BY AgeFacts DEF TypeOK, MemoryRow
<1>2. PICK age \in Nat : age = at - since
  BY <1>1
<1>3. Decayed(m, at) = [state |-> StateAt(age), since |-> since,
                        decayAt |-> NextDecayAt(StateAt(age), since)]
  BY <1>2 DEF Decayed
<1> HIDE DEF since
<1>4. CASE age < HalfLife
  <2>1. StateAt(age) = "active" /\ NextDecayAt("active", since) = since + HalfLife
    BY <1>4 DEF StateAt, NextDecayAt
  <2> QED
    BY <2>1, <1>1, <1>2, <1>3, <1>4, AgeFacts DEF MemoryRow, Eligible
<1>5. CASE HalfLife <= age /\ age < DormantAfter
  <2>1. StateAt(age) = "decaying" /\ NextDecayAt("decaying", since) = since + DormantAfter
    BY <1>2, <1>5, AgeFacts DEF StateAt, NextDecayAt
  <2> QED
    BY <2>1, <1>1, <1>2, <1>3, <1>5, AgeFacts DEF MemoryRow, Eligible
<1>6. CASE DormantAfter <= age /\ age < ArchiveAfter
  <2>1. StateAt(age) = "dormant" /\ NextDecayAt("dormant", since) = since + ArchiveAfter
    BY <1>2, <1>6, AgeFacts DEF StateAt, NextDecayAt
  <2> QED
    BY <2>1, <1>1, <1>2, <1>3, <1>6, AgeFacts DEF MemoryRow, Eligible
<1>7. CASE ArchiveAfter <= age
  <2>1. StateAt(age) = "archived" /\ NextDecayAt("archived", since) = Never
    BY <1>2, <1>7, AgeFacts DEF StateAt, NextDecayAt
  <2> QED
    BY <2>1, <1>1, <1>2, <1>3, <1>7, AgeFacts DEF MemoryRow, Eligible
<1> QED
  BY <1>2, <1>4, <1>5, <1>6, <1>7, AgeFacts

(* The rows the associate phase writes back: the states just read, some    *)
(* promoted.                                                               *)
LEMMA LinkedRow ==
    ASSUME LifecycleInv, NEW p \in Passes, WriteLinks(p), NEW m \in MemoryIds
    PROVE  \/ memories'[m] = memories[m]
           \/ /\ memories[m].state = "active"
              /\ memories'[m] = [memories[m] EXCEPT !.state = "associated"]
<1>1. memories' = [n \in MemoryIds |->
                IF \E r \in read[p] : r.id = n
                THEN [memories[n] EXCEPT
                         !.state = Promoted(CHOOSE r \in read[p] : r.id = n, linked')]
                ELSE memories[n]]
  BY DEF WriteLinks
<1>2. CASE \E r \in read[p] : r.id = m
  <2> DEFINE r == CHOOSE x \in read[p] : x.id = m
  <2>1. r \in read[p] /\ r.id = m
    BY <1>2
  <2>2. r.state = memories[m].state
    BY <2>1 DEF LifecycleInv, ReadCurrent
  <2>3. memories'[m] = [memories[m] EXCEPT !.state = Promoted(r, linked')]
    BY <1>1, <1>2
  <2>4. Promoted(r, linked') = r.state \/ (r.state = "active" /\ Promoted(r, linked') = "associated")
    BY DEF Promoted
  <2> HIDE DEF r
  <2>5. memories[m] \in MemoryRow
    BY DEF LifecycleInv, TypeOK
  <2>6. [memories[m] EXCEPT !.state = memories[m].state] = memories[m]
    BY <2>5 DEF MemoryRow
  <2> QED
    BY <2>2, <2>3, <2>4, <2>6
<1>3. CASE ~\E r \in read[p] : r.id = m
  BY <1>1, <1>3
<1> QED
  BY <1>2, <1>3

LEMMA LinkedFacts ==
    ASSUME LifecycleInv, NEW p \in Passes, WriteLinks(p), NEW m \in MemoryIds
    PROVE  /\ memories'[m] \in MemoryRow
           /\ memories'[m].since = memories[m].since
           /\ memories'[m].decayAt = memories[m].decayAt
           /\ \/ memories'[m].state = memories[m].state
              \/ memories[m].state = "active" /\ memories'[m].state = "associated"
<1>1. memories[m] \in MemoryRow
  BY DEF LifecycleInv, TypeOK
<1>2. CASE memories'[m] = memories[m]
  BY <1>1, <1>2
<1>3. CASE /\ memories[m].state = "active"
           /\ memories'[m] = [memories[m] EXCEPT !.state = "associated"]
  <2>1. memories'[m] = [state |-> "associated", since |-> memories[m].since,
                        decayAt |-> memories[m].decayAt]
    BY <1>1, <1>3 DEF MemoryRow
  <2> QED
    BY <1>1, <1>3, <2>1 DEF MemoryRow, Eligible
<1> QED
  BY <1>2, <1>3, LinkedRow

(* The rows the decay phase writes.                                        *)
LEMMA DecayFacts ==
    ASSUME LifecycleInv, NEW p \in Passes, WriteDecay(p), NEW m \in MemoryIds
    PROVE  /\ m \notin due[p] => memories'[m] = memories[m]
           /\ m \in due[p] => /\ memories'[m] = Decayed(m, decayNow[p])
                              /\ memories[m].since <= decayNow[p]
<1>1. memories' = [n \in MemoryIds |->
          IF n \in due[p] THEN Decayed(n, decayNow[p]) ELSE memories[n]]
  BY DEF WriteDecay
<1>2. ASSUME m \in due[p]
      PROVE  memories[m].since <= decayNow[p]
  <2>1. /\ memories[m].state \in Eligible /\ memories[m].decayAt <= decayNow[p]
        /\ RowCurrent(memories[m])
    BY <1>2 DEF LifecycleInv, ReadCurrent, RowsCurrent
  <2>2. memories[m].since \in Nat /\ decayNow[p] \in Nat
    BY AgeFacts DEF LifecycleInv, TypeOK, MemoryRow
  <2>3. \/ memories[m].decayAt = memories[m].since + HalfLife
        \/ memories[m].decayAt = memories[m].since + DormantAfter
        \/ memories[m].decayAt = memories[m].since + ArchiveAfter
    BY <2>1 DEF RowCurrent, Eligible
  <2> QED
    BY <2>1, <2>2, <2>3, AgeFacts
<1> QED
  BY <1>1, <1>2

LEMMA CreateFacts ==
    ASSUME TypeOK, CreateMemory
    PROVE  \E m \in MemoryIds :
              /\ memories[m].state = "absent"
              /\ memories' = [memories EXCEPT
                    ![m] = [state |-> "active", since |-> now, decayAt |-> now + HalfLife]]
<1>1. PICK m \in MemoryIds :
        /\ \A k \in MemoryIds : memories[k].state = "absent" <=> k >= m
        /\ memories' = [memories EXCEPT
                ![m] = [state |-> "active", since |-> now, decayAt |-> now + HalfLife]]
  BY DEF CreateMemory
<1>2. m >= m
  BY LifecycleBoundsAssumption DEF MemoryIds
<1> QED
  BY <1>1, <1>2

-----------------------------------------------------------------------------
LEMMA TypesStep ==
    ASSUME LifecycleInv, [Next]_vars
    PROVE  TypeOK'
<1> USE DEF TypeOK
<1>0. TypeOK /\ now \in Nat
  BY AgeFacts DEF LifecycleInv
<1>1. CASE Tick
  <2>1. now' \in Time /\ now <= now'
    BY <1>0, <1>1, LifecycleBoundsAssumption DEF Tick, Time
  <2>2. ASSUME NEW m \in MemoryIds
        PROVE  memories[m].since <= now'
    <3>1. memories[m].since \in Time /\ memories[m].since <= now
      BY <1>0 DEF MemoryRow
    <3>2. memories[m].since \in Nat /\ now' \in Nat
      BY <2>1, <3>1, AgeFacts
    <3>3. now \in Nat
      BY <1>0
    <3> QED
      BY <2>1, <3>1, <3>2, <3>3
  <2> QED
    BY <1>0, <1>1, <2>1, <2>2 DEF Tick, table, local, clock
<1>2. CASE CreateMemory
  <2>1. PICK m \in MemoryIds : memories' = [memories EXCEPT
                    ![m] = [state |-> "active", since |-> now, decayAt |-> now + HalfLife]]
    BY <1>0, <1>2, CreateFacts
  <2>2. [state |-> "active", since |-> now, decayAt |-> now + HalfLife] \in MemoryRow
    BY <1>0, AgeFacts DEF MemoryRow, Eligible
  <2>3. /\ memories' \in [MemoryIds -> MemoryRow]
        /\ \A n \in MemoryIds : memories'[n].since <= now
        /\ \A n \in MemoryIds : memories'[n].state = "archived" => memories'[n].decayAt = Never
    BY <1>0, <2>1, <2>2
  <2> QED
    BY <1>0, <1>2, <2>3 DEF CreateMemory, local, clock
<1>3. ASSUME NEW p \in Passes, BeginPass(p) \/ Consolidate(p) \/ Distill(p)
      PROVE  TypeOK'
  <2>1. CASE BeginPass(p)
    BY <1>0, <2>1 DEF BeginPass, table, GoTo
  <2>2. CASE Consolidate(p)
    BY <1>0, <2>2 DEF Consolidate, table, GoTo, Skip, Finish
  <2>3. CASE Distill(p)
    BY <1>0, <2>3 DEF Distill, table, GoTo, Skip
  <2> QED
    BY <1>3, <2>1, <2>2, <2>3
<1>4. ASSUME NEW p \in Passes, ReadCandidates(p)
      PROVE  TypeOK'
  <2>1. ASSUME NEW S \in SUBSET MemoryIds, IsCandidates(S)
        PROVE  {[id |-> m, state |-> memories[m].state] : m \in S} \in SUBSET Snapshot
    BY <2>1 DEF IsCandidates, Recallable, Snapshot
  <2>2. read' \in [Passes -> SUBSET Snapshot]
    BY <1>0, <1>4, <2>1 DEF ReadCandidates
  <2> QED
    BY <1>0, <1>4, <2>2 DEF ReadCandidates, table, GoTo, Skip
<1>5. ASSUME NEW p \in Passes, WriteLinks(p)
      PROVE  TypeOK'
  <2>1. /\ \A m \in MemoryIds : memories'[m] \in MemoryRow
        /\ \A m \in MemoryIds : memories'[m].since <= now
        /\ \A m \in MemoryIds : memories'[m].state = "archived" => memories'[m].decayAt = Never
    BY <1>0, <1>5, LinkedFacts
  <2>2. memories' \in [MemoryIds -> MemoryRow]
    BY <1>5, <2>1 DEF WriteLinks
  <2>3. linked' \subseteq MemoryIds
    <3>1. PICK S \in SUBSET {r.id : r \in read[p]} : linked' = linked \cup S
      BY <1>5 DEF WriteLinks
    <3>2. S \subseteq MemoryIds
      BY <1>0 DEF Snapshot
    <3> QED
      BY <1>0, <3>1, <3>2
  <2> QED
    BY <1>0, <1>5, <2>1, <2>2, <2>3 DEF WriteLinks, clock, GoTo
<1>6. ASSUME NEW p \in Passes, ExtractAndApprove(p) \/ RetainAndFinish(p) \/ Interrupt(p)
      PROVE  TypeOK'
  <2>1. CASE ExtractAndApprove(p)
    BY <1>0, <2>1 DEF ExtractAndApprove, table, GoTo, Skip
  <2>2. CASE RetainAndFinish(p)
    <3>1. PICK status \in {"partial", "completed", "budget_capped"} :
            /\ phase' = [phase EXCEPT ![p] = "idle"]
            /\ report' = [report EXCEPT ![p] = status]
      BY <2>2 DEF RetainAndFinish, Finish, GoTo
    <3>2. /\ skipped' = skipped \/ skipped' = [skipped EXCEPT ![p] = TRUE]
          /\ UNCHANGED <<now, table, started, read, decayNow, due, interrupts>>
      BY <2>2 DEF RetainAndFinish, Skip
    <3> QED
      BY <1>0, <3>1, <3>2 DEF table
  <2>3. CASE Interrupt(p)
    <3>1. interrupts' \in 0..MaxInterrupts
      <4>1. interrupts \in 0..MaxInterrupts
        BY <1>0
      <4>2. interrupts < MaxInterrupts /\ interrupts' = interrupts + 1
        BY <2>3 DEF Interrupt
      <4> QED
        BY <4>1, <4>2, LifecycleBoundsAssumption
    <3> QED
      BY <1>0, <2>3, <3>1 DEF Interrupt, table, clock
  <2> QED
    BY <1>6, <2>1, <2>2, <2>3
<1>7. ASSUME NEW p \in Passes, ReadDue(p)
      PROVE  TypeOK'
  <2>1. CASE DecayOver(p)
    BY <1>0, <1>7, <2>1 DEF ReadDue, table, GoTo, Skip, Finish
  <2>2. CASE ~DecayOver(p)
    <3>1. PICK S \in SUBSET MemoryIds :
            /\ due' = [due EXCEPT ![p] = S]
            /\ phase' = [phase EXCEPT ![p] = IF S = {} THEN "retaining" ELSE "writing"]
      BY <1>7, <2>2 DEF ReadDue, GoTo
    <3>2. UNCHANGED <<now, table, started, read, decayNow, interrupts, report, skipped>>
      BY <1>7, <2>2 DEF ReadDue
    <3> QED
      BY <1>0, <3>1, <3>2 DEF table
  <2> QED
    BY <2>1, <2>2
<1>8. ASSUME NEW p \in Passes, WriteDecay(p)
      PROVE  TypeOK'
  <2>1. ASSUME NEW m \in MemoryIds
        PROVE  /\ memories'[m] \in MemoryRow /\ memories'[m].since <= now
               /\ memories'[m].state = "archived" => memories'[m].decayAt = Never
    <3>1. CASE m \in due[p]
      <4>1. decayNow[p] \in Time /\ decayNow[p] <= now
        BY <1>0 DEF LifecycleInv, Reported
      <4>2. /\ memories'[m] = Decayed(m, decayNow[p])
            /\ memories[m].since <= decayNow[p]
        BY <1>8, <3>1, DecayFacts
      <4>3. /\ memories'[m] \in MemoryRow /\ memories'[m].since <= decayNow[p]
            /\ memories'[m].state = "archived" => memories'[m].decayAt = Never
        <5>1. TypeOK
          BY <1>0
        <5> HIDE DEF TypeOK
        <5> QED
          BY <5>1, <4>1, <4>2, DecayedRow
      <4>4. memories'[m].since \in Nat /\ decayNow[p] \in Nat
        BY <4>1, <4>3, AgeFacts DEF MemoryRow
      <4>5. memories'[m].since <= now
        <5>1. now \in Nat
          BY <1>0
        <5> QED
          BY <5>1, <4>1, <4>3, <4>4
      <4> QED
        BY <4>3, <4>5
    <3>2. CASE m \notin due[p]
      BY <1>0, <1>8, <3>2, DecayFacts
    <3> QED
      BY <3>1, <3>2
  <2>2. memories' \in [MemoryIds -> MemoryRow]
    BY <1>8, <2>1 DEF WriteDecay
  <2> QED
    BY <1>0, <1>8, <2>1, <2>2 DEF WriteDecay, clock, GoTo
<1>9. CASE UNCHANGED vars
  BY <1>0, <1>9 DEF vars, table, local, clock
<1> QED
  BY <1>1, <1>2, <1>3, <1>4, <1>5, <1>6, <1>7, <1>8, <1>9 DEF Next, PassProgress

-----------------------------------------------------------------------------
(* Rows stay current as time passes.                                       *)
LEMMA RowLater ==
    ASSUME NEW row \in MemoryRow, NEW later \in Nat, now \in Nat, now <= later,
           RowCurrent(row)
    PROVE  /\ row.state = "absent" \/ row.since <= later
           /\ row.state = "decaying" => row.since + HalfLife <= later
           /\ row.state = "dormant" => row.since + DormantAfter <= later
           /\ row.state = "archived" => row.since + ArchiveAfter <= later
<1>1. row.since \in Nat
  BY AgeFacts DEF MemoryRow
<1>2. HalfLife \in Nat /\ DormantAfter \in Nat /\ ArchiveAfter \in Nat
  BY AgeFacts
<1> QED
  BY <1>1, <1>2 DEF RowCurrent

LEMMA RowsStep ==
    ASSUME LifecycleInv, [Next]_vars
    PROVE  RowsCurrent'
<1>0. /\ TypeOK /\ TypeOK' /\ now \in Nat /\ RowsCurrent
      /\ \A m \in MemoryIds : memories[m] \in MemoryRow
  <2>1. TypeOK /\ TypeOK' /\ RowsCurrent
    BY TypesStep DEF LifecycleInv
  <2> QED
    BY <2>1, AgeFacts DEF TypeOK
<1>1. CASE Tick
  <2>1. memories' = memories /\ now' \in Nat /\ now <= now'
    BY <1>0, <1>1 DEF Tick, table
  <2>2. ASSUME NEW m \in MemoryIds
        PROVE  RowCurrent(memories[m])'
    <3>1. memories[m] \in MemoryRow /\ RowCurrent(memories[m])
      BY <1>0 DEF RowsCurrent
    <3> QED
      BY <1>0, <2>1, <3>1, RowLater DEF RowCurrent
  <2> QED
    BY <2>2 DEF RowsCurrent
<1>2. CASE CreateMemory
  <2>1. PICK m \in MemoryIds :
          memories' = [memories EXCEPT
                    ![m] = [state |-> "active", since |-> now, decayAt |-> now + HalfLife]]
    BY <1>0, <1>2, CreateFacts
  <2>2. now' = now
    BY <1>2 DEF CreateMemory
  <2>3. ASSUME NEW n \in MemoryIds
        PROVE  RowCurrent(memories[n])'
    <3>1. CASE n = m
      BY <1>0, <2>1, <2>2, <3>1 DEF RowCurrent, TypeOK
    <3>2. CASE n # m
      <4>1. memories'[n] = memories[n]
        BY <1>0, <2>1, <3>2 DEF TypeOK
      <4> QED
        BY <1>0, <2>2, <4>1 DEF RowsCurrent, RowCurrent
    <3> QED
      BY <3>1, <3>2
  <2> QED
    BY <2>3 DEF RowsCurrent
<1>3. ASSUME NEW p \in Passes, WriteLinks(p)
      PROVE  RowsCurrent'
  <2>1. ASSUME NEW m \in MemoryIds
        PROVE  RowCurrent(memories[m])'
    <3>1. /\ RowCurrent(memories[m]) /\ now' = now
      BY <1>0, <1>3 DEF RowsCurrent, WriteLinks
    <3> QED
      BY <1>3, <3>1, LinkedFacts DEF RowCurrent
  <2> QED
    BY <2>1 DEF RowsCurrent
<1>4. ASSUME NEW p \in Passes, WriteDecay(p)
      PROVE  RowsCurrent'
  <2>1. ASSUME NEW m \in MemoryIds
        PROVE  RowCurrent(memories[m])'
    <3>1. RowCurrent(memories[m]) /\ now' = now
      BY <1>0, <1>4 DEF RowsCurrent, WriteDecay
    <3>2. CASE m \in due[p]
      <4> DEFINE row == Decayed(m, decayNow[p])
                 at == decayNow[p]
      <4>1. /\ row \in MemoryRow
            /\ row.state # "absent" /\ row.since <= at
            /\ row.state = "active" => row.decayAt = row.since + HalfLife
            /\ row.state = "decaying" =>
                  row.since + HalfLife <= at /\ row.decayAt = row.since + DormantAfter
            /\ row.state = "dormant" =>
                  row.since + DormantAfter <= at /\ row.decayAt = row.since + ArchiveAfter
            /\ row.state = "archived" =>
                  row.since + ArchiveAfter <= at /\ row.decayAt = Never
            /\ row.state # "associated"
        <5>1. at \in Time
          BY <1>0 DEF TypeOK
        <5> QED
          BY <1>0, <1>4, <3>2, <5>1, DecayFacts, DecayedRow
      <4>2. memories'[m] = row
        BY <1>4, <3>2, DecayFacts
      <4>3. at \in Nat /\ at <= now /\ row.since \in Nat
        <5>1. at \in Time /\ at <= now
          BY <1>0 DEF TypeOK, LifecycleInv, Reported
        <5> QED
          BY <4>1, <5>1, AgeFacts DEF MemoryRow
      <4> HIDE DEF row, at
      <4>4. HalfLife \in Nat /\ DormantAfter \in Nat /\ ArchiveAfter \in Nat
        BY AgeFacts
      <4> QED
        BY <1>0, <3>1, <4>1, <4>2, <4>3, <4>4 DEF RowCurrent
    <3>3. CASE m \notin due[p]
      BY <1>4, <3>1, <3>3, DecayFacts DEF RowCurrent
    <3> QED
      BY <3>2, <3>3
  <2> QED
    BY <2>1 DEF RowsCurrent
<1>5. CASE UNCHANGED <<now, memories>>
  BY <1>0, <1>5 DEF RowsCurrent, RowCurrent
<1>6. ASSUME NEW p \in Passes, PassProgress(p) \/ Interrupt(p), ~WriteLinks(p), ~WriteDecay(p)
      PROVE  UNCHANGED <<now, memories>>
  BY <1>6 DEF PassProgress, Interrupt, BeginPass, Consolidate, Distill, ReadCandidates,
              ExtractAndApprove, ReadDue, RetainAndFinish, table
<1> QED
  BY <1>1, <1>2, <1>3, <1>4, <1>5, <1>6 DEF Next, vars, table

(* What is due at a clock value that is past.                              *)
LEMMA NewNotDue ==
    ASSUME LifecycleInv, CreateMemory, NEW at \in Nat, at <= now
    PROVE  DueAt(at)' = DueAt(at)
<1>1. TypeOK /\ now \in Nat
  BY AgeFacts DEF LifecycleInv, TypeOK
<1>2. PICK m \in MemoryIds :
        /\ memories[m].state = "absent"
        /\ memories' = [memories EXCEPT
                    ![m] = [state |-> "active", since |-> now, decayAt |-> now + HalfLife]]
  BY <1>1, CreateFacts
<1>3. ASSUME NEW n \in MemoryIds
      PROVE  (n \in DueAt(at))' <=> n \in DueAt(at)
  <2>1. CASE n = m
    <3>1. n \notin DueAt(at)
      BY <1>2, <2>1 DEF DueAt, Recallable, Eligible
    <3>2. memories'[n].decayAt = now + HalfLife
      BY <1>1, <1>2, <2>1 DEF TypeOK
    <3>3. ~(now + HalfLife <= at)
      BY <1>1, AgeFacts
    <3> QED
      BY <3>1, <3>2, <3>3 DEF DueAt
  <2>2. CASE n # m
    <3>1. memories'[n] = memories[n]
      BY <1>1, <1>2, <2>2 DEF TypeOK
    <3> QED
      BY <3>1 DEF DueAt, Recallable
  <2> QED
    BY <2>1, <2>2
<1> QED
  BY <1>3 DEF DueAt, Recallable, MemoryIds

-----------------------------------------------------------------------------
(* With one pass, nothing but CreateMemory comes between what it reads and *)
(* what it writes.                                                         *)
LEMMA ReadStep ==
    ASSUME OnePass, LifecycleInv, [Next]_vars, NEW p \in Passes
    PROVE  ReadCurrent(p)'
<1>0. ReadCurrent(p) /\ TypeOK
  BY DEF LifecycleInv
<1>1. CASE CreateMemory
  <2>1. PICK m \in MemoryIds :
          /\ memories[m].state = "absent"
          /\ memories' = [memories EXCEPT
                    ![m] = [state |-> "active", since |-> now, decayAt |-> now + HalfLife]]
    BY <1>0, <1>1, CreateFacts
  <2>2. \A n \in MemoryIds : n # m => memories'[n] = memories[n]
    BY <1>0, <2>1 DEF TypeOK
  <2>3. /\ \A r \in read[p] : r.id \in MemoryIds /\ r.id # m
        /\ \A n \in due[p] : n \in MemoryIds /\ n # m
    BY <1>0, <2>1 DEF ReadCurrent, TypeOK, Snapshot, Eligible
  <2> QED
    BY <1>0, <1>1, <2>2, <2>3 DEF CreateMemory, local, ReadCurrent
<1>2. CASE Tick \/ UNCHANGED vars
  BY <1>0, <1>2 DEF Tick, vars, table, local, ReadCurrent
<1>3. CASE BeginPass(p) \/ Consolidate(p) \/ Distill(p)
  <2>1. phase[p] \notin {"associating", "writing"}
    BY <1>3 DEF BeginPass, Consolidate, Distill
  <2>2. UNCHANGED <<memories, read, due, decayNow>>
    BY <1>3 DEF BeginPass, Consolidate, Distill, table
  <2> QED
    BY <1>0, <2>1, <2>2 DEF ReadCurrent
<1>4. CASE ReadCandidates(p)
  <2>1. phase[p] = "reading" /\ UNCHANGED <<memories, due, decayNow>>
    BY <1>4 DEF ReadCandidates, table
  <2>2. \/ UNCHANGED read
        \/ /\ phase'[p] = "associating"
           /\ \E S \in SUBSET MemoryIds :
                 read'[p] = {[id |-> m, state |-> memories[m].state] : m \in S}
    BY <1>0, <1>4 DEF ReadCandidates, GoTo, TypeOK
  <2> QED
    BY <1>0, <2>1, <2>2 DEF ReadCurrent
<1>5. CASE WriteLinks(p)
  <2>1. read'[p] = {} /\ due[p] = {} /\ due' = due
    BY <1>0, <1>5 DEF WriteLinks, TypeOK, ReadCurrent
  <2> QED
    BY <2>1 DEF ReadCurrent
<1>6. CASE ExtractAndApprove(p) \/ RetainAndFinish(p)
  <2>1. read[p] = {} /\ due[p] = {} /\ read' = read /\ due' = due
    BY <1>0, <1>6 DEF ExtractAndApprove, RetainAndFinish, ReadCurrent
  <2> QED
    BY <2>1 DEF ReadCurrent
<1>7. CASE ReadDue(p)
  <2>1. /\ read[p] = {} /\ read' = read /\ due[p] = {}
        /\ UNCHANGED <<memories, decayNow>>
    BY <1>0, <1>7 DEF ReadDue, ReadCurrent, table
  <2>2. \/ due' = due
        \/ /\ phase'[p] = IF due'[p] = {} THEN "retaining" ELSE "writing"
           /\ due'[p] \subseteq DueAt(decayNow[p])
    <3>1. CASE DecayOver(p)
      BY <1>7, <3>1 DEF ReadDue
    <3>2. CASE ~DecayOver(p)
      <4>1. PICK S \in SUBSET MemoryIds :
              /\ IsDueBatch(S, decayNow[p])
              /\ due' = [due EXCEPT ![p] = S]
              /\ phase' = [phase EXCEPT ![p] = IF S = {} THEN "retaining" ELSE "writing"]
        BY <1>7, <3>2 DEF ReadDue, GoTo
      <4>2. p \in DOMAIN due /\ p \in DOMAIN phase
        BY <1>0 DEF TypeOK
      <4>3. due'[p] = S /\ phase'[p] = IF S = {} THEN "retaining" ELSE "writing"
        BY <4>1, <4>2
      <4>4. S \subseteq DueAt(decayNow[p])
        BY <4>1 DEF IsDueBatch
      <4> QED
        BY <4>3, <4>4
    <3> QED
      BY <3>1, <3>2
  <2>3. \A m \in DueAt(decayNow[p]) :
           /\ memories[m].state \in Eligible /\ memories[m].decayAt <= decayNow[p]
           /\ memories[m].decayAt # Never
    BY DEF DueAt, Recallable
  <2> QED
    BY <2>1, <2>2, <2>3 DEF ReadCurrent
<1>8. CASE WriteDecay(p)
  <2>1. due'[p] = {} /\ read[p] = {} /\ read' = read
    BY <1>0, <1>8 DEF WriteDecay, TypeOK, ReadCurrent
  <2> QED
    BY <2>1 DEF ReadCurrent
<1>9. CASE Interrupt(p)
  <2>1. due'[p] = {} /\ read'[p] = {}
    BY <1>0, <1>9 DEF Interrupt, TypeOK
  <2> QED
    BY <2>1 DEF ReadCurrent
<1>10. \A q \in Passes : q = p
  BY DEF OnePass
<1> QED
  BY <1>1, <1>2, <1>3, <1>4, <1>5, <1>6, <1>7, <1>8, <1>9, <1>10 DEF Next, PassProgress

(* The clock does not step back, so a phase left out stays over.           *)
LEMMA OverStays ==
    ASSUME TypeOK, NEW p \in Passes, Over(p), now' \in Nat, now <= now', started' = started
    PROVE  Over(p)'
<1>1. now \in Nat /\ started[p] \in Nat /\ MaxSeconds \in Nat
  BY AgeFacts, LifecycleCapsAssumption DEF TypeOK
<1> QED
  BY <1>1 DEF Over

LEMMA NoneDueAtAll ==
    ASSUME NEW p \in Passes, TypeOK, IsDueBatch({}, decayNow[p])
    PROVE  DueAt(decayNow[p]) = {}
<1>1. Cardinality({}) # DecayBatch
  BY FS_EmptySet, LifecycleCapsAssumption
<1> QED
  BY <1>1 DEF IsDueBatch

LEMMA ReportedStep ==
    ASSUME OnePass, LifecycleInv, [Next]_vars, NEW p \in Passes
    PROVE  Reported(p)'
<1>0. Reported(p) /\ TypeOK /\ now \in Nat /\ decayNow[p] \in Nat
  <2>1. Reported(p) /\ TypeOK
    BY DEF LifecycleInv
  <2> QED
    BY <2>1, AgeFacts DEF TypeOK
<1>1. CASE CreateMemory
  <2>1. DueAt(decayNow[p])' = DueAt(decayNow[p])
    <3>1. decayNow' = decayNow /\ decayNow[p] <= now
      BY <1>0, <1>1 DEF CreateMemory, local, Reported
    <3>2. \A at \in Nat : at <= now => DueAt(at)' = DueAt(at)
      BY <1>1, NewNotDue
    <3> QED
      BY <1>0, <3>1, <3>2 DEF DueAt, Recallable
  <2> QED
    BY <1>0, <1>1, <2>1 DEF CreateMemory, local, clock, Reported, Over
<1>2. CASE Tick
  <2>1. /\ now' \in Nat /\ now <= now' /\ UNCHANGED <<memories, local>>
    BY <1>0, <1>2 DEF Tick, table
  <2>2. DueAt(decayNow[p])' = DueAt(decayNow[p])
    BY <2>1 DEF local, DueAt, Recallable
  <2>3. Over(p) => Over(p)'
    BY <1>0, <2>1, OverStays DEF local, clock
  <2>4. decayNow'[p] <= now'
    BY <1>0, <2>1 DEF local, Reported
  <2> QED
    BY <1>0, <2>1, <2>2, <2>3, <2>4 DEF local, clock, Reported
<1>3. CASE UNCHANGED vars
  BY <1>0, <1>3 DEF vars, table, local, clock, Reported, DueAt, Recallable, Over
<1>4. CASE BeginPass(p)
  <2>1. /\ phase'[p] = "consolidating" /\ report'[p] = "running" /\ skipped'[p] = FALSE
        /\ decayNow' = decayNow /\ now' = now
    BY <1>0, <1>4 DEF BeginPass, GoTo, TypeOK
  <2> QED
    BY <1>0, <2>1 DEF Reported
<1>5. CASE Consolidate(p)
  <2>1. \/ phase'[p] = "idle" /\ report'[p] = "partial"
        \/ phase'[p] = "distilling" /\ UNCHANGED <<report, skipped>>
    BY <1>0, <1>5 DEF Consolidate, GoTo, Finish, TypeOK
  <2>2. UNCHANGED <<now, started, decayNow>> /\ phase[p] # "idle"
    BY <1>5 DEF Consolidate
  <2> QED
    BY <1>0, <2>1, <2>2 DEF Reported, Over
<1>6. CASE Distill(p) \/ ReadCandidates(p)
  <2>1. /\ UNCHANGED <<now, started, decayNow, report>> /\ phase[p] # "idle"
        /\ phase'[p] \in {"reading", "associating", "extracting"}
        /\ UNCHANGED skipped \/ Over(p)
    BY <1>0, <1>6 DEF Distill, ReadCandidates, GoTo, TypeOK
  <2> QED
    BY <1>0, <2>1 DEF Reported, Over
<1>7. CASE WriteLinks(p) \/ WriteDecay(p)
  <2>1. /\ UNCHANGED <<now, started, decayNow, report, skipped>> /\ phase[p] # "idle"
        /\ phase'[p] \in {"extracting", "decaying"}
    BY <1>0, <1>7 DEF WriteLinks, WriteDecay, GoTo, TypeOK, clock
  <2> QED
    BY <1>0, <2>1 DEF Reported, Over
<1>8. CASE ExtractAndApprove(p)
  <2>1. /\ UNCHANGED <<now, started, report>> /\ phase[p] # "idle"
        /\ phase'[p] = "decaying" /\ decayNow'[p] = now
        /\ UNCHANGED skipped \/ Over(p)
    BY <1>0, <1>8 DEF ExtractAndApprove, GoTo, TypeOK
  <2> QED
    BY <1>0, <2>1 DEF Reported, Over
<1>9. CASE ReadDue(p)
  <2>1. /\ UNCHANGED <<now, memories, started, decayNow>> /\ phase[p] # "idle"
        /\ DueAt(decayNow[p])' = DueAt(decayNow[p])
    BY <1>9 DEF ReadDue, table, DueAt, Recallable
  <2>2. CASE DecayOver(p)
    <3>1. phase'[p] = "idle" /\ report'[p] = "partial"
      BY <1>0, <1>9, <2>2 DEF ReadDue, GoTo, Finish, TypeOK
    <3> QED
      BY <1>0, <2>1, <3>1 DEF Reported
  <2>3. CASE ~DecayOver(p)
    <3>1. PICK S \in SUBSET MemoryIds :
            /\ IsDueBatch(S, decayNow[p])
            /\ phase'[p] = IF S = {} THEN "retaining" ELSE "writing"
      BY <1>0, <1>9, <2>3 DEF ReadDue, GoTo, TypeOK
    <3>2. UNCHANGED <<report, skipped>> /\ ~Over(p)
      BY <1>9, <2>3 DEF ReadDue, DecayOver
    <3>3. ~skipped[p] /\ report[p] = "running"
      BY <1>0, <2>1, <3>2 DEF Reported
    <3>4. S = {} => DueAt(decayNow[p]) = {}
      BY <1>0, <3>1, NoneDueAtAll
    <3> QED
      BY <1>0, <2>1, <3>1, <3>2, <3>3, <3>4 DEF Reported
  <2> QED
    BY <2>2, <2>3
<1>10. CASE RetainAndFinish(p)
  <2>1. /\ UNCHANGED <<now, memories, started, decayNow>> /\ phase[p] = "retaining"
        /\ phase'[p] = "idle" /\ DueAt(decayNow[p])' = DueAt(decayNow[p])
    BY <1>0, <1>10 DEF RetainAndFinish, Finish, GoTo, TypeOK, table, DueAt, Recallable
  <2>2. report'[p] = "partial" \/ skipped' = skipped
    BY <1>0, <1>10 DEF RetainAndFinish, Finish, TypeOK
  <2> QED
    BY <1>0, <2>1, <2>2 DEF Reported
<1>11. CASE Interrupt(p)
  <2>1. /\ phase'[p] = "idle" /\ report[p] = "running" /\ report' = report
        /\ UNCHANGED <<now, decayNow>>
    BY <1>0, <1>11 DEF Interrupt, TypeOK, clock, Reported
  <2> QED
    BY <1>0, <2>1 DEF Reported
<1>12. \A q \in Passes : q = p
  BY DEF OnePass
<1> QED
  BY <1>1, <1>2, <1>3, <1>4, <1>5, <1>6, <1>7, <1>8, <1>9, <1>10, <1>11, <1>12
     DEF Next, PassProgress

-----------------------------------------------------------------------------
(* Why the invariant is needed: that a state is of its age holds at every  *)
(* moment only because its row says when it entered it and when it leaves  *)
(* it, and because what a pass writes back is what it read.                *)
THEOREM LifecycleInductive ==
    ASSUME OnePass
    PROVE  /\ Init => LifecycleInv
           /\ LifecycleInv /\ [Next]_vars => LifecycleInv'
<1>1. ASSUME Init PROVE LifecycleInv
  <2>1. TypeOK
    <3>1. NoMemory \in MemoryRow /\ 0 \in Time
      BY LifecycleBoundsAssumption DEF NoMemory, MemoryRow, Time
    <3>2. NoMemory.since = 0 /\ NoMemory.state = "absent"
      BY DEF NoMemory
    <3> QED
      BY <1>1, <3>1, <3>2, LifecycleBoundsAssumption DEF Init, TypeOK
  <2>2. RowsCurrent /\ \A p \in Passes : ReadCurrent(p) /\ Reported(p)
    BY <1>1 DEF Init, RowsCurrent, RowCurrent, NoMemory, ReadCurrent, Reported
  <2> QED
    BY <2>1, <2>2 DEF LifecycleInv
<1>2. ASSUME LifecycleInv, [Next]_vars PROVE LifecycleInv'
  BY <1>2, TypesStep, RowsStep, ReadStep, ReportedStep DEF LifecycleInv
<1> QED
  BY <1>1, <1>2

LEMMA CurrentStates ==
    ASSUME LifecycleInv
    PROVE  StatesCurrent
<1> SUFFICES ASSUME NEW m \in MemoryIds, memories[m].state # "absent",
                    ~(memories[m].decayAt \in 0..now)
             PROVE  Ageing(memories[m].state) = StateAt(now - memories[m].since)
  BY DEF StatesCurrent
<1> DEFINE row == memories[m]
<1>1. RowCurrent(row) /\ row \in MemoryRow /\ now \in Time
  BY DEF LifecycleInv, TypeOK, RowsCurrent
<1>2. now \in Nat /\ row.since \in Nat /\ row.decayAt \in {Never} \cup Nat
      /\ row.state \in {"archived", "active", "associated", "decaying", "dormant"}
  BY <1>1, AgeFacts DEF MemoryRow, Eligible
<1>3. row.since <= now /\ (row.decayAt = Never \/ row.decayAt > now)
  BY <1>1, <1>2 DEF RowCurrent
<1>4. PICK age \in Nat : age = now - row.since
  BY <1>2, <1>3
<1> HIDE DEF row
<1>5. CASE row.state \in {"active", "associated"}
  <2>1. age < HalfLife
    BY <1>1, <1>2, <1>3, <1>4, <1>5, AgeFacts DEF RowCurrent
  <2> QED
    BY <1>4, <1>5, <2>1 DEF Ageing, StateAt, row
<1>6. CASE row.state = "decaying"
  <2>1. age >= HalfLife /\ age < DormantAfter
    BY <1>1, <1>2, <1>3, <1>4, <1>6, AgeFacts DEF RowCurrent
  <2>2. ~(age < HalfLife)
    BY <2>1, <1>4, AgeFacts
  <2> QED
    BY <1>4, <1>6, <2>1, <2>2 DEF Ageing, StateAt, row
<1>7. CASE row.state = "dormant"
  <2>1. age >= DormantAfter /\ age < ArchiveAfter
    BY <1>1, <1>2, <1>3, <1>4, <1>7, AgeFacts DEF RowCurrent
  <2>2. ~(age < HalfLife) /\ ~(age < DormantAfter)
    BY <2>1, <1>4, AgeFacts
  <2> QED
    BY <1>4, <1>7, <2>1, <2>2 DEF Ageing, StateAt, row
<1>8. CASE row.state = "archived"
  <2>1. age >= ArchiveAfter
    BY <1>1, <1>2, <1>3, <1>4, <1>8, AgeFacts DEF RowCurrent
  <2>2. ~(age < HalfLife) /\ ~(age < DormantAfter) /\ ~(age < ArchiveAfter)
    BY <2>1, <1>4, AgeFacts
  <2> QED
    BY <1>4, <1>8, <2>2 DEF Ageing, StateAt, row
<1> QED
  BY <1>2, <1>5, <1>6, <1>7, <1>8

(* With one pass at a time, whatever is promoted, cut or out of time, a    *)
(* row that is not due has the state of its age.                           *)
THEOREM OnePassStatesCurrent ==
    ASSUME OnePass
    PROVE  Spec => []StatesCurrent
<1>1. LifecycleInv => StatesCurrent
  BY CurrentStates
<1> QED
  BY <1>1, LifecycleInductive, PTL DEF Spec

(* With one pass at a time, a row of a run that does not say partial is of *)
(* a pass that left out no phase and no memory that was due.               *)
THEOREM OnePassCompletedIsCaughtUp ==
    ASSUME OnePass
    PROVE  Spec => []CompletedIsCaughtUp
<1>1. LifecycleInv => CompletedIsCaughtUp
  BY DEF LifecycleInv, Reported, CompletedIsCaughtUp
<1> QED
  BY <1>1, LifecycleInductive, PTL DEF Spec

=============================================================================
