---------------------------- MODULE ServerProofs ----------------------------
(***************************************************************************)
(* Proofs about the two servers of memoryd: the HTTP front end of the      *)
(* daemon, and the MCP server that an agent starts.                        *)
(***************************************************************************)
EXTENDS Http, McpServer,
        FiniteSetTheorems, SequenceTheorems, NaturalsInduction, WellFoundedInduction, TLAPS

-----------------------------------------------------------------------------
(***************************************************************************)
(* The HTTP front end: any number of connections and peers, any limits and *)
(* any size of the throttle's table.                                       *)
(***************************************************************************)

(* Answers and rows.                                                       *)

ConnTyped ==
    /\ stage \in [Conns -> Stages]
    /\ peer \in [Conns -> Peers \cup {NoPeer}]
    /\ status \in [Conns -> Codes]
    /\ row \in [Conns -> {"none", "auth.reject", "raw_event"}]
    /\ valid \in [Conns -> BOOLEAN]

(* No row before the answer, and no thread captures what it did not        *)
(* authorise.                                                              *)
Consistent(c) ==
    /\ stage[c] \notin {"answering", "answered"} => row[c] = "none"
    /\ stage[c] = "capturing" => IsAuthorized(peer[c], valid[c])
    /\ stage[c] \in {"answering", "answered"} =>
          /\ row[c] = "auth.reject" <=> status[c] = "401"
          /\ row[c] = "raw_event" <=> status[c] = "202"
          /\ status[c] = "202" => IsAuthorized(peer[c], valid[c])

Answered == ConnTyped /\ \A c \in Conns : Consistent(c)

LEMMA OtherConns ==
    ASSUME ConnTyped, NEW c \in Conns, HandleConnection(c) \/ Connect(c)
    PROVE  \A d \in Conns \ {c} :
              /\ stage'[d] = stage[d] /\ peer'[d] = peer[d]
              /\ status'[d] = status[d] /\ row'[d] = row[d] /\ valid'[d] = valid[d]
<1> USE DEF ConnTyped
<1>1. CASE Connect(c)
  BY <1>1 DEF Connect, Goes
<1>2. CASE Admit(c)
  BY <1>2 DEF Admit, Answers, Goes
<1>3. CASE RejectUnread(c)
  BY <1>3 DEF RejectUnread, Answers, Goes
<1>4. CASE HandleRequest(c)
  BY <1>4 DEF HandleRequest, Health, Route, Answers, Goes
<1>5. CASE Audit(c)
  BY <1>5 DEF Audit, Commits, Answers, Goes
<1>6. CASE RefuseFields(c)
  BY <1>6 DEF RefuseFields, Answers, Goes
<1>7. CASE Capture(c)
  BY <1>7 DEF Capture, Commits, Answers, Goes
<1>8. CASE Recall(c)
  BY <1>8 DEF Recall, Answers, Goes
<1>9. CASE Write(c)
  BY <1>9 DEF Write, Forgets, Goes
<1>10. CASE Record(c)
  BY <1>10 DEF Record, Forgets, Goes
<1> QED
  BY <1>1, <1>2, <1>3, <1>4, <1>5, <1>6, <1>7, <1>8, <1>9, <1>10 DEF HandleConnection

(* What a step makes of its own connection.                                *)
LEMMA OwnConn ==
    ASSUME ConnTyped, NEW c \in Conns, Consistent(c), HandleConnection(c) \/ Connect(c)
    PROVE  ConnTyped' /\ Consistent(c)' /\ token' = token
<1> USE DEF ConnTyped, Consistent, Stages, Codes, Success, IsAuthorized
<1>1. CASE Connect(c)
  BY <1>1 DEF Connect, Goes
<1>2. CASE Admit(c)
  BY <1>2 DEF Admit, Answers, Goes
<1>3. CASE RejectUnread(c)
  BY <1>3 DEF RejectUnread, Answers, Goes
<1>4. CASE HandleRequest(c)
  BY <1>4 DEF HandleRequest, Health, Route, Answers, Goes
<1>5. CASE Audit(c)
  BY <1>5 DEF Audit, Commits, Answers, Goes, Unaudited
<1>6. CASE RefuseFields(c)
  BY <1>6 DEF RefuseFields, Answers, Goes
<1>7. CASE Capture(c)
  BY <1>7 DEF Capture, Commits, Answers, Goes
<1>8. CASE Recall(c)
  BY <1>8 DEF Recall, Answers, Goes
<1>9. CASE Write(c)
  BY <1>9 DEF Write, Forgets, Goes
<1>10. CASE Record(c)
  BY <1>10 DEF Record, Forgets, Goes
<1> QED
  BY <1>1, <1>2, <1>3, <1>4, <1>5, <1>6, <1>7, <1>8, <1>9, <1>10 DEF HandleConnection

(* No step of a thread takes apart its stage, its peer, its answer and the *)
(* row it wrote (handle_connection).                                       *)
THEOREM AnsweredInductive ==
    /\ Init => Answered
    /\ Answered /\ [Next]_vars => Answered'
<1>1. Init => Answered
  BY DEF Init, Answered, ConnTyped, Consistent, Stages, Codes
<1>2. ASSUME Answered, [Next]_vars
      PROVE  Answered'
  <2>1. ASSUME NEW c \in Conns, HandleConnection(c) \/ Connect(c)
        PROVE  Answered'
    <3>1. ConnTyped' /\ Consistent(c)' /\ token' = token
      BY <1>2, <2>1, OwnConn DEF Answered
    <3>2. \A d \in Conns \ {c} : Consistent(d)'
      BY <1>2, <2>1, <3>1, OtherConns DEF Answered, Consistent, IsAuthorized
    <3> QED
      BY <3>1, <3>2 DEF Answered
  <2>2. CASE UNCHANGED <<token, conn>>
    BY <1>2, <2>2 DEF Answered, ConnTyped, Consistent, IsAuthorized, conn
  <2> QED
    BY <1>2, <2>1, <2>2 DEF Next, Tick, vars
<1> QED
  BY <1>1, <1>2

(* The row is committed by the step that decides the answer, or not at     *)
(* all, and authorisation is decided before either.                        *)
THEOREM AnswersAgree == Spec => []AnswersMatchRows
<1>1. Answered => AnswersMatchRows
  BY DEF Answered, Consistent, AnswersMatchRows, IsAuthorized
<1>2. Spec => []Answered
  BY AnsweredInductive, PTL DEF Spec
<1> QED
  BY <1>1, <1>2, PTL

-----------------------------------------------------------------------------
(* Lockouts and failures.                                                  *)

(* The failures an entry counts are the last of its peer's history, and    *)
(* none is older than the window they are counted in.                      *)
Counts(p) ==
    /\ throttle[p].failures < Limit
    /\ throttle[p].failures <= Len(history[p])
    /\ \A i \in 1..Len(history[p]) :
          i > Len(history[p]) - throttle[p].failures => history[p][i] <= throttle[p].window

(* The threads have a peer while they are open.                            *)
Peered(c) == stage[c] # "closed" => peer[c] \in Peers

Accounted ==
    /\ Entered \subseteq Peers
    /\ \A p \in Entered : throttle[p] \in FailState
    /\ history \in [Peers -> Seq(Age)]
    /\ \A p \in Peers : Len(history[p]) <= Limit
    /\ \A p \in Entered : Counts(p)

LEMMA Ages ==
    /\ 0 \in Age /\ Age \subseteq Nat
    /\ \A a \in Age : Older(a) \in Age
    /\ \A a \in Age, b \in Age : a <= b => Older(a) <= Older(b)
  BY HttpLimitsAssumption DEF Age, Older

LEMMA AgedHistory ==
    ASSUME NEW s \in Seq(Age)
    PROVE  /\ [i \in DOMAIN s |-> Older(s[i])] \in Seq(Age)
           /\ Len([i \in DOMAIN s |-> Older(s[i])]) = Len(s)
           /\ \A i \in 1..Len(s) : [j \in DOMAIN s |-> Older(s[j])][i] = Older(s[i])
<1>1. DOMAIN s = 1..Len(s) /\ Len(s) \in Nat
  OBVIOUS
<1>2. ASSUME NEW i \in 1..Len(s) PROVE Older(s[i]) \in Age
  <2>1. s[i] \in Age
    OBVIOUS
  <2> QED
    BY <2>1, Ages
<1>3. [i \in 1..Len(s) |-> Older(s[i])] \in Seq(Age)
  BY <1>1, <1>2
<1> QED
  BY <1>1, <1>3

(* A failure more.                                                         *)
LEMMA NotedFacts ==
    ASSUME Accounted, NEW p \in Peers
    PROVE  /\ Noted(p) \in Seq(Age) /\ Len(Noted(p)) <= Limit
           /\ Len(Noted(p)) = IF Len(history[p]) = Limit THEN Limit ELSE Len(history[p]) + 1
           /\ Noted(p)[Len(Noted(p))] = 0
           /\ \A i \in 1..(Len(Noted(p)) - 1) :
                 /\ Len(history[p]) + 1 - Len(Noted(p)) + i \in 1..Len(history[p])
                 /\ Noted(p)[i] = history[p][Len(history[p]) + 1 - Len(Noted(p)) + i]
<1> DEFINE s == history[p]
           all == Append(s, 0)
<1>1. s \in Seq(Age) /\ Len(s) \in Nat /\ Len(s) <= Limit /\ Limit \in Nat /\ Limit > 0
  BY HttpLimitsAssumption DEF Accounted
<1>2. /\ all \in Seq(Age) /\ Len(all) = Len(s) + 1 /\ all[Len(s) + 1] = 0
      /\ \A i \in 1..Len(s) : all[i] = s[i]
  BY <1>1, Ages
<1>3. Noted(p) = IF Len(all) > Limit THEN Tail(all) ELSE all
  BY DEF Noted
<1> HIDE DEF all, s
<1>4. CASE Len(s) = Limit
  <2>1. Noted(p) = Tail(all)
    BY <1>1, <1>2, <1>3, <1>4
  <2>2. /\ Tail(all) \in Seq(Age) /\ Len(Tail(all)) = Len(s)
        /\ \A i \in 1..Len(s) : Tail(all)[i] = all[i + 1]
    BY <1>1, <1>2
  <2>3. \A i \in 1..(Len(s) - 1) : Tail(all)[i] = s[i + 1] /\ i + 1 \in 1..Len(s)
    BY <1>1, <1>2, <2>2
  <2>4. Tail(all)[Len(s)] = 0
    BY <1>1, <1>2, <1>4, <2>2
  <2>5. Len(Noted(p)) = Len(s) /\ Noted(p) \in Seq(Age)
    BY <2>1, <2>2
  <2>6. ASSUME NEW i \in 1..(Len(Noted(p)) - 1)
        PROVE  /\ Len(s) + 1 - Len(Noted(p)) + i \in 1..Len(s)
               /\ Noted(p)[i] = s[Len(s) + 1 - Len(Noted(p)) + i]
    <3>1. i \in 1..(Len(s) - 1) /\ Len(s) + 1 - Len(Noted(p)) + i = i + 1
      BY <1>1, <2>5
    <3> QED
      BY <3>1, <2>1, <2>3
  <2>7. Noted(p)[Len(Noted(p))] = 0
    BY <2>1, <2>4, <2>5
  <2> QED
    BY <1>1, <1>4, <2>5, <2>6, <2>7 DEF s
<1>5. CASE Len(s) # Limit
  <2>1. Noted(p) = all /\ Len(s) < Limit
    BY <1>1, <1>2, <1>3, <1>5
  <2>2. Len(Noted(p)) = Len(s) + 1 /\ Noted(p) \in Seq(Age)
    BY <1>2, <2>1
  <2>3. ASSUME NEW i \in 1..(Len(Noted(p)) - 1)
        PROVE  /\ Len(s) + 1 - Len(Noted(p)) + i \in 1..Len(s)
               /\ Noted(p)[i] = s[Len(s) + 1 - Len(Noted(p)) + i]
    <3>1. i \in 1..Len(s) /\ Len(s) + 1 - Len(Noted(p)) + i = i
      BY <1>1, <2>2
    <3> QED
      BY <3>1, <1>2, <2>1
  <2>4. Noted(p)[Len(Noted(p))] = 0
    BY <1>2, <2>1
  <2> QED
    BY <1>1, <1>5, <2>1, <2>2, <2>3, <2>4 DEF s
<1> QED
  BY <1>4, <1>5

(* The entry a failure is added to, and what it is the count of.           *)
Current(p) == InWindow(IF p \in Entered THEN throttle[p] ELSE Fresh)

LEMMA CurrentFacts ==
    ASSUME Accounted, NEW p \in Peers
    PROVE  /\ Current(p) \in FailState
           /\ Current(p).failures < Limit
           /\ Current(p).failures <= Len(history[p])
           /\ Current(p).window <= Window
           /\ \A i \in 1..Len(history[p]) :
                 i > Len(history[p]) - Current(p).failures => history[p][i] <= Current(p).window
<1>1. /\ 0 \in Age /\ Age \subseteq Nat
      /\ Limit \in Nat /\ Limit > 0 /\ Window \in Nat /\ Lockout \in Nat
      /\ Len(history[p]) \in Nat
  BY Ages, HttpLimitsAssumption DEF Accounted
<1>2. Fresh \in FailState /\ Fresh.failures = 0 /\ Fresh.window = 0
  BY <1>1 DEF Fresh, FailState
<1> DEFINE old == IF p \in Entered THEN throttle[p] ELSE Fresh
<1>3. /\ old \in FailState /\ old.failures < Limit /\ old.failures <= Len(history[p])
      /\ \A i \in 1..Len(history[p]) :
            i > Len(history[p]) - old.failures => history[p][i] <= old.window
  <2>1. CASE p \in Entered
    BY <2>1 DEF Accounted, Counts
  <2>2. CASE p \notin Entered
    BY <2>2, <1>1, <1>2
  <2> QED
    BY <2>1, <2>2
<1>4. Current(p) = IF old.window > Window
                    THEN [failures |-> 0, window |-> 0, lock |-> old.lock, last |-> old.last]
                    ELSE old
  BY DEF Current, InWindow
<1> HIDE DEF old
<1>5. CASE old.window > Window
  <2>1. Current(p) = [failures |-> 0, window |-> 0, lock |-> old.lock, last |-> old.last]
    BY <1>4, <1>5
  <2>2. Current(p) \in FailState /\ Current(p).failures = 0 /\ Current(p).window = 0
    <3>1. old.lock \in 0..Lockout /\ old.last \in Age
      BY <1>3 DEF FailState
    <3> QED
      BY <2>1, <3>1, <1>1 DEF FailState
  <2> QED
    BY <2>2, <1>1
<1>6. CASE ~(old.window > Window)
  <2>1. Current(p) = old /\ old.window \in Nat
    BY <1>1, <1>3, <1>4, <1>6 DEF FailState
  <2> QED
    BY <2>1, <1>1, <1>3, <1>6
<1> QED
  BY <1>5, <1>6

LEMMA FailureTable ==
    ASSUME Accounted, NEW p \in Peers, RecordFailure(p)
    PROVE  /\ Entered' \subseteq Peers
           /\ p \in Entered' /\ throttle'[p] = Failed(Current(p))
           /\ history' = [history EXCEPT ![p] = IF Locks(Current(p)) THEN <<>> ELSE Noted(p)]
           /\ \A q \in Entered' \ {p} : q \in Entered /\ throttle'[q] = throttle[q]
<1>1. PICK kept \in Evicted(p) :
        throttle' = [q \in kept \cup {p} |-> IF q = p THEN Failed(Current(p)) ELSE throttle[q]]
  BY DEF RecordFailure, Current
<1>2. kept \subseteq Entered
  BY <1>1 DEF Evicted
<1>3. Entered' = kept \cup {p}
  BY <1>1 DEF Entered
<1> QED
  BY <1>1, <1>2, <1>3 DEF Accounted, RecordFailure, Current

LEMMA FailureAccounted ==
    ASSUME Accounted, NEW p \in Peers, RecordFailure(p)
    PROVE  Accounted'
<1> DEFINE e == Current(p)
<1>1. /\ 0 \in Age /\ Age \subseteq Nat
      /\ Limit \in Nat /\ Limit > 0 /\ Lockout \in Nat
      /\ history \in [Peers -> Seq(Age)]
      /\ \A q \in Peers : Len(history[q]) <= Limit
  BY Ages, HttpLimitsAssumption DEF Accounted
<1>2. /\ e \in FailState /\ e.failures < Limit /\ e.failures <= Len(history[p])
      /\ \A i \in 1..Len(history[p]) :
            i > Len(history[p]) - e.failures => history[p][i] <= e.window
  BY CurrentFacts
<1>3. /\ Entered' \subseteq Peers
      /\ p \in Entered' /\ throttle'[p] = Failed(e)
      /\ history' = [history EXCEPT ![p] = IF Locks(e) THEN <<>> ELSE Noted(p)]
      /\ \A q \in Entered' \ {p} : q \in Entered /\ throttle'[q] = throttle[q]
  BY FailureTable
<1>4. /\ Noted(p) \in Seq(Age) /\ Len(Noted(p)) <= Limit
      /\ Len(Noted(p)) = IF Len(history[p]) = Limit THEN Limit ELSE Len(history[p]) + 1
      /\ Noted(p)[Len(Noted(p))] = 0
      /\ \A i \in 1..(Len(Noted(p)) - 1) :
            /\ Len(history[p]) + 1 - Len(Noted(p)) + i \in 1..Len(history[p])
            /\ Noted(p)[i] = history[p][Len(history[p]) + 1 - Len(Noted(p)) + i]
  BY NotedFacts
<1> HIDE DEF e
<1>5. /\ history' \in [Peers -> Seq(Age)]
      /\ \A q \in Peers : Len(history'[q]) <= Limit
  BY <1>1, <1>3, <1>4
<1>6. /\ Failed(e) \in FailState
      /\ Failed(e).failures = IF Locks(e) THEN 0 ELSE e.failures + 1
      /\ ~Locks(e) => Failed(e).window = e.window
  <2>1. e.failures \in Nat /\ e.window \in Age
    BY <1>2, <1>1 DEF FailState
  <2>2. CASE Locks(e)
    BY <2>2, <1>1 DEF Failed, FailState, Locks
  <2>3. CASE ~Locks(e)
    <3>1. e.failures + 1 \in 0..Limit /\ Failed(e) = [e EXCEPT !.failures = @ + 1, !.last = 0]
      BY <2>3, <2>1, <1>1, <1>2 DEF Failed, Locks
    <3> QED
      BY <3>1, <2>3, <1>1, <1>2 DEF FailState
  <2> QED
    BY <2>2, <2>3
<1>7. \A q \in Entered' : throttle'[q] \in FailState
  BY <1>3, <1>6 DEF Accounted
<1>8. \A q \in Entered' \ {p} : Counts(q)'
  <2> TAKE q \in Entered' \ {p}
  <2>1. /\ Counts(q) /\ throttle'[q] = throttle[q] /\ q \in Peers /\ q # p
    BY <1>3 DEF Accounted
  <2>2. history'[q] = history[q]
    BY <1>1, <1>3, <2>1
  <2> QED
    BY <2>1, <2>2 DEF Counts
<1>9. Counts(p)'
  <2>1. CASE Locks(e)
    <3>1. history'[p] = <<>> /\ throttle'[p].failures = 0
      BY <2>1, <1>1, <1>3, <1>6
    <3> QED
      BY <3>1, <1>1 DEF Counts
  <2>2. CASE ~Locks(e)
    <3>1. /\ history'[p] = Noted(p) /\ throttle'[p].failures = e.failures + 1
          /\ throttle'[p].window = e.window
      BY <2>2, <1>1, <1>3, <1>6
    <3>2. e.failures \in Nat /\ e.window \in Nat /\ e.failures + 1 < Limit
      <4>1. e.failures \in 0..Limit /\ e.window \in Age
        BY <1>2 DEF FailState
      <4>2. ~(e.failures + 1 >= Limit)
        BY <2>2 DEF Locks
      <4>3. e.failures \in Nat
        BY <4>1, <1>1
      <4>4. e.failures + 1 < Limit
        BY <4>2, <4>3, HttpLimitsAssumption
      <4> QED
        BY <4>1, <4>3, <4>4, Ages
    <3>3. Len(history[p]) \in Nat /\ Len(Noted(p)) \in Nat /\ Len(history[p]) <= Limit
      BY <1>1, <1>4
    <3>4. ASSUME NEW i \in 1..Len(Noted(p)), i > Len(Noted(p)) - (e.failures + 1)
          PROVE  Noted(p)[i] <= e.window
      <4>1. CASE i = Len(Noted(p))
        BY <4>1, <1>4, <3>2
      <4>2. CASE i # Len(Noted(p))
        <5> DEFINE k == Len(history[p]) + 1 - Len(Noted(p)) + i
        <5>1. k \in 1..Len(history[p]) /\ Noted(p)[i] = history[p][k]
          BY <4>2, <1>4, <3>3
        <5>2. k > Len(history[p]) - e.failures
          BY <3>2, <3>3, <3>4
        <5> QED
          BY <5>1, <5>2, <1>2
      <4> QED
        BY <4>1, <4>2
    <3>5. e.failures + 1 <= Len(Noted(p))
      BY <1>2, <1>4, <3>2, <3>3
    <3> QED
      BY <3>1, <3>2, <3>4, <3>5 DEF Counts
  <2> QED
    BY <2>1, <2>2
<1> QED
  BY <1>3, <1>5, <1>7, <1>8, <1>9 DEF Accounted

LEMMA TickAccounted ==
    ASSUME Accounted, Tick
    PROVE  Accounted'
<1>1. /\ throttle' = [p \in Entered |-> Aged(throttle[p])]
      /\ history' = [p \in Peers |-> [i \in DOMAIN history[p] |-> Older(history[p][i])]]
      /\ Entered' = Entered
  BY DEF Tick, Entered
<1>2. ASSUME NEW p \in Peers
      PROVE  /\ history'[p] \in Seq(Age) /\ Len(history'[p]) = Len(history[p])
             /\ \A i \in 1..Len(history[p]) : history'[p][i] = Older(history[p][i])
  <2>1. history[p] \in Seq(Age)
    BY DEF Accounted
  <2>2. history'[p] = [i \in DOMAIN history[p] |-> Older(history[p][i])]
    BY <1>1
  <2> QED
    BY <2>1, <2>2, AgedHistory
<1>3. ASSUME NEW p \in Entered
      PROVE  /\ throttle'[p] \in FailState
             /\ throttle'[p].failures = throttle[p].failures
             /\ throttle'[p].window = Older(throttle[p].window)
  <2>1. /\ throttle[p].failures \in 0..Limit /\ throttle[p].window \in Age
        /\ throttle[p].lock \in 0..Lockout /\ throttle[p].last \in Age
    BY DEF Accounted, FailState
  <2>2. throttle'[p] = Aged(throttle[p])
    BY <1>1
  <2>3. (IF throttle[p].lock > 0 THEN throttle[p].lock - 1 ELSE 0) \in 0..Lockout
    BY <2>1, HttpLimitsAssumption
  <2>4. Older(throttle[p].window) \in Age /\ Older(throttle[p].last) \in Age
    BY <2>1, Ages
  <2> QED
    BY <2>1, <2>2, <2>3, <2>4 DEF Aged, FailState
<1>4. ASSUME NEW p \in Entered
      PROVE  Counts(p)'
  <2>1. p \in Peers /\ Counts(p) /\ throttle[p].window \in Age /\ history[p] \in Seq(Age)
    BY DEF Accounted, FailState
  <2>2. ASSUME NEW i \in 1..Len(history[p]), i > Len(history[p]) - throttle[p].failures
        PROVE  Older(history[p][i]) <= Older(throttle[p].window)
    <3>1. history[p][i] \in Age
      BY <2>1
    <3>2. history[p][i] <= throttle[p].window
      BY <2>1, <2>2 DEF Counts
    <3> QED
      BY <2>1, <3>1, <3>2, Ages
  <2>3. /\ Len(history'[p]) = Len(history[p])
        /\ \A i \in 1..Len(history[p]) : history'[p][i] = Older(history[p][i])
    BY <1>2, <2>1
  <2>4. /\ throttle'[p].failures = throttle[p].failures
        /\ throttle'[p].window = Older(throttle[p].window)
    BY <1>3
  <2> QED
    BY <2>1, <2>2, <2>3, <2>4 DEF Counts
<1>5. history' \in [Peers -> Seq(Age)]
  BY <1>1, <1>2
<1> QED
  BY <1>1, <1>2, <1>3, <1>4, <1>5 DEF Accounted

LEMMA SuccessAccounted ==
    ASSUME Accounted, NEW p \in Peers, RecordSuccess(p)
    PROVE  Accounted'
<1>1. /\ throttle' = [q \in Entered \ {p} |-> throttle[q]]
      /\ Entered' = Entered \ {p}
      /\ history' = [history EXCEPT ![p] = <<>>]
  BY DEF RecordSuccess, Entered
<1>2. /\ history' \in [Peers -> Seq(Age)]
      /\ \A q \in Peers : Len(history'[q]) <= Limit
  BY <1>1, HttpLimitsAssumption DEF Accounted
<1>3. \A q \in Entered' : Counts(q)'
  <2> TAKE q \in Entered'
  <2>1. Counts(q) /\ throttle'[q] = throttle[q] /\ q \in Peers /\ q # p
    BY <1>1 DEF Accounted
  <2>2. history'[q] = history[q]
    BY <1>1, <2>1 DEF Accounted
  <2> QED
    BY <2>1, <2>2 DEF Counts
<1> QED
  BY <1>1, <1>2, <1>3 DEF Accounted

(* A step of a thread that leaves the throttle alone.                      *)
LEMMA SameTable ==
    ASSUME Accounted, UNCHANGED <<throttle, history>>
    PROVE  Accounted'
  BY DEF Accounted, Counts, Entered

(* What one thread does to the table.                                      *)
LEMMA ThreadTable ==
    ASSUME NEW c \in Conns, Peered(c), HandleConnection(c) \/ Connect(c)
    PROVE  \/ UNCHANGED <<throttle, history>>
           \/ \E p \in Peers : RecordFailure(p) \/ RecordSuccess(p)
<1>1. CASE Record(c)
  BY <1>1 DEF Record, Peered
<1>2. CASE Write(c)
  BY <1>2 DEF Write
<1>3. CASE Admit(c) \/ RejectUnread(c) \/ HandleRequest(c) \/ Audit(c)
  BY <1>3 DEF Admit, RejectUnread, HandleRequest, Audit
<1>4. CASE Connect(c) \/ RefuseFields(c) \/ Capture(c) \/ Recall(c)
  BY <1>4 DEF Connect, RefuseFields, Capture, Recall
<1> QED
  BY <1>1, <1>2, <1>3, <1>4 DEF HandleConnection

LEMMA ThreadPeer ==
    ASSUME ConnTyped, NEW c \in Conns, Peered(c), HandleConnection(c) \/ Connect(c)
    PROVE  Peered(c)'
<1> USE DEF ConnTyped, Peered
<1>1. CASE Connect(c)
  BY <1>1 DEF Connect, Goes
<1>2. CASE Admit(c)
  BY <1>2 DEF Admit
<1>3. CASE RejectUnread(c)
  BY <1>3 DEF RejectUnread
<1>4. CASE HandleRequest(c)
  BY <1>4 DEF HandleRequest
<1>5. CASE Audit(c)
  BY <1>5 DEF Audit
<1>6. CASE RefuseFields(c)
  BY <1>6 DEF RefuseFields
<1>7. CASE Capture(c)
  BY <1>7 DEF Capture
<1>8. CASE Recall(c)
  BY <1>8 DEF Recall
<1>9. CASE Write(c)
  BY <1>9 DEF Write, Goes
<1>10. CASE Record(c)
  BY <1>10 DEF Record, Goes
<1> QED
  BY <1>1, <1>2, <1>3, <1>4, <1>5, <1>6, <1>7, <1>8, <1>9, <1>10 DEF HandleConnection

Throttling == Answered /\ Accounted /\ \A c \in Conns : Peered(c)

(* No thread and no tick of the clock takes apart the throttle table and   *)
(* the failures recorded so far (main.rs, AuthThrottle).                   *)
THEOREM ThrottlingInductive ==
    /\ Init => Throttling
    /\ Throttling /\ [Next]_vars => Throttling'
<1>1. Init => Throttling
  <2>1. ASSUME Init PROVE Accounted
    BY <2>1, HttpLimitsAssumption DEF Init, Accounted, Entered
  <2> QED
    BY <2>1, AnsweredInductive DEF Init, Throttling, Peered
<1>2. ASSUME Throttling, [Next]_vars
      PROVE  Throttling'
  <2>1. Answered' /\ ConnTyped
    BY <1>2, AnsweredInductive DEF Throttling, Answered
  <2>2. ASSUME NEW c \in Conns, HandleConnection(c) \/ Connect(c)
        PROVE  Accounted' /\ \A d \in Conns : Peered(d)'
    <3>1. Peered(c) /\ Accounted
      BY <1>2 DEF Throttling
    <3>2. Accounted'
      BY <2>2, <3>1, ThreadTable, SameTable, FailureAccounted, SuccessAccounted
    <3>3. Peered(c)'
      BY <2>1, <2>2, <3>1, ThreadPeer
    <3>4. \A d \in Conns \ {c} : Peered(d)'
      BY <1>2, <2>1, <2>2, OtherConns DEF Throttling, Peered
    <3> QED
      BY <3>2, <3>3, <3>4
  <2>3. CASE Tick
    BY <1>2, <2>1, <2>3, TickAccounted DEF Throttling, Tick, conn, Peered
  <2>4. CASE UNCHANGED vars
    BY <1>2, <2>1, <2>4, SameTable DEF Throttling, vars, conn, Peered
  <2> QED
    BY <1>2, <2>1, <2>2, <2>3, <2>4 DEF Next, Throttling
<1> QED
  BY <1>1, <1>2

(* A lockout is the work of one failure, counted with those before it.     *)
LEMMA LocksEarned ==
    ASSUME Accounted, NEW p \in Peers, RecordFailure(p), Locks(Current(p))
    PROVE  Len(Noted(p)) = Limit /\ \A i \in 1..Limit : Noted(p)[i] <= Window
<1> DEFINE e == Current(p)
<1>1. /\ e \in FailState /\ e.failures < Limit /\ e.failures <= Len(history[p])
      /\ e.window <= Window
      /\ \A i \in 1..Len(history[p]) :
            i > Len(history[p]) - e.failures => history[p][i] <= e.window
  BY CurrentFacts
<1>2. /\ Len(Noted(p)) <= Limit
      /\ Len(Noted(p)) = IF Len(history[p]) = Limit THEN Limit ELSE Len(history[p]) + 1
      /\ Noted(p)[Len(Noted(p))] = 0
      /\ \A i \in 1..(Len(Noted(p)) - 1) :
            /\ Len(history[p]) + 1 - Len(Noted(p)) + i \in 1..Len(history[p])
            /\ Noted(p)[i] = history[p][Len(history[p]) + 1 - Len(Noted(p)) + i]
  BY NotedFacts
<1>3. e.failures + 1 >= Limit
  BY DEF Locks
<1> HIDE DEF e
<1>4. e.failures \in 0..Limit /\ e.window \in Age
  BY <1>1 DEF FailState
<1>5. /\ Limit \in Nat /\ Limit > 0 /\ Window \in Nat
      /\ Len(history[p]) \in Nat /\ Len(history[p]) <= Limit
      /\ history[p] \in Seq(Age) /\ e.window \in Nat
  <2>1. e.window \in Nat
    BY <1>4, Ages
  <2>2. history[p] \in Seq(Age) /\ Len(history[p]) <= Limit
    BY DEF Accounted
  <2> QED
    BY <2>1, <2>2, HttpLimitsAssumption
<1>6. e.failures = Limit - 1
  <2>1. e.failures + 1 >= Limit /\ e.failures < Limit /\ e.failures \in 0..Limit
    BY <1>1, <1>3, <1>4
  <2> QED
    BY <2>1, HttpLimitsAssumption
<1>7. Len(Noted(p)) = Limit
  BY <1>1, <1>2, <1>5, <1>6
<1>8. ASSUME NEW i \in 1..Limit
      PROVE  Noted(p)[i] <= Window
  <2>1. CASE i = Limit
    BY <2>1, <1>2, <1>5, <1>7
  <2>2. CASE i # Limit
    <3> DEFINE k == Len(history[p]) + 1 - Limit + i
    <3>1. k \in 1..Len(history[p]) /\ Noted(p)[i] = history[p][k]
      <4>1. i \in 1..(Len(Noted(p)) - 1)
        BY <2>2, <1>7, HttpLimitsAssumption
      <4> QED
        BY <4>1, <1>2, <1>7
    <3>2. k > Len(history[p]) - e.failures
      BY <1>5, <1>6
    <3>3. history[p][k] <= e.window /\ history[p][k] \in Age
      BY <3>1, <3>2, <1>1, <1>5
    <3>4. history[p][k] \in Nat
      BY <3>3, Ages
    <3> QED
      BY <3>1, <3>3, <3>4, <1>1, <1>5
  <2> QED
    BY <2>1, <2>2
<1> QED
  BY <1>7, <1>8

(* No step lengthens a lockout but a failure that completes one.           *)
LEMMA LockGrows ==
    ASSUME Throttling, [Next]_vars, NEW p \in Peers, Lock(p)' > Lock(p)
    PROVE  RecordFailure(p) /\ Locks(Current(p))
<1>1. Lock(p) \in 0..Lockout /\ Lockout \in Nat
  BY HttpLimitsAssumption DEF Throttling, Accounted, FailState, Lock
<1>2. Lock(p) \in Nat
  BY <1>1
<1>3. ~UNCHANGED <<throttle, history>>
  BY <1>2 DEF Lock, Entered
<1>4. ~Tick
  <2> SUFFICES ASSUME Tick PROVE FALSE
    OBVIOUS
  <2>1. throttle' = [q \in Entered |-> Aged(throttle[q])] /\ Entered' = Entered
    BY DEF Tick, Entered
  <2>2. CASE p \in Entered
    <3>1. Lock(p)' = Aged(throttle[p]).lock /\ Lock(p) = throttle[p].lock
      BY <2>1, <2>2 DEF Lock
    <3>2. Aged(throttle[p]).lock = IF throttle[p].lock > 0 THEN throttle[p].lock - 1 ELSE 0
      BY DEF Aged
    <3> QED
      BY <3>1, <3>2, <1>2
  <2>3. CASE p \notin Entered
    BY <2>1, <2>3 DEF Lock
  <2> QED
    BY <2>2, <2>3
<1>5. PICK q \in Peers : RecordFailure(q) \/ RecordSuccess(q)
  BY <1>3, <1>4, ThreadTable DEF Next, vars, Throttling
<1>6. CASE RecordSuccess(q)
  <2>1. throttle' = [r \in Entered \ {q} |-> throttle[r]] /\ Entered' = Entered \ {q}
    BY <1>6 DEF RecordSuccess, Entered
  <2>2. Lock(p)' = Lock(p) \/ Lock(p)' = 0
    BY <2>1 DEF Lock
  <2> QED
    BY <2>2, <1>2
<1>7. CASE RecordFailure(q) /\ q # p
  <2>1. \A r \in Entered' \ {q} : r \in Entered /\ throttle'[r] = throttle[r]
    BY <1>7, FailureTable DEF Throttling
  <2>2. Lock(p)' = Lock(p) \/ Lock(p)' = 0
    BY <1>7, <2>1 DEF Lock
  <2> QED
    BY <2>2, <1>2
<1>8. CASE RecordFailure(p) /\ ~Locks(Current(p))
  <2>1. p \in Entered' /\ throttle'[p] = Failed(Current(p))
    BY <1>8, FailureTable DEF Throttling
  <2>2. Failed(Current(p)).lock = Current(p).lock
    <3>1. Failed(Current(p)) = [Current(p) EXCEPT !.failures = @ + 1, !.last = 0]
      BY <1>8 DEF Failed, Locks
    <3>2. Current(p) \in FailState
      BY CurrentFacts DEF Throttling
    <3> QED
      BY <3>1, <3>2 DEF FailState
  <2>3. Current(p).lock = Lock(p)
    BY DEF Current, InWindow, Lock, Fresh
  <2> QED
    BY <2>1, <2>2, <2>3, <1>2 DEF Lock
<1> QED
  BY <1>5, <1>6, <1>7, <1>8

(* The count of an entry is of the last failures of its peer, all of them  *)
(* since its window began, whichever threads recorded them and whatever    *)
(* was evicted in between: a lockout is never of fewer or of older ones.   *)
THEOREM LockoutsEarned == Spec => LockoutEarned
<1>1. Throttling /\ [Next]_vars =>
        [\A p \in Peers : Lock(p)' > Lock(p) =>
            Len(Noted(p)) = Limit /\ \A i \in 1..Limit : Noted(p)[i] <= Window]_vars
  BY LockGrows, LocksEarned DEF Throttling
<1> QED
  BY <1>1, ThrottlingInductive, PTL DEF Spec, LockoutEarned

-----------------------------------------------------------------------------
(***************************************************************************)
(* The MCP server: any number of servers, messages, clients that close their *)
(* ends at any time, and databases of any age.                             *)
(***************************************************************************)

(* A set of naturals that is not empty has a least element.                *)
LEMMA LeastElement ==
    ASSUME NEW S \in SUBSET Nat, S # {}
    PROVE  Min(S) \in S /\ \A y \in S : Min(S) <= y
<1>1. PICK x \in S : \A y \in S : <<y, x>> \notin OpToRel(<, Nat)
  BY NatLessThanWellFounded, WFMin
<1>2. ASSUME NEW y \in S, y < x
      PROVE  FALSE
  <2>1. <<y, x>> \in Nat \X Nat /\ <<y, x>>[1] < <<y, x>>[2]
    BY <1>2
  <2>2. <<y, x>> \in OpToRel(<, Nat)
    BY <2>1 DEF OpToRel
  <2> QED
    BY <1>1, <2>2
<1>3. \A y \in S : x <= y
  BY <1>2
<1> QED
  BY <1>3 DEF Min

LEMMA AppendType ==
    ASSUME NEW S, NEW q \in Seq(S), NEW x \in S
    PROVE  /\ Append(q, x) \in Seq(S)
           /\ Len(Append(q, x)) = Len(q) + 1
           /\ DOMAIN Append(q, x) = DOMAIN q \cup {Len(q) + 1}
           /\ Append(q, x)[Len(q) + 1] = x
           /\ \A i \in DOMAIN q : Append(q, x)[i] = q[i]
OBVIOUS

(* A part of a sequence: what a read leaves in the pipe, a line takes and  *)
(* the next line finds.                                                    *)
LEMMA SubSeqType ==
    ASSUME NEW S, NEW q \in Seq(S), NEW a \in Nat \ {0}, NEW b \in Nat, b <= Len(q)
    PROVE  SubSeq(q, a, b) \in Seq(S) /\ Len(SubSeq(q, a, b)) <= Len(q)
OBVIOUS

LEMMA NewlineType ==
    ASSUME NEW q \in Seq(Bytes)
    PROVE  /\ NewlineAt(q) \in 0..Len(q)
           /\ NewlineAt(q) = 0 => \A x \in 1..Len(q) : q[x] # "newline"
           /\ NewlineAt(q) # 0 => q[NewlineAt(q)] = "newline"
           /\ \A x \in 1..(NewlineAt(q) - 1) : q[x] # "newline"
<1> DEFINE at == {i \in 1..Len(q) : q[i] = "newline"}
<1>1. NewlineAt(q) = IF at # {} THEN Min(at) ELSE 0
  BY DEF NewlineAt, SelectInSeq
<1>2. at \in SUBSET Nat /\ Len(q) \in Nat
      /\ \A x : x \in at <=> x \in 1..Len(q) /\ q[x] = "newline"
  OBVIOUS
<1> HIDE DEF at
<1>3. CASE at = {}
  BY <1>1, <1>2, <1>3
<1>4. CASE at # {}
  <2>1. Min(at) \in at /\ \A y \in at : Min(at) <= y
    BY <1>2, <1>4, LeastElement
  <2>2. NewlineAt(q) \in 1..Len(q) /\ q[NewlineAt(q)] = "newline"
    BY <1>1, <1>2, <1>4, <2>1
  <2>3. ASSUME NEW x \in 1..(NewlineAt(q) - 1)
        PROVE  q[x] # "newline"
    <3>1. x \in 1..Len(q) /\ ~(NewlineAt(q) <= x)
      BY <1>2, <2>2
    <3>2. x \notin at
      BY <1>1, <1>4, <2>1, <3>1
    <3> QED
      BY <1>2, <3>1, <3>2
  <2> QED
    BY <1>2, <2>2, <2>3
<1> QED
  BY <1>3, <1>4

LEMMA PieceType ==
    ASSUME NEW q \in Seq(Bytes)
    PROVE  /\ Rest(q) \in Seq(Bytes) /\ Len(Rest(q)) <= Len(q)
           /\ Part(q) \in Seq(Bytes) /\ Len(Part(q)) <= Len(q)
<1>1. NewlineAt(q) \in 0..Len(q) /\ Len(q) \in Nat
  BY NewlineType
<1>2. CASE NewlineAt(q) = 0
  BY <1>1, <1>2 DEF Rest, Part
<1>3. CASE NewlineAt(q) # 0
  <2>1. Rest(q) = SubSeq(q, NewlineAt(q) + 1, Len(q))
    BY <1>3 DEF Rest
  <2>2. Part(q) = SubSeq(q, 1, NewlineAt(q) - 1)
    BY <1>3 DEF Part
  <2>3. Rest(q) \in Seq(Bytes) /\ Len(Rest(q)) <= Len(q)
    BY <1>1, <2>1, SubSeqType
  <2>4. Part(q) \in Seq(Bytes) /\ Len(Part(q)) <= Len(q)
    BY <1>1, <1>3, <2>2, SubSeqType
  <2> QED
    BY <2>3, <2>4
<1> QED
  BY <1>2, <1>3

LEMMA EncodeType ==
    ASSUME NEW m \in Kinds
    PROVE  Encode(m) \in Seq(Bytes)
<1>1. Size(m) \in Nat
  BY McpAssumption DEF Size
<1>2. \A i \in 1..Size(m) : (IF i = 1 THEN m ELSE "pad") \in Bytes
  BY DEF Bytes
<1> QED
  BY <1>1, <1>2 DEF Encode

LEMMA LineKind == \A s \in Servers : Line(s) \in Kinds
<1> TAKE s \in Servers
<1>1. "junk" \in Kinds /\ "long" \in Kinds
  BY DEF Kinds
<1>2. Decode(buf[s]) \in Kinds
  BY <1>1 DEF Decode
<1> QED
  BY <1>1, <1>2 DEF Line

LEMMA RepliesType ==
    ASSUME NEW m \in Kinds \ Silent, NEW ready \in BOOLEAN
    PROVE  Replies(m, ready) \subseteq ReplyKinds \ {"none"}
<1>1. m \in {"long", "junk", "ping", "list", "tool", "resource", "remember"}
  BY DEF Kinds, Silent
<1>2. CASE m \in {"long", "junk", "ping"}
  <2>1. m \in DOMAIN Ungated
    BY <1>2 DEF Ungated
  <2>2. /\ Ungated["long"] = {"limit"} /\ Ungated["junk"] = {"parse error"}
        /\ Ungated["ping"] = {"result"}
    BY DEF Ungated
  <2>3. /\ {"limit"} \subseteq ReplyKinds \ {"none"}
        /\ {"parse error"} \subseteq ReplyKinds \ {"none"}
        /\ {"result"} \subseteq ReplyKinds \ {"none"}
    BY DEF ReplyKinds
  <2> QED
    BY <1>2, <2>1, <2>2, <2>3 DEF Replies
<1>3. CASE m \in {"list", "tool", "resource", "remember"}
  <2>1. m \notin DOMAIN Ungated
    BY <1>3 DEF Ungated
  <2>2. Gated["list"] \subseteq ReplyKinds \ {"none"}
    BY DEF Gated, ReplyKinds
  <2>3. Gated["tool"] \subseteq ReplyKinds \ {"none"}
    BY DEF Gated, ToolReplies, ReplyKinds
  <2>4. Gated["resource"] \subseteq ReplyKinds \ {"none"}
    BY DEF Gated, ResourceReplies, ReplyKinds
  <2>5. Gated["remember"] \subseteq ReplyKinds \ {"none"}
    BY DEF Gated, RememberReplies, ReplyKinds
  <2>6. {"not initialized"} \subseteq ReplyKinds \ {"none"}
    BY DEF ReplyKinds
  <2>7. Replies(m, ready) = IF ready THEN Gated[m] ELSE {"not initialized"}
    BY <2>1 DEF Replies
  <2> QED
    BY <1>3, <2>2, <2>3, <2>4, <2>5, <2>6, <2>7
<1> QED
  BY <1>1, <1>2, <1>3

-----------------------------------------------------------------------------
(* Type correctness.                                                       *)
LEMMA ClientType ==
    ASSUME McpTypeOK, NEW s \in Servers, Speak(s) \/ Close(s) \/ HangUp(s)
    PROVE  McpTypeOK'
<1>1. CASE Speak(s)
  <2>1. PICK m \in Messages, last \in BOOLEAN :
           pipe' = [pipe EXCEPT ![s] = @ \o Encode(m) \o IF last THEN <<>> ELSE <<"newline">>]
    BY <1>1 DEF Speak
  <2>2. Encode(m) \in Seq(Bytes) /\ pipe[s] \in Seq(Bytes)
    BY EncodeType, MessagesAssumption DEF McpTypeOK
  <2>3. (IF last THEN <<>> ELSE <<"newline">>) \in Seq(Bytes)
    <3>1. "newline" \in Bytes
      BY DEF Bytes
    <3>2. <<>> \in Seq(Bytes) /\ <<"newline">> \in Seq(Bytes)
      BY <3>1
    <3> QED
      BY <3>2
  <2>4. pipe[s] \o Encode(m) \o (IF last THEN <<>> ELSE <<"newline">>) \in Seq(Bytes)
    BY <2>2, <2>3
  <2>5. pipe' \in [Servers -> Seq(Bytes)]
    BY <2>1, <2>4 DEF McpTypeOK
  <2> QED
    BY <1>1, <2>5 DEF Speak, McpTypeOK, database
<1>2. CASE Close(s) \/ HangUp(s)
  BY <1>2 DEF Close, HangUp, McpTypeOK, database, reader
<1> QED
  BY <1>1, <1>2

LEMMA OpenType ==
    ASSUME McpTypeOK, NEW s \in Servers, Open(s)
    PROVE  McpTypeOK'
<1>1. schema' \in 0..Latest /\ seen' \in [Servers -> 0..Latest]
  <2>1. schema \in 0..Latest /\ seen \in [Servers -> 0..Latest] /\ Latest \in 0..Latest
    BY DEF McpTypeOK, Latest
  <2>2. schema' = schema \/ schema' = Latest
    BY DEF Open
  <2>3. seen' = seen \/ seen' = [seen EXCEPT ![s] = schema]
    BY DEF Open
  <2> QED
    BY <2>1, <2>2, <2>3
<1>2. pc' \in [Servers -> Places] /\ \A t \in Servers : t # s => pc'[t] = pc[t]
  BY DEF Open, McpTypeOK, Goto, Places
<1>3. reply[s] = "none"
  BY DEF Open, McpTypeOK
<1> QED
  BY <1>1, <1>2, <1>3 DEF Open, McpTypeOK, reader

LEMMA BackfilledType ==
    ASSUME McpTypeOK
    PROVE  /\ Backfilled \in Seq(Row)
           /\ DOMAIN Backfilled = DOMAIN events
           /\ \A i \in DOMAIN events :
                 /\ Backfilled[i].by = events[i].by
                 /\ Backfilled[i].job = events[i].job
                 /\ Backfilled[i].indexed = events[i].indexed + 1
<1>1. \A i \in DOMAIN events : events[i] \in Row
  BY DEF McpTypeOK
<1>2. \A e \in Row : /\ Indexed(e) \in Row
                     /\ Indexed(e).by = e.by /\ Indexed(e).job = e.job
                     /\ Indexed(e).indexed = e.indexed + 1
  BY DEF Row, Indexed
<1>3. DOMAIN events = 1..Len(events) /\ Len(events) \in Nat
  BY DEF McpTypeOK
<1> QED
  BY <1>1, <1>2, <1>3 DEF Backfilled

LEMMA MigrateType ==
    ASSUME McpTypeOK, NEW s \in Servers, Migrate(s)
    PROVE  McpTypeOK'
<1>1. schema' \in 0..Latest /\ events' \in Seq(Row)
  <2>1. schema \in 0..Latest /\ events \in Seq(Row) /\ Latest \in 0..Latest
    BY DEF McpTypeOK, Latest
  <2>2. \/ schema' = schema /\ events' = events
        \/ schema' = Latest /\ events' = Backfilled
    BY DEF Migrate, database
  <2> QED
    BY <2>1, <2>2, BackfilledType
<1>2. pc' \in [Servers -> Places] /\ \A t \in Servers : t # s => pc'[t] = pc[t]
  BY DEF Migrate, McpTypeOK, Goto, Places
<1>3. reply[s] = "none"
  BY DEF Migrate, McpTypeOK
<1> QED
  BY <1>1, <1>2, <1>3 DEF Migrate, McpTypeOK, reader

LEMMA ReadType ==
    ASSUME McpTypeOK, NEW s \in Servers, ReadCapped(s)
    PROVE  McpTypeOK'
<1>1. PICK n \in 0..ChunkMax :
         LET bytes == Available(s, n)
             isOver == over[s] \/ Outgrows(s, bytes, Part(bytes))
         IN  /\ IsRead(s, n)
             /\ pipe' = [pipe EXCEPT ![s] = SubSeq(@, n + 1, Len(@))]
             /\ over' = [over EXCEPT ![s] = isOver]
             /\ buf' = [buf EXCEPT ![s] = IF isOver THEN <<>> ELSE @ \o Part(bytes)]
             /\ chunk' = [chunk EXCEPT ![s] = Rest(bytes)]
             /\ IF NewlineAt(bytes) = 0 THEN UNCHANGED pc ELSE Goto(s, "handling")
  BY DEF ReadCapped
<1> DEFINE bytes == Available(s, n)
           isOver == over[s] \/ Outgrows(s, bytes, Part(bytes))
<1>2. /\ pipe[s] \in Seq(Bytes) /\ chunk[s] \in Seq(Bytes) /\ buf[s] \in Seq(Bytes)
      /\ over[s] \in BOOLEAN /\ n \in Nat /\ ChunkMax \in Nat
      /\ MaxLine \in Nat /\ Len(chunk[s]) <= ChunkMax
  BY McpAssumption DEF McpTypeOK
<1>3. bytes \in Seq(Bytes) /\ Len(bytes) <= ChunkMax
  <2>1. CASE chunk[s] # <<>>
    BY <1>2, <2>1 DEF Available
  <2>2. CASE chunk[s] = <<>>
    <3>1. n <= Len(pipe[s]) /\ n \in 1..ChunkMax
      BY <1>1, <2>2 DEF IsRead
    <3>2. bytes = SubSeq(pipe[s], 1, n)
      BY <2>2 DEF Available
    <3>3. bytes \in Seq(Bytes) /\ Len(bytes) = n
      BY <1>2, <3>1, <3>2
    <3> QED
      BY <3>1, <3>3
  <2> QED
    BY <2>1, <2>2
<1>4. isOver \in BOOLEAN
  BY <1>2 DEF Outgrows
<1> HIDE DEF bytes
<1>5. /\ Rest(bytes) \in Seq(Bytes) /\ Len(Rest(bytes)) <= ChunkMax
      /\ Part(bytes) \in Seq(Bytes)
  <2>1. /\ Rest(bytes) \in Seq(Bytes) /\ Len(Rest(bytes)) <= Len(bytes)
        /\ Part(bytes) \in Seq(Bytes)
    BY <1>3, PieceType
  <2>2. Len(bytes) \in Nat /\ Len(Rest(bytes)) \in Nat
    BY <1>3, <2>1
  <2> QED
    BY <1>2, <1>3, <2>1, <2>2
<1>6. SubSeq(pipe[s], n + 1, Len(pipe[s])) \in Seq(Bytes)
  BY <1>2, SubSeqType
<1> DEFINE line == IF isOver THEN <<>> ELSE buf[s] \o Part(bytes)
<1>7. line \in Seq(Bytes) /\ Len(line) <= MaxLine /\ (isOver => line = <<>>)
  <2>1. CASE isOver
    BY <1>2, <2>1
  <2>2. CASE ~isOver
    <3>1. Len(buf[s] \o Part(bytes)) = Len(buf[s]) + Len(Part(bytes))
          /\ buf[s] \o Part(bytes) \in Seq(Bytes)
      BY <1>2, <1>5
    <3>2. Len(buf[s]) + Len(Part(bytes)) <= MaxLine
      BY <1>2, <1>5, <2>2 DEF Outgrows
    <3> QED
      BY <2>2, <3>1, <3>2
  <2> QED
    BY <2>1, <2>2
<1>8. /\ pipe' = [pipe EXCEPT ![s] = SubSeq(pipe[s], n + 1, Len(pipe[s]))]
      /\ over' = [over EXCEPT ![s] = isOver]
      /\ buf' = [buf EXCEPT ![s] = line]
      /\ chunk' = [chunk EXCEPT ![s] = Rest(bytes)]
      /\ pc' = pc \/ pc' = [pc EXCEPT ![s] = "handling"]
  BY <1>1 DEF bytes, Goto
<1> HIDE DEF line, isOver
<1>9. /\ pipe' \in [Servers -> Seq(Bytes)] /\ chunk' \in [Servers -> Seq(Bytes)]
      /\ buf' \in [Servers -> Seq(Bytes)] /\ over' \in [Servers -> BOOLEAN]
  BY <1>4, <1>5, <1>6, <1>7, <1>8 DEF McpTypeOK
<1>10. /\ pc' \in [Servers -> Places]
       /\ \A t \in Servers : t # s => pc'[t] = pc[t]
       /\ reply[s] = "none"
  BY <1>8 DEF McpTypeOK, Places, ReadCapped
<1>11. \A t \in Servers :
          /\ Len(buf'[t]) <= MaxLine
          /\ Len(chunk'[t]) <= ChunkMax
          /\ over'[t] => buf'[t] = <<>>
  BY <1>5, <1>7, <1>8 DEF McpTypeOK
<1> QED
  BY <1>9, <1>10, <1>11 DEF ReadCapped, McpTypeOK, database

LEMMA EndType ==
    ASSUME McpTypeOK, NEW s \in Servers, EndOfInput(s)
    PROVE  McpTypeOK'
<1>1. /\ pc' \in [Servers -> Places]
      /\ \A t \in Servers : t # s => pc'[t] = pc[t]
      /\ reply[s] = "none"
  BY DEF EndOfInput, McpTypeOK, Goto, Places
<1> QED
  BY <1>1 DEF EndOfInput, McpTypeOK, database, reader

LEMMA DispatchType ==
    ASSUME McpTypeOK, NEW s \in Servers, Dispatch(s)
    PROVE  McpTypeOK'
<1>1. /\ pc' \in [Servers -> Places]
      /\ \A t \in Servers : t # s => pc'[t] = pc[t]
  BY DEF Dispatch, McpTypeOK, Goto, Places
<1>2. initialized' \in [Servers -> BOOLEAN]
  BY DEF Dispatch, McpTypeOK, Initialises
<1>3. /\ buf' = [buf EXCEPT ![s] = <<>>]
      /\ over' = [over EXCEPT ![s] = FALSE]
      /\ UNCHANGED <<schema, seen, pipe, chunk, out, client>>
  BY DEF Dispatch
<1>4. /\ buf' \in [Servers -> Seq(Bytes)] /\ over' \in [Servers -> BOOLEAN]
      /\ \A t \in Servers : Len(buf'[t]) <= MaxLine /\ (over'[t] => buf'[t] = <<>>)
  <2>1. <<>> \in Seq(Bytes) /\ Len(<<>>) <= MaxLine
    BY McpAssumption
  <2> QED
    BY <1>3, <2>1 DEF McpTypeOK
<1>5. /\ reply' \in [Servers -> ReplyKinds]
      /\ \A t \in Servers : reply'[t] # "none" => pc'[t] \in {"replying", "gone"}
      /\ events' \in Seq(Row)
  <2>1. CASE UNCHANGED <<events, reply>>
    <3>1. reply[s] = "none"
      BY DEF Dispatch, McpTypeOK
    <3> QED
      BY <1>1, <2>1, <3>1 DEF McpTypeOK
  <2>2. ASSUME NEW r \in Replies(Line(s), initialized[s]), Line(s) \notin Silent,
               Effect(s, r), reply' = [reply EXCEPT ![s] = r], Goto(s, "replying")
        PROVE  /\ reply' \in [Servers -> ReplyKinds]
               /\ \A t \in Servers : reply'[t] # "none" => pc'[t] \in {"replying", "gone"}
               /\ events' \in Seq(Row)
    <3>1. r \in ReplyKinds
      BY <2>2, LineKind, RepliesType DEF McpTypeOK
    <3>2. Event(s, HasRoom) \in Row
      BY DEF Event, Row, HasRoom
    <3>3. events' = events \/ events' = Append(events, Event(s, HasRoom))
      BY <2>2 DEF Effect
    <3>4. events' \in Seq(Row)
      <4>1. events \in Seq(Row)
        BY DEF McpTypeOK
      <4>2. Append(events, Event(s, HasRoom)) \in Seq(Row)
        BY <3>2, <4>1, AppendType
      <4> QED
        BY <3>3, <4>1, <4>2
    <3>5. pc'[s] = "replying"
      BY <2>2 DEF Goto, McpTypeOK
    <3> QED
      BY <1>1, <2>2, <3>1, <3>4, <3>5 DEF McpTypeOK
  <2> QED
    BY <2>1, <2>2 DEF Dispatch
<1> QED
  BY <1>1, <1>2, <1>3, <1>4, <1>5 DEF McpTypeOK

LEMMA WriteType ==
    ASSUME McpTypeOK, NEW s \in Servers, WriteReply(s)
    PROVE  McpTypeOK'
<1>1. /\ pc' \in [Servers -> Places]
      /\ \A t \in Servers : t # s => pc'[t] = pc[t]
  BY DEF WriteReply, McpTypeOK, Goto, Places
<1>2. /\ reply' \in [Servers -> ReplyKinds]
      /\ \A t \in Servers : reply'[t] # "none" => pc'[t] \in {"replying", "gone"}
  BY <1>1 DEF WriteReply, McpTypeOK, ReplyKinds, Goto
<1>3. out' \in [Servers -> Seq(ReplyKinds)]
  <2>1. Append(out[s], reply[s]) \in Seq(ReplyKinds)
    BY AppendType DEF McpTypeOK
  <2> QED
    BY <2>1 DEF WriteReply, McpTypeOK
<1> QED
  BY <1>1, <1>2, <1>3 DEF WriteReply, McpTypeOK, database, reader

LEMMA McpTypeStep == McpTypeOK /\ [McpNext]_mcpVars => McpTypeOK'
<1> SUFFICES ASSUME McpTypeOK, [McpNext]_mcpVars
             PROVE  McpTypeOK'
  OBVIOUS
<1>1. CASE UNCHANGED mcpVars
  BY <1>1 DEF mcpVars, database, reader, client, McpTypeOK
<1> QED
  BY <1>1, ClientType, OpenType, MigrateType, ReadType, EndType, DispatchType, WriteType
  DEF McpNext, ServerStep

LEMMA McpTypeInit == McpInit => McpTypeOK
<1> SUFFICES ASSUME McpInit
             PROVE  McpTypeOK
  OBVIOUS
<1>1. OldEvent \in Row
  BY DEF OldEvent, Row
<1>2. schema \in 0..Latest
  BY DEF McpInit, Latest
<1>4. events \in Seq(Row)
  <2>1. <<>> \in Seq(Row) /\ <<OldEvent>> \in Seq(Row)
    BY <1>1
  <2>2. events = <<>> \/ events = <<OldEvent>>
    BY DEF McpInit
  <2> QED
    BY <2>1, <2>2
<1>3. <<>> \in Seq(Bytes) /\ Len(<<>>) <= MaxLine /\ Len(<<>>) <= ChunkMax
  BY McpAssumption
<1> QED
  BY <1>2, <1>3, <1>4 DEF McpInit, McpTypeOK, Places, ReplyKinds, Latest

(* Every reachable state is well typed: among it, no process ever holds    *)
(* more than MaxLine bytes of a line or ChunkMax bytes it has read, in any *)
(* pieces its input comes.                                                 *)
THEOREM McpTypeCorrect == McpSpec => []McpTypeOK
BY McpTypeInit, McpTypeStep, PTL DEF McpSpec

-----------------------------------------------------------------------------
(* The store and the replies.                                              *)
LEMMA ToldNext ==
    ASSUME McpTypeOK, NEW s \in Servers
    PROVE  /\ DOMAIN Told(s) = DOMAIN out[s] \cup {Len(out[s]) + 1}
           /\ Told(s)[Len(out[s]) + 1] = reply[s]
           /\ \A i \in DOMAIN out[s] : Told(s)[i] = out[s][i]
           /\ Len(out[s]) + 1 \notin DOMAIN out[s]
           /\ DOMAIN out[s] = 1..Len(out[s]) /\ Len(out[s]) \in Nat
<1>1. out[s] \in Seq(ReplyKinds) /\ reply[s] \in ReplyKinds
  BY DEF McpTypeOK
<1> QED
  BY <1>1, AppendType DEF Told

LEMMA ToldFinite ==
    ASSUME McpTypeOK, NEW s \in Servers
    PROVE  IsFiniteSet(Acks(s)) /\ IsFiniteSet(Promised(s))
<1> DEFINE n == Len(out[s])
<1>1. DOMAIN Told(s) = (1..n) \cup {n + 1} /\ n \in Nat
  BY ToldNext
<1> HIDE DEF n
<1>2. IsFiniteSet(DOMAIN Told(s))
  <2>1. IsFiniteSet(1..n)
    BY <1>1, FS_Interval
  <2>2. IsFiniteSet((1..n) \cup {n + 1})
    BY <2>1, FS_AddElement
  <2> QED
    BY <1>1, <2>2
<1> QED
  BY <1>2, FS_Subset DEF Acks, Promised

LEMMA EventsFinite ==
    ASSUME McpTypeOK, NEW s \in Servers
    PROVE  IsFiniteSet(EventsOf(s)) /\ IsFiniteSet(JobsOf(s))
<1>1. IsFiniteSet(DOMAIN events)
  BY FS_Interval DEF McpTypeOK
<1> QED
  BY <1>1, FS_Subset DEF EventsOf, JobsOf

(* What a step that leaves the replies, and who stored what, as they are   *)
(* must keep.                                                              *)
LEMMA StoreFrame ==
    ASSUME StoreMatchesReplies, UNCHANGED <<out, reply>>,
           DOMAIN events' = DOMAIN events,
           \A i \in DOMAIN events :
               events'[i].by = events[i].by /\ events'[i].job = events[i].job
    PROVE  \A s \in Servers :
               /\ Cardinality(EventsOf(s)') = Cardinality(Acks(s)')
               /\ Cardinality(JobsOf(s)') = Cardinality(Promised(s)')
<1> TAKE s \in Servers
<1>1. EventsOf(s)' = EventsOf(s) /\ JobsOf(s)' = JobsOf(s)
  BY DEF EventsOf, JobsOf
<1>2. Acks(s)' = Acks(s) /\ Promised(s)' = Promised(s)
  BY DEF Acks, Promised, Told
<1> QED
  BY <1>1, <1>2 DEF StoreMatchesReplies

LEMMA MigrateStore ==
    ASSUME StoreInv, NEW s \in Servers, Migrate(s)
    PROVE  StoreMatchesReplies' /\ SchemaSound'
<1>1. McpTypeOK /\ StoreMatchesReplies /\ SchemaSound
  BY DEF StoreInv
<1>2. UNCHANGED <<out, reply, seen>>
  BY DEF Migrate
<1>3. /\ pc' \in [Servers -> Places] /\ pc[s] = "opening"
      /\ \A t \in Servers : t # s => pc'[t] = pc[t]
      /\ pc'[s] \in {"reading", "gone"}
  BY <1>1 DEF Migrate, McpTypeOK, Goto, Places
<1>4. CASE UNCHANGED database /\ (seen[s] = Latest \/ pc'[s] = "gone")
  <2>1. \A t \in Servers :
           /\ Cardinality(EventsOf(t)') = Cardinality(Acks(t)')
           /\ Cardinality(JobsOf(t)') = Cardinality(Promised(t)')
    BY <1>1, <1>2, <1>4, StoreFrame DEF database
  <2>2. seen[s] = Latest => schema = Latest
    <3>1. schema \in 0..2 /\ seen[s] <= schema
      BY <1>1, <1>3 DEF SchemaSound, McpTypeOK, Latest
    <3> QED
      BY <3>1 DEF Latest
  <2>3. SchemaSound'
    BY <1>1, <1>2, <1>3, <1>4, <2>2 DEF SchemaSound, database
  <2> QED
    BY <1>1, <1>4, <2>1, <2>3 DEF StoreMatchesReplies, database
<1>5. CASE schema # Latest /\ schema' = Latest /\ events' = Backfilled
  <2>1. \A t \in Servers :
           /\ Cardinality(EventsOf(t)') = Cardinality(Acks(t)')
           /\ Cardinality(JobsOf(t)') = Cardinality(Promised(t)')
    BY <1>1, <1>2, <1>5, BackfilledType, StoreFrame
  <2>2. \A i \in DOMAIN events' : events'[i].indexed = 1
    BY <1>1, <1>5, BackfilledType DEF SchemaSound
  <2>3. SchemaSound'
    <3>1. \A t \in Servers : pc'[t] = "opening" => seen[t] <= Latest
      BY <1>1 DEF McpTypeOK
    <3>2. Latest # 0
      BY DEF Latest
    <3> QED
      BY <1>2, <1>5, <3>1, <3>2 DEF SchemaSound
  <2> QED
    BY <2>1, <2>2, <2>3 DEF StoreMatchesReplies
<1>6. seen[s] < Latest /\ schema = seen[s] => schema # Latest
  BY <1>1 DEF McpTypeOK, Latest
<1> QED
  BY <1>3, <1>4, <1>5, <1>6 DEF Migrate, Goto, McpTypeOK, StoreInv

LEMMA OpenStore ==
    ASSUME StoreInv, NEW s \in Servers, Open(s)
    PROVE  StoreMatchesReplies' /\ SchemaSound'
<1>1. McpTypeOK /\ StoreMatchesReplies /\ SchemaSound
  BY DEF StoreInv
<1>2. \A t \in Servers :
         /\ Cardinality(EventsOf(t)') = Cardinality(Acks(t)')
         /\ Cardinality(JobsOf(t)') = Cardinality(Promised(t)')
  BY <1>1, StoreFrame DEF Open
<1>3. /\ \A t \in Servers : t # s => pc'[t] = pc[t]
      /\ events' = events
  BY <1>1 DEF Open, McpTypeOK, Goto
<1>4. CASE schema = 0 /\ schema' = Latest /\ pc'[s] = "reading" /\ seen' = seen
  <2>1. events = <<>>
    BY <1>1, <1>4 DEF SchemaSound
  <2>2. DOMAIN events' = {}
    BY <1>3, <2>1
  <2>3. \A t \in Servers : seen[t] <= Latest
    BY <1>1 DEF McpTypeOK
  <2>4. SchemaSound'
    BY <1>3, <1>4, <2>1, <2>3 DEF SchemaSound, Latest
  <2> QED
    BY <1>2, <2>2, <2>4 DEF StoreMatchesReplies
<1>5. CASE schema' = schema /\ pc'[s] = "opening" /\ seen' = [seen EXCEPT ![s] = schema]
  <2>1. schema <= schema /\ seen'[s] = schema /\ \A t \in Servers : t # s => seen'[t] = seen[t]
    BY <1>1, <1>5 DEF McpTypeOK
  <2>2. SchemaSound'
    BY <1>1, <1>3, <1>5, <2>1 DEF SchemaSound
  <2> QED
    BY <1>1, <1>2, <1>3, <1>5, <2>2 DEF StoreMatchesReplies
<1>6. \/ schema = 0 /\ schema' = Latest /\ pc'[s] = "reading" /\ seen' = seen
      \/ schema' = schema /\ pc'[s] = "opening" /\ seen' = [seen EXCEPT ![s] = schema]
  BY <1>1 DEF Open, Goto, McpTypeOK
<1> QED
  BY <1>4, <1>5, <1>6

(* A request is executed: an acknowledgement is for one event, stored with *)
(* a job exactly when it says so.                                          *)
LEMMA DispatchStore ==
    ASSUME StoreInv, NEW s \in Servers, Dispatch(s)
    PROVE  StoreMatchesReplies' /\ SchemaSound'
<1>1. McpTypeOK /\ StoreMatchesReplies /\ SchemaSound
  BY DEF StoreInv
<1>2. /\ UNCHANGED <<schema, out, seen>>
      /\ \A t \in Servers : t # s => pc'[t] = pc[t]
      /\ pc[s] = "handling" /\ pc'[s] \in {"reading", "replying"}
      /\ reply[s] = "none" /\ schema = Latest
  <2>1. pc[s] = "handling"
    BY DEF Dispatch
  <2>2. reply[s] = "none" /\ schema = Latest
    BY <1>1, <2>1 DEF McpTypeOK, SchemaSound
  <2> QED
    BY <1>1, <2>1, <2>2 DEF Dispatch, Goto, McpTypeOK
<1>3. SchemaSound'
  <2>1. schema # 0
    BY <1>2 DEF Latest
  <2> QED
    BY <1>1, <1>2, <2>1 DEF SchemaSound
<1>4. CASE UNCHANGED <<events, reply>>
  <2>1. \A t \in Servers :
           /\ Cardinality(EventsOf(t)') = Cardinality(Acks(t)')
           /\ Cardinality(JobsOf(t)') = Cardinality(Promised(t)')
    BY <1>1, <1>2, <1>4, StoreFrame
  <2> QED
    BY <1>1, <1>2, <1>3, <1>4, <2>1 DEF StoreMatchesReplies
<1>5. ASSUME NEW r \in Replies(Line(s), initialized[s]), Effect(s, r),
             reply' = [reply EXCEPT ![s] = r]
      PROVE  StoreMatchesReplies'
  <2> DEFINE n == Len(out[s])
             e == Event(s, HasRoom)
             k == Len(events) + 1
  <2>1. /\ DOMAIN Told(s) = DOMAIN out[s] \cup {n + 1}
        /\ Told(s)[n + 1] = "none"
        /\ \A i \in DOMAIN out[s] : Told(s)[i] = out[s][i]
        /\ n + 1 \notin DOMAIN out[s]
    BY <1>1, <1>2, ToldNext
  <2>2. Told(s)' = Append(out[s], r)
    BY <1>1, <1>2, <1>5 DEF Told, McpTypeOK
  <2>3. /\ DOMAIN Told(s)' = DOMAIN out[s] \cup {n + 1}
        /\ Told(s)'[n + 1] = r
        /\ \A i \in DOMAIN out[s] : Told(s)'[i] = out[s][i]
    <3>1. out[s] \in Seq(ReplyKinds \cup {r})
      BY <1>1 DEF McpTypeOK
    <3>2. r \in ReplyKinds \cup {r}
      OBVIOUS
    <3> HIDE DEF n
    <3> QED
      BY <2>2, <3>1, <3>2, AppendType DEF n
  <2>4. \A t \in Servers : t # s => Told(t)' = Told(t)
    BY <1>1, <1>2, <1>5 DEF Told, McpTypeOK
  <2>5. /\ IsFiniteSet(Acks(s)) /\ IsFiniteSet(Promised(s))
        /\ IsFiniteSet(EventsOf(s)) /\ IsFiniteSet(JobsOf(s))
    BY <1>1, ToldFinite, EventsFinite
  <2>6. /\ Cardinality(EventsOf(s)) = Cardinality(Acks(s))
        /\ Cardinality(JobsOf(s)) = Cardinality(Promised(s))
    BY <1>1 DEF StoreMatchesReplies
  <2>7. n + 1 \notin Acks(s) /\ n + 1 \notin Promised(s)
    BY <2>1 DEF Acks, Promised, IsAck
  <2>8. Acks(s)' = IF IsAck(r) THEN Acks(s) \cup {n + 1} ELSE Acks(s)
    BY <2>1, <2>3 DEF Acks, IsAck
  <2>9. Promised(s)' = IF r = "stored" THEN Promised(s) \cup {n + 1} ELSE Promised(s)
    BY <2>1, <2>3 DEF Promised
  <2> HIDE DEF n
  <2>10. CASE ~IsAck(r)
    <3>1. UNCHANGED events /\ r # "stored"
      BY <1>5, <2>10 DEF Effect, IsAck
    <3>2. \A t \in Servers : /\ EventsOf(t)' = EventsOf(t) /\ JobsOf(t)' = JobsOf(t)
                             /\ Acks(t)' = Acks(t) /\ Promised(t)' = Promised(t)
      BY <2>4, <2>8, <2>9, <2>10, <3>1 DEF EventsOf, JobsOf, Acks, Promised
    <3> QED
      BY <1>1, <1>2, <3>1, <3>2 DEF StoreMatchesReplies
  <2>11. CASE IsAck(r)
    <3>1. events' = Append(events, e) /\ (HasRoom <=> r = "stored")
      BY <1>5, <2>11 DEF Effect, IsAck
    <3>2. events \in Seq(Row) /\ e \in Row /\ e.by = s /\ e.indexed = 1 /\ e.job = HasRoom
      BY <1>1 DEF McpTypeOK, Event, Row, HasRoom
    <3>3. /\ DOMAIN events' = DOMAIN events \cup {k}
          /\ k \notin DOMAIN events
          /\ events'[k] = e
          /\ \A i \in DOMAIN events : events'[i] = events[i]
      <4> HIDE DEF e
      <4> QED
        BY <3>1, <3>2, AppendType
    <3> HIDE DEF k, e
    <3>4. EventsOf(s)' = EventsOf(s) \cup {k} /\ k \notin EventsOf(s)
      BY <3>2, <3>3 DEF EventsOf
    <3>5. JobsOf(s)' = IF r = "stored" THEN JobsOf(s) \cup {k} ELSE JobsOf(s)
      BY <3>1, <3>2, <3>3, <3>4 DEF JobsOf, EventsOf
    <3>6. k \notin JobsOf(s)
      BY <3>4 DEF JobsOf
    <3>7. Cardinality(EventsOf(s)') = Cardinality(Acks(s)')
      <4>1. Cardinality(EventsOf(s) \cup {k}) = Cardinality(EventsOf(s)) + 1
        BY <2>5, <3>4, FS_AddElement
      <4>2. Cardinality(Acks(s) \cup {n + 1}) = Cardinality(Acks(s)) + 1
        BY <2>5, <2>7, FS_AddElement
      <4> QED
        BY <2>6, <2>8, <2>11, <3>4, <4>1, <4>2
    <3>8. Cardinality(JobsOf(s)') = Cardinality(Promised(s)')
      <4>1. CASE r = "stored"
        <5>1. Cardinality(JobsOf(s) \cup {k}) = Cardinality(JobsOf(s)) + 1
          BY <2>5, <3>6, FS_AddElement
        <5>2. Cardinality(Promised(s) \cup {n + 1}) = Cardinality(Promised(s)) + 1
          BY <2>5, <2>7, FS_AddElement
        <5> QED
          BY <2>6, <2>9, <3>5, <4>1, <5>1, <5>2
      <4>2. CASE r # "stored"
        BY <2>6, <2>9, <3>5, <4>2
      <4> QED
        BY <4>1, <4>2
    <3>9. \A t \in Servers : t # s => /\ EventsOf(t)' = EventsOf(t) /\ JobsOf(t)' = JobsOf(t)
                                      /\ Acks(t)' = Acks(t) /\ Promised(t)' = Promised(t)
      BY <2>4, <3>2, <3>3 DEF EventsOf, JobsOf, Acks, Promised
    <3>10. \A i \in DOMAIN events' : events'[i].indexed = 1
      BY <1>1, <1>2, <3>2, <3>3 DEF StoreMatchesReplies
    <3> QED
      BY <1>1, <3>7, <3>8, <3>9, <3>10 DEF StoreMatchesReplies
  <2> QED
    BY <2>10, <2>11
<1> QED
  BY <1>3, <1>4, <1>5 DEF Dispatch

(* A reply is given: the same replies have been told.                      *)
LEMMA WriteStore ==
    ASSUME StoreInv, NEW s \in Servers, WriteReply(s)
    PROVE  StoreMatchesReplies' /\ SchemaSound'
<1>1. McpTypeOK /\ StoreMatchesReplies /\ SchemaSound
  BY DEF StoreInv
<1>2. /\ UNCHANGED <<schema, events, seen>>
      /\ \A t \in Servers : t # s => pc'[t] = pc[t]
      /\ pc[s] = "replying" /\ pc'[s] \in {"reading", "gone"}
  BY <1>1 DEF WriteReply, Goto, McpTypeOK, database
<1>3. SchemaSound'
  BY <1>1, <1>2 DEF SchemaSound
<1>4. CASE UNCHANGED <<out, reply>>
  <2>1. \A t \in Servers :
           /\ Cardinality(EventsOf(t)') = Cardinality(Acks(t)')
           /\ Cardinality(JobsOf(t)') = Cardinality(Promised(t)')
    BY <1>1, <1>2, <1>4, StoreFrame
  <2> QED
    BY <1>1, <1>2, <1>3, <2>1 DEF StoreMatchesReplies
<1>5. CASE /\ out' = [out EXCEPT ![s] = Append(@, reply[s])]
           /\ reply' = [reply EXCEPT ![s] = "none"]
  <2>1. out'[s] = Told(s) /\ reply'[s] = "none"
    BY <1>1, <1>5 DEF Told, McpTypeOK
  <2>2. McpTypeOK'
    BY <1>1, WriteType
  <2>3. /\ DOMAIN Told(s)' = DOMAIN out'[s] \cup {Len(out'[s]) + 1}
        /\ Told(s)'[Len(out'[s]) + 1] = reply'[s]
        /\ \A i \in DOMAIN out'[s] : Told(s)'[i] = out'[s][i]
        /\ Len(out'[s]) + 1 \notin DOMAIN out'[s]
    <3>1. out'[s] \in Seq(ReplyKinds) /\ reply'[s] \in ReplyKinds
      BY <2>2 DEF McpTypeOK
    <3>2. Told(s)' = Append(out'[s], reply'[s])
      BY DEF Told
    <3> QED
      BY <3>1, <3>2, AppendType
  <2>4. Acks(s)' = Acks(s) /\ Promised(s)' = Promised(s)
    BY <2>1, <2>3 DEF Acks, Promised, IsAck
  <2>5. \A t \in Servers : t # s => Told(t)' = Told(t)
    BY <1>1, <1>5 DEF Told, McpTypeOK
  <2>6. \A t \in Servers : /\ EventsOf(t)' = EventsOf(t) /\ JobsOf(t)' = JobsOf(t)
                           /\ Acks(t)' = Acks(t) /\ Promised(t)' = Promised(t)
    BY <1>2, <2>4, <2>5 DEF EventsOf, JobsOf, Acks, Promised
  <2> QED
    BY <1>1, <1>2, <1>3, <2>6 DEF StoreMatchesReplies
<1> QED
  BY <1>3, <1>4, <1>5 DEF WriteReply

LEMMA StoreStep == StoreInv /\ [McpNext]_mcpVars => StoreInv'
<1> SUFFICES ASSUME StoreInv, [McpNext]_mcpVars
             PROVE  StoreInv'
  OBVIOUS
<1>1. McpTypeOK'
  BY McpTypeStep DEF StoreInv
<1>2. ASSUME UNCHANGED <<database, seen, out, reply>>,
             \A s \in Servers : \/ pc'[s] = pc[s]
                                \/ pc[s] = "reading" /\ pc'[s] \in {"handling", "gone"}
      PROVE  StoreMatchesReplies' /\ SchemaSound'
  <2>1. \A t \in Servers :
           /\ Cardinality(EventsOf(t)') = Cardinality(Acks(t)')
           /\ Cardinality(JobsOf(t)') = Cardinality(Promised(t)')
    BY <1>2, StoreFrame DEF database, StoreInv
  <2>2. SchemaSound'
    BY <1>2 DEF SchemaSound, StoreInv, database
  <2> QED
    BY <1>2, <2>1, <2>2 DEF StoreMatchesReplies, StoreInv, database
<1>3. CASE UNCHANGED mcpVars
  BY <1>1, <1>2, <1>3 DEF mcpVars, StoreInv
<1>4. ASSUME NEW s \in Servers, Speak(s) \/ Close(s) \/ HangUp(s) \/ ReadCapped(s) \/ EndOfInput(s)
      PROVE  StoreInv'
  <2>1. UNCHANGED <<database, seen, out, reply>>
    BY <1>4 DEF Speak, Close, HangUp, ReadCapped, EndOfInput
  <2>2. \A t \in Servers : pc'[t] = pc[t] \/ (pc[t] = "reading" /\ pc'[t] \in {"handling", "gone"})
    <3>1. CASE Speak(s) \/ Close(s) \/ HangUp(s)
      BY <3>1 DEF Speak, Close, HangUp
    <3>2. CASE ReadCapped(s)
      BY <3>2 DEF ReadCapped, Goto, StoreInv, McpTypeOK
    <3>3. CASE EndOfInput(s)
      BY <3>3 DEF EndOfInput, Goto, StoreInv, McpTypeOK
    <3> QED
      BY <1>4, <3>1, <3>2, <3>3
  <2> QED
    BY <1>1, <1>2, <2>1, <2>2 DEF StoreInv
<1> QED
  BY <1>1, <1>3, <1>4, OpenStore, MigrateStore, DispatchStore, WriteStore
  DEF McpNext, ServerStep, StoreInv

LEMMA StoreInit == McpInit => StoreInv
<1> SUFFICES ASSUME McpInit
             PROVE  StoreInv
  OBVIOUS
<1>1. McpTypeOK
  BY McpTypeInit
<1>2. events = <<>> \/ (schema = 1 /\ events = <<OldEvent>>)
  BY DEF McpInit
<1>3. \A i \in DOMAIN events : events[i] = OldEvent /\ schema = 1
  BY <1>2
<1>4. \A s \in Servers : EventsOf(s) = {} /\ JobsOf(s) = {}
  BY <1>3, McpAssumption DEF EventsOf, JobsOf, OldEvent
<1>5. \A s \in Servers : Acks(s) = {} /\ Promised(s) = {}
  <2> TAKE s \in Servers
  <2>1. out[s] = <<>> /\ reply[s] = "none"
    BY DEF McpInit
  <2>2. \A i \in DOMAIN Told(s) : Told(s)[i] = "none"
    BY <2>1 DEF Told
  <2> QED
    BY <2>2 DEF Acks, Promised, IsAck
<1>6. StoreMatchesReplies
  BY <1>3, <1>4, <1>5 DEF StoreMatchesReplies, Latest
<1>7. SchemaSound
  <2>1. \A s \in Servers : pc[s] = "down"
    BY DEF McpInit
  <2>2. schema = 0 => events = <<>>
    BY DEF McpInit
  <2>3. \A i \in DOMAIN events : events[i].indexed = 0
    BY <1>3 DEF OldEvent
  <2> QED
    BY <2>1, <2>2, <2>3 DEF SchemaSound
<1> QED
  BY <1>1, <1>6, <1>7 DEF StoreInv

(* However clients of any number of processes speak, close and hang up,    *)
(* and whoever opens the database first, the store holds one event for     *)
(* each acknowledgement, a job for each "stored", and one index row for    *)
(* every event once the schema is current.                                 *)
THEOREM StoreMatches == McpSpec => []StoreMatchesReplies
<1>1. StoreInv => StoreMatchesReplies
  BY DEF StoreInv
<1> QED
  BY <1>1, StoreInit, StoreStep, PTL DEF McpSpec

-----------------------------------------------------------------------------
(***************************************************************************)
(* A session and the promise: how the bytes that wait are cut into lines.  *)
(***************************************************************************)

ClientTyped ==
    /\ sent \in [Servers -> Seq(Messages)]
    /\ closed \in [Servers -> BOOLEAN]
    /\ hungUp \in [Servers -> BOOLEAN]

(* The bytes a process has still to look at.                               *)
Ahead(s) == chunk[s] \o pipe[s]

(* The first n lines of a client that deserve a reply.                     *)
Asked(s, n) == {i \in 1..n : sent[s][i] \notin Silent}

(* Line m stands at position p of len bytes, and its newline after it.     *)
Stands(m, p, bytes, len) ==
    \A x \in 1..len :
        /\ p <= x /\ x < p + Size(m) => bytes[x] = Encode(m)[x - p + 1]
        /\ x = p + Size(m) => bytes[x] = "newline"

(* The bytes are the lines after the first k, of n, where at says. The     *)
(* first of them may have been begun, so that it starts before the first   *)
(* byte; the last one may lack its newline if no line follows.             *)
Cut(bytes, len, lines, n, k, at, ended) ==
    /\ k \in 0..n
    /\ \A i \in (k + 1)..n :
          /\ at[i + 1] = at[i] + Size(lines[i]) + 1
          /\ Stands(lines[i], at[i], bytes, len)
    /\ \A i, j \in (k + 1)..(n + 1) : i < j => at[i] < at[j]
    /\ \/ at[n + 1] = len + 1
       \/ k < n /\ ended /\ lines[n] # "blank" /\ at[n + 1] = len + 2
    /\ k = n => at[k + 1] = 1
    /\ k < n => at[k + 1] <= 1 /\ 1 - at[k + 1] <= Size(lines[k + 1])

Framed(s, k, at) ==
    Cut(Ahead(s), Len(Ahead(s)), sent[s], Len(sent[s]), k, at, closed[s])

(* The first c bytes of m are held, or too many to be kept.                *)
Held(s, m, c) ==
    IF over[s] THEN c > MaxLine
    ELSE /\ c <= MaxLine /\ Len(buf[s]) = c
         /\ \A x \in 1..c : buf[s][x] = Encode(m)[x]

NoneHeld(s) == buf[s] = <<>> /\ over[s] = FALSE

(* The first n lines have been dealt with.                                 *)
DealtWith(s, n) ==
    /\ Len(out[s]) = Cardinality(Asked(s, n))
    /\ initialized[s] = (\E j \in 1..n : sent[s][j] = "ready")

Reading(s, k, at) ==
    /\ DealtWith(s, k)
    /\ IF k = Len(sent[s]) THEN NoneHeld(s) ELSE Held(s, sent[s][k + 1], 1 - at[k + 1])

Handling(s, k, at) ==
    /\ k > 0 /\ at[k + 1] = 1
    /\ DealtWith(s, k - 1)
    /\ Held(s, sent[s][k], Size(sent[s][k]))

Replying(s, k, at) ==
    /\ k > 0 /\ at[k + 1] = 1
    /\ DealtWith(s, k - 1)
    /\ NoneHeld(s)
    /\ sent[s][k] \notin Silent
    /\ reply[s] \in Replies(sent[s][k], initialized[s])

Follows(s, k, at) ==
    /\ Framed(s, k, at)
    /\ pc[s] \in {"down", "opening", "reading"} => Reading(s, k, at)
    /\ pc[s] = "handling" => Handling(s, k, at)
    /\ pc[s] = "replying" => Replying(s, k, at)

Followed(s) == pc[s] # "gone" => \E k \in Nat, at \in [Nat -> Int] : Follows(s, k, at)

SessionInv == McpTypeOK /\ ClientTyped /\ \A s \in Servers : Followed(s)

-----------------------------------------------------------------------------
LEMMA SizeFacts ==
    ASSUME NEW m \in Kinds
    PROVE  /\ Size(m) \in Nat
           /\ Size(m) > MaxLine => m = "long"
           /\ m # "blank" => Size(m) > 0
  BY McpAssumption DEF Size

LEMMA EncodeFacts ==
    ASSUME NEW m \in Kinds
    PROVE  /\ Encode(m) \in Seq(Bytes) /\ Len(Encode(m)) = Size(m)
           /\ \A x \in 1..Size(m) : Encode(m)[x] = (IF x = 1 THEN m ELSE "pad")
           /\ \A x \in 1..Size(m) : Encode(m)[x] # "newline"
<1>1. Size(m) \in Nat /\ Encode(m) \in Seq(Bytes)
  BY SizeFacts, EncodeType
<1>2. Encode(m) = [x \in 1..Size(m) |-> IF x = 1 THEN m ELSE "pad"]
  BY DEF Encode
<1>3. Len(Encode(m)) = Size(m)
  BY <1>1, <1>2
<1>4. m # "newline"
  BY DEF Kinds
<1> QED
  BY <1>1, <1>2, <1>3, <1>4

(* A whole line decodes to its kind.                                       *)
LEMMA Decoded ==
    ASSUME NEW m \in Kinds
    PROVE  Decode(Encode(m)) = m
<1>1. ASSUME NEW k \in Kinds, Encode(m) = Encode(k)
      PROVE  k = m
  <2>1. Size(k) = Size(m)
    BY <1>1, EncodeFacts
  <2>2. CASE Size(m) = 0
    BY <2>1, <2>2, SizeFacts
  <2>3. CASE Size(m) # 0
    <3>1. 1 \in 1..Size(m) /\ 1 \in 1..Size(k)
      BY <2>1, <2>3, SizeFacts
    <3>2. Encode(m)[1] = m /\ Encode(k)[1] = k
      BY <3>1, EncodeFacts
    <3> QED
      BY <1>1, <3>2
  <2> QED
    BY <2>2, <2>3
<1>2. \E k \in Kinds : Encode(m) = Encode(k)
  OBVIOUS
<1>3. Decode(Encode(m)) = CHOOSE k \in Kinds : Encode(m) = Encode(k)
  BY <1>2 DEF Decode
<1> QED
  BY <1>1, <1>2, <1>3

LEMMA LineInHand ==
    ASSUME McpTypeOK, NEW s \in Servers, NEW m \in Kinds, Held(s, m, Size(m))
    PROVE  Line(s) = m
<1>1. CASE over[s]
  BY <1>1, SizeFacts DEF Line, Held
<1>2. CASE ~over[s]
  <2>1. /\ Len(buf[s]) = Size(m) /\ Encode(m) \in Seq(Bytes) /\ Len(Encode(m)) = Size(m)
        /\ \A x \in 1..Size(m) : buf[s][x] = Encode(m)[x]
    BY <1>2, EncodeFacts DEF Held
  <2>2. buf[s] \in Seq(Bytes)
    BY DEF McpTypeOK
  <2>3. buf[s] = Encode(m)
    BY <2>1, <2>2, SeqEqual
  <2> QED
    BY <1>2, <2>3, Decoded DEF Line
<1> QED
  BY <1>1, <1>2

-----------------------------------------------------------------------------
(* The requests among the lines.                                           *)
LEMMA AskedFacts ==
    ASSUME NEW s \in Servers, NEW n \in Nat
    PROVE  /\ IsFiniteSet(Asked(s, n)) /\ Cardinality(Asked(s, n)) \in Nat
           /\ sent[s][n + 1] \in Silent => Asked(s, n + 1) = Asked(s, n)
           /\ sent[s][n + 1] \notin Silent =>
                 Cardinality(Asked(s, n + 1)) = Cardinality(Asked(s, n)) + 1
<1>1. Asked(s, n) \in SUBSET (1..n) /\ IsFiniteSet(1..n)
  BY FS_Interval DEF Asked
<1>2. IsFiniteSet(Asked(s, n)) /\ Cardinality(Asked(s, n)) \in Nat
  BY <1>1, FS_Subset, FS_CardinalityType
<1>3. 1..(n + 1) = (1..n) \cup {n + 1} /\ n + 1 \notin 1..n
  OBVIOUS
<1>4. n + 1 \notin Asked(s, n)
  BY <1>3 DEF Asked
<1>5. sent[s][n + 1] \in Silent => Asked(s, n + 1) = Asked(s, n)
  BY <1>3 DEF Asked
<1>6. sent[s][n + 1] \notin Silent => Asked(s, n + 1) = Asked(s, n) \cup {n + 1}
  BY <1>3 DEF Asked
<1> QED
  BY <1>2, <1>4, <1>5, <1>6, FS_AddElement

LEMMA DealtSilent ==
    ASSUME NEW s \in Servers, NEW n \in Nat, DealtWith(s, n), sent[s][n + 1] \in Silent,
           sent[s]' = sent[s], out[s]' = out[s],
           initialized[s]' = (initialized[s] \/ sent[s][n + 1] = "ready")
    PROVE  DealtWith(s, n + 1)'
<1>1. Asked(s, n + 1)' = Asked(s, n)
  BY AskedFacts DEF Asked
<1>2. (\E j \in 1..(n + 1) : sent[s][j] = "ready")
         <=> (\E j \in 1..n : sent[s][j] = "ready") \/ sent[s][n + 1] = "ready"
  OBVIOUS
<1> QED
  BY <1>1, <1>2 DEF DealtWith

LEMMA DealtAnswered ==
    ASSUME NEW s \in Servers, NEW n \in Nat, DealtWith(s, n), sent[s][n + 1] \notin Silent,
           sent[s]' = sent[s], Len(out[s])' = Len(out[s]) + 1, initialized[s]' = initialized[s]
    PROVE  DealtWith(s, n + 1)'
<1>1. Cardinality(Asked(s, n + 1))' = Cardinality(Asked(s, n)) + 1
  <2>1. Cardinality(Asked(s, n + 1)) = Cardinality(Asked(s, n)) + 1
    BY AskedFacts
  <2>2. Asked(s, n + 1)' = Asked(s, n + 1)
    BY DEF Asked
  <2> QED
    BY <2>1, <2>2, Zenon
<1>2. sent[s][n + 1] # "ready"
  BY DEF Silent
<1>3. (\E j \in 1..(n + 1) : sent[s][j] = "ready") <=> (\E j \in 1..n : sent[s][j] = "ready")
  BY <1>2
<1> QED
  BY <1>1, <1>3 DEF DealtWith

-----------------------------------------------------------------------------
(* The bytes ahead, cut into lines.                                        *)
LEMMA AheadType ==
    ASSUME McpTypeOK, NEW s \in Servers
    PROVE  Ahead(s) \in Seq(Bytes) /\ Len(Ahead(s)) \in Nat
<1>1. chunk[s] \in Seq(Bytes) /\ pipe[s] \in Seq(Bytes)
  BY DEF McpTypeOK
<1>2. Ahead(s) \in Seq(Bytes)
  BY <1>1 DEF Ahead
<1> QED
  BY <1>2

LEMMA SentType ==
    ASSUME ClientTyped, NEW s \in Servers
    PROVE  /\ sent[s] \in Seq(Messages) /\ Len(sent[s]) \in Nat
           /\ \A i \in 1..Len(sent[s]) : sent[s][i] \in Kinds /\ Size(sent[s][i]) \in Nat
<1>1. sent[s] \in Seq(Messages)
  BY DEF ClientTyped
<1>2. \A i \in 1..Len(sent[s]) : sent[s][i] \in Kinds
  BY <1>1, MessagesAssumption
<1> QED
  BY <1>1, <1>2, SizeFacts

(* q bytes taken: the rest of the lines stand q places earlier.            *)
Shifted(at, q) == [i \in Nat |-> at[i] - q]

LEMMA CutTaken ==
    ASSUME NEW bytes, NEW len \in Nat, NEW lines, NEW n \in Nat, NEW k \in Nat,
           NEW at \in [Nat -> Int], NEW ended, Cut(bytes, len, lines, n, k, at, ended),
           \A i \in 1..n : Size(lines[i]) \in Nat,
           NEW q \in 0..len, NEW rest, \A x \in 1..(len - q) : rest[x] = bytes[x + q],
           NEW l \in {k, k + 1}, l <= n,
           l = n => at[l + 1] = q + 1,
           l < n => at[l + 1] <= q + 1 /\ q + 1 - at[l + 1] <= Size(lines[l + 1])
    PROVE  Cut(rest, len - q, lines, n, l, Shifted(at, q), ended)
<1> DEFINE to == Shifted(at, q)
<1>1. \A i \in Nat : at[i] \in Int /\ to[i] = at[i] - q /\ to[i] \in Int
  BY DEF Shifted
<1>2. /\ \A i \in (k + 1)..n :
            /\ at[i + 1] = at[i] + Size(lines[i]) + 1
            /\ Stands(lines[i], at[i], bytes, len)
      /\ \A i, j \in (k + 1)..(n + 1) : i < j => at[i] < at[j]
      /\ \/ at[n + 1] = len + 1
         \/ k < n /\ ended /\ lines[n] # "blank" /\ at[n + 1] = len + 2
  BY DEF Cut
<1> HIDE DEF to
<1>3. ASSUME NEW i \in (l + 1)..n
      PROVE  to[i + 1] = to[i] + Size(lines[i]) + 1 /\ Stands(lines[i], to[i], rest, len - q)
  <2>1. /\ i \in (k + 1)..n /\ i \in 1..n /\ i \in Nat /\ i + 1 \in Nat
        /\ at[i + 1] = at[i] + Size(lines[i]) + 1 /\ Stands(lines[i], at[i], bytes, len)
    BY <1>2
  <2>2. to[i] = at[i] - q /\ to[i + 1] = at[i + 1] - q /\ at[i] \in Int /\ Size(lines[i]) \in Nat
    BY <1>1, <2>1
  <2>3. ASSUME NEW x \in 1..(len - q)
        PROVE  /\ to[i] <= x /\ x < to[i] + Size(lines[i])
                     => rest[x] = Encode(lines[i])[x - to[i] + 1]
               /\ x = to[i] + Size(lines[i]) => rest[x] = "newline"
    <3>1. x + q \in 1..len /\ rest[x] = bytes[x + q]
      OBVIOUS
    <3>2. /\ at[i] <= x + q /\ x + q < at[i] + Size(lines[i])
                => bytes[x + q] = Encode(lines[i])[(x + q) - at[i] + 1]
          /\ x + q = at[i] + Size(lines[i]) => bytes[x + q] = "newline"
      BY <2>1, <3>1 DEF Stands
    <3>3. (x + q) - at[i] + 1 = x - to[i] + 1
      BY <2>2
    <3> QED
      BY <2>2, <3>1, <3>2, <3>3
  <2> QED
    BY <2>1, <2>2, <2>3 DEF Stands
<1>4. \A i, j \in (l + 1)..(n + 1) : i < j => to[i] < to[j]
  <2> TAKE i, j \in (l + 1)..(n + 1)
  <2>1. i \in (k + 1)..(n + 1) /\ j \in (k + 1)..(n + 1) /\ i \in Nat /\ j \in Nat
    OBVIOUS
  <2> QED
    BY <1>1, <1>2, <2>1
<1>5. \/ to[n + 1] = (len - q) + 1
      \/ l < n /\ ended /\ lines[n] # "blank" /\ to[n + 1] = (len - q) + 2
  <2>1. to[n + 1] = at[n + 1] - q /\ at[n + 1] \in Int
    BY <1>1
  <2>2. CASE l < n
    BY <1>2, <2>1, <2>2
  <2>3. CASE l = n
    BY <1>2, <2>1, <2>3
  <2> QED
    BY <2>2, <2>3
<1>6. /\ l \in 0..n
      /\ l = n => to[l + 1] = 1
      /\ l < n => to[l + 1] <= 1 /\ 1 - to[l + 1] <= Size(lines[l + 1])
  <2>1. l + 1 \in Nat /\ to[l + 1] = at[l + 1] - q /\ at[l + 1] \in Int
    BY <1>1
  <2>2. l < n => Size(lines[l + 1]) \in Nat
    OBVIOUS
  <2> QED
    BY <2>1, <2>2
<1> QED
  BY <1>3, <1>4, <1>5, <1>6 DEF Cut, to

(* A line more at the end.                                                 *)
Grown(at, n, m) == [i \in Nat |-> IF i = n + 2 THEN at[n + 1] + Size(m) + 1 ELSE at[i]]

(* A line of len bytes more, the (n + 1)st, and its newline unless last.   *)
Extends(more, size, longer, bytes, len, lines, n, m, last) ==
    /\ len \in Nat /\ n \in Nat /\ size \in Nat /\ m \in Kinds
    /\ size = len + Size(m) + (IF last THEN 0 ELSE 1)
    /\ \A x \in 1..len : more[x] = bytes[x]
    /\ \A x \in 1..Size(m) : more[len + x] = Encode(m)[x]
    /\ ~last => more[size] = "newline"
    /\ \A i \in 1..n : longer[i] = lines[i]
    /\ longer[n + 1] = m
    /\ m = "blank" => ~last
    /\ \A i \in 1..n : lines[i] \in Kinds

LEMMA CutGrown ==
    ASSUME NEW bytes, NEW len, NEW lines, NEW n, NEW k, NEW at \in [Nat -> Int],
           Cut(bytes, len, lines, n, k, at, FALSE),
           NEW m, NEW last \in BOOLEAN, NEW more, NEW size, NEW longer,
           Extends(more, size, longer, bytes, len, lines, n, m, last)
    PROVE  Cut(more, size, longer, n + 1, k, Grown(at, n, m), last)
<1>10. len \in Nat /\ n \in Nat /\ size \in Nat /\ m \in Kinds
  BY DEF Extends
<1>11. k \in Nat
  BY <1>10 DEF Cut
<1> USE <1>10, <1>11
<1>12. /\ size = len + Size(m) + (IF last THEN 0 ELSE 1)
       /\ \A x \in 1..len : more[x] = bytes[x]
       /\ \A x \in 1..Size(m) : more[len + x] = Encode(m)[x]
       /\ ~last => more[size] = "newline"
       /\ \A i \in 1..n : longer[i] = lines[i]
       /\ longer[n + 1] = m
       /\ m = "blank" => ~last
       /\ \A i \in 1..n : lines[i] \in Kinds
  BY DEF Extends
<1>13. \A i \in 1..n : Size(lines[i]) \in Nat
  BY <1>12, SizeFacts
<1> DEFINE to == Grown(at, n, m)
<1>0. Size(m) \in Nat
  BY SizeFacts
<1>1. /\ k \in 0..n /\ at[n + 1] = len + 1 /\ at[n + 1] \in Int
      /\ \A i \in (k + 1)..n :
            /\ at[i + 1] = at[i] + Size(lines[i]) + 1
            /\ Stands(lines[i], at[i], bytes, len)
      /\ \A i, j \in (k + 1)..(n + 1) : i < j => at[i] < at[j]
      /\ k = n => at[k + 1] = 1
      /\ k < n => at[k + 1] <= 1 /\ 1 - at[k + 1] <= Size(lines[k + 1])
  BY DEF Cut
<1>2. /\ \A i \in Nat : at[i] \in Int /\ (i # n + 2 => to[i] = at[i])
      /\ to[n + 2] = len + 1 + Size(m) + 1
  BY <1>1 DEF Grown
<1> HIDE DEF to
<1>3. ASSUME NEW i \in (k + 1)..n
      PROVE  to[i + 1] = to[i] + Size(longer[i]) + 1 /\ Stands(longer[i], to[i], more, size)
  <2>1. /\ i \in 1..n /\ i \in Nat /\ i + 1 \in Nat /\ i # n + 2 /\ i + 1 # n + 2
        /\ longer[i] = lines[i] /\ Size(lines[i]) \in Nat
    BY <1>1, <1>12, <1>13
  <2>2. /\ to[i] = at[i] /\ to[i + 1] = at[i + 1] /\ at[i] \in Int /\ at[i + 1] \in Int
        /\ at[i + 1] = at[i] + Size(lines[i]) + 1
    BY <1>1, <1>2, <2>1
  <2>3. at[i + 1] <= len + 1
    <3>1. CASE i = n
      BY <1>1, <3>1
    <3>2. CASE i < n
      <4>1. at[i + 1] < at[n + 1]
        BY <1>1, <2>1, <3>2
      <4> QED
        BY <1>1, <2>2, <4>1
    <3> QED
      BY <3>1, <3>2
  <2>4. ASSUME NEW x \in 1..size, x <= at[i] + Size(lines[i])
        PROVE  x \in 1..len /\ more[x] = bytes[x]
    <3>1. x \in 1..len
      BY <2>1, <2>2, <2>3, <2>4
    <3> QED
      BY <1>12, <3>1, Zenon
  <2>5. Stands(lines[i], at[i], bytes, len)
    BY <1>1
  <2>6. Stands(lines[i], at[i], more, size)
    <3> SUFFICES ASSUME NEW x \in 1..size
                 PROVE  /\ at[i] <= x /\ x < at[i] + Size(lines[i])
                             => more[x] = Encode(lines[i])[x - at[i] + 1]
                        /\ x = at[i] + Size(lines[i]) => more[x] = "newline"
      BY DEF Stands
    <3>1. CASE x <= at[i] + Size(lines[i])
      BY <2>4, <2>5, <3>1 DEF Stands
    <3>2. CASE ~(x <= at[i] + Size(lines[i]))
      BY <2>1, <2>2, <3>2
    <3> QED
      BY <3>1, <3>2
  <2> QED
    BY <2>1, <2>2, <2>6
<1>4. /\ to[n + 2] = to[n + 1] + Size(longer[n + 1]) + 1
      /\ Stands(longer[n + 1], to[n + 1], more, size)
  <2>1. to[n + 1] = len + 1 /\ longer[n + 1] = m
    BY <1>1, <1>2, <1>12
  <2>2. ASSUME NEW x \in 1..size, len + 1 <= x, x < len + 1 + Size(m)
        PROVE  more[x] = Encode(m)[x - (len + 1) + 1]
    <3>1. x - len \in 1..Size(m) /\ len + (x - len) = x /\ x - (len + 1) + 1 = x - len
      BY <1>0, <2>2
    <3>2. more[len + (x - len)] = Encode(m)[x - len]
      BY <1>12, <3>1, Zenon
    <3> QED
      BY <3>1, <3>2
  <2>3. ASSUME NEW x \in 1..size, x = len + 1 + Size(m)
        PROVE  more[x] = "newline"
    <3>0. size = len + Size(m) + (IF last THEN 0 ELSE 1)
      BY <1>12
    <3>1. ~last
      BY <1>0, <2>3, <3>0
    <3>2. x = size
      BY <1>0, <2>3, <3>0, <3>1
    <3> QED
      BY <1>12, <3>1, <3>2
  <2>4. Stands(m, len + 1, more, size)
    BY <2>2, <2>3 DEF Stands
  <2> QED
    BY <1>2, <2>1, <2>4
<1>5. \A i, j \in (k + 1)..(n + 2) : i < j => to[i] < to[j]
  <2> SUFFICES ASSUME NEW i \in (k + 1)..(n + 2), NEW j \in (k + 1)..(n + 2), i < j
               PROVE  to[i] < to[j]
    OBVIOUS
  <2>1. i \in (k + 1)..(n + 1) /\ i \in Nat /\ i # n + 2 /\ j \in Nat
    BY <1>1
  <2>2. to[i] = at[i] /\ at[i] \in Int
    BY <1>2, <2>1
  <2>3. CASE j # n + 2
    <3>1. j \in (k + 1)..(n + 1) /\ to[j] = at[j]
      BY <1>1, <1>2, <2>1, <2>3
    <3> QED
      BY <1>1, <2>1, <2>2, <3>1
  <2>4. CASE j = n + 2
    <3>1. at[i] <= at[n + 1]
      <4>1. CASE i = n + 1
        BY <1>1, <4>1
      <4>2. CASE i # n + 1
        <5>1. at[i] < at[n + 1]
          BY <1>1, <2>1, <4>2
        <5> QED
          BY <1>1, <2>2, <5>1
      <4> QED
        BY <4>1, <4>2
    <3> QED
      BY <1>0, <1>1, <1>2, <2>2, <2>4, <3>1
  <2> QED
    BY <2>3, <2>4
<1>6. \/ to[n + 2] = size + 1
      \/ k < n + 1 /\ last /\ longer[n + 1] # "blank" /\ to[n + 2] = size + 2
  <2>0. size = len + Size(m) + (IF last THEN 0 ELSE 1)
    BY <1>12
  <2>1. CASE last
    <3>1. longer[n + 1] # "blank"
      <4>1. longer[n + 1] = m /\ (m = "blank" => ~last)
        BY <1>12
      <4>2. m # "blank"
        BY <2>1, <4>1
      <4> QED
        BY <4>1, <4>2
    <3>2. size = len + Size(m)
      BY <1>0, <2>0, <2>1
    <3>3. k < n + 1 /\ to[n + 2] = size + 2
      BY <1>0, <1>1, <1>2, <3>2
    <3> QED
      BY <2>1, <3>1, <3>3
  <2>2. CASE ~last
    BY <1>0, <1>2, <2>0, <2>2
  <2> QED
    BY <2>1, <2>2
<1>7. k < n + 1 /\ to[k + 1] <= 1 /\ 1 - to[k + 1] <= Size(longer[k + 1])
  <2>1. k + 1 \in Nat /\ k + 1 # n + 2 /\ to[k + 1] = at[k + 1]
    BY <1>1, <1>2
  <2>2. CASE k = n
    BY <1>0, <1>1, <1>12, <2>1, <2>2
  <2>3. CASE k < n
    <3>1. k + 1 \in 1..n
      BY <2>3
    <3>2. longer[k + 1] = lines[k + 1]
      BY <1>12, <3>1, Zenon
    <3> QED
      BY <1>1, <2>1, <2>3, <3>2
  <2> QED
    BY <1>1, <2>2, <2>3
<1>8. (k + 1)..(n + 1) = ((k + 1)..n) \cup {n + 1} /\ (n + 1) + 1 = n + 2 /\ k \in 0..(n + 1)
  BY <1>1
<1>9. \A i \in (k + 1)..(n + 1) :
         to[i + 1] = to[i] + Size(longer[i]) + 1 /\ Stands(longer[i], to[i], more, size)
  BY <1>3, <1>4, <1>8
<1> QED
  BY <1>5, <1>6, <1>7, <1>8, <1>9 DEF Cut, to

(* The first line among the bytes ends in front of q, or goes on past it.  *)
Found(bytes, lines, n, k, at, q) ==
    /\ k < n
    /\ \A x \in 1..(q - 1) : bytes[x] = Encode(lines[k + 1])[x - at[k + 1] + 1]
    /\ bytes[q] = "newline" =>
          at[k + 2] = q + 1 /\ Size(lines[k + 1]) = q - at[k + 1]
    /\ bytes[q] # "newline" =>
          /\ bytes[q] = Encode(lines[k + 1])[q - at[k + 1] + 1]
          /\ q + 1 - at[k + 1] <= Size(lines[k + 1])

LEMMA CutFound ==
    ASSUME NEW bytes, NEW len \in Nat, NEW lines, NEW n \in Nat, NEW k \in Nat,
           NEW at \in [Nat -> Int], NEW ended, Cut(bytes, len, lines, n, k, at, ended),
           \A i \in 1..n : lines[i] \in Kinds,
           NEW q \in 1..len, \A x \in 1..(q - 1) : bytes[x] # "newline"
    PROVE  Found(bytes, lines, n, k, at, q)
<1>1. /\ k \in 0..n
      /\ at[n + 1] = len + 1 \/ (k < n /\ at[n + 1] = len + 2)
      /\ k = n => at[k + 1] = 1
      /\ k < n => at[k + 1] <= 1 /\ 1 - at[k + 1] <= Size(lines[k + 1])
  BY DEF Cut
<1>2. k < n
  BY <1>1
<1> DEFINE m == lines[k + 1]
           p == at[k + 1]
<1>3. m \in Kinds /\ Size(m) \in Nat /\ p \in Int
  <2>1. m \in Kinds /\ p \in Int
    BY <1>2
  <2> QED
    BY <2>1, SizeFacts
<1>4. /\ at[k + 2] = p + Size(m) + 1 /\ Stands(m, p, bytes, len)
      /\ p <= 1 /\ 1 - p <= Size(m)
  <2>1. k + 1 \in (k + 1)..n /\ (k + 1) + 1 = k + 2
    BY <1>2
  <2>2. at[(k + 1) + 1] = p + Size(m) + 1 /\ Stands(m, p, bytes, len)
    BY <2>1 DEF Cut
  <2> QED
    BY <1>1, <1>2, <2>1, <2>2
<1> HIDE DEF m, p
<1>5. q <= p + Size(m)
  <2>1. p + Size(m) \in Nat \ {0}
    BY <1>3, <1>4
  <2>2. ASSUME p + Size(m) < q PROVE FALSE
    <3>1. p + Size(m) \in 1..(q - 1) /\ p + Size(m) \in 1..len
      BY <1>3, <2>1, <2>2
    <3>2. bytes[p + Size(m)] = "newline"
      BY <1>4, <3>1 DEF Stands
    <3> QED
      BY <3>1, <3>2
  <2> QED
    BY <1>3, <2>2
<1>6. ASSUME NEW x \in 1..q, x < p + Size(m)
      PROVE  bytes[x] = Encode(m)[x - p + 1] /\ bytes[x] # "newline"
  <2>1. x \in 1..len /\ p <= x
    BY <1>3, <1>4
  <2>2. bytes[x] = Encode(m)[x - p + 1]
    BY <1>4, <1>6, <2>1 DEF Stands
  <2>3. x - p + 1 \in 1..Size(m)
    BY <1>3, <1>6, <2>1
  <2> QED
    BY <1>3, <2>2, <2>3, EncodeFacts
<1>7. \A x \in 1..(q - 1) : bytes[x] = Encode(m)[x - p + 1]
  BY <1>3, <1>5, <1>6
<1>8. ASSUME bytes[q] = "newline"
      PROVE  at[k + 2] = q + 1 /\ Size(m) = q - p
  <2>1. ~(q < p + Size(m))
    BY <1>6, <1>8
  <2> QED
    BY <1>3, <1>4, <1>5, <2>1
<1>9. ASSUME bytes[q] # "newline"
      PROVE  bytes[q] = Encode(m)[q - p + 1] /\ q + 1 - p <= Size(m)
  <2>1. q # p + Size(m)
    BY <1>4, <1>9 DEF Stands
  <2>2. q < p + Size(m)
    BY <1>3, <1>5, <2>1
  <2> QED
    BY <1>3, <1>6, <2>2
<1> QED
  BY <1>2, <1>7, <1>8, <1>9 DEF m, p, Found

(* No byte is ahead: every line was taken, or the last one, which has no   *)
(* newline, was read to its end.                                           *)
LEMMA CutEnded ==
    ASSUME NEW bytes, NEW lines, NEW n \in Nat, NEW k \in Nat,
           NEW at \in [Nat -> Int], NEW ended, Cut(bytes, 0, lines, n, k, at, ended),
           \A i \in 1..n : lines[i] \in Kinds
    PROVE  \/ k = n
           \/ /\ k + 1 = n /\ at[n + 1] = 2 /\ lines[n] # "blank"
              /\ Size(lines[n]) = 1 - at[n] /\ Size(lines[n]) > 0
<1> SUFFICES ASSUME k # n
             PROVE  /\ k + 1 = n /\ at[n + 1] = 2 /\ lines[n] # "blank"
                    /\ Size(lines[n]) = 1 - at[n] /\ Size(lines[n]) > 0
  OBVIOUS
<1>1. /\ k < n /\ at[k + 1] <= 1 /\ 1 - at[k + 1] <= Size(lines[k + 1])
      /\ at[k + 2] = at[k + 1] + Size(lines[k + 1]) + 1
      /\ at[n + 1] = 1 \/ (lines[n] # "blank" /\ at[n + 1] = 2)
  <2>1. k < n /\ k + 1 \in (k + 1)..n /\ (k + 1) + 1 = k + 2
    BY DEF Cut
  <2>2. at[(k + 1) + 1] = at[k + 1] + Size(lines[k + 1]) + 1
    BY <2>1 DEF Cut
  <2> QED
    BY <2>1, <2>2 DEF Cut
<1>2. /\ lines[k + 1] \in Kinds /\ Size(lines[k + 1]) \in Nat
      /\ at[k + 1] \in Int /\ at[k + 2] \in Int /\ at[n + 1] \in Int
  <2>1. k + 1 \in 1..n
    BY <1>1
  <2> QED
    BY <2>1, SizeFacts
<1>3. at[k + 2] >= 2
  BY <1>1, <1>2
<1>4. k + 1 = n
  <2>1. ASSUME k + 1 < n PROVE FALSE
    <3>1. k + 2 \in (k + 1)..(n + 1) /\ n + 1 \in (k + 1)..(n + 1) /\ k + 2 < n + 1
      BY <1>1, <2>1
    <3>2. at[k + 2] < at[n + 1]
      BY <3>1 DEF Cut
    <3> QED
      BY <1>1, <1>2, <1>3, <3>2
  <2> QED
    BY <1>1, <2>1
<1>5. at[n + 1] = 2 /\ lines[n] # "blank"
  BY <1>1, <1>3, <1>4
<1>6. Size(lines[n]) = 1 - at[n]
  BY <1>1, <1>2, <1>4, <1>5
<1>7. Size(lines[n]) > 0
  BY <1>2, <1>4, <1>5, SizeFacts
<1> QED
  BY <1>4, <1>5, <1>6, <1>7

-----------------------------------------------------------------------------
(* What one round of read_capped_line takes: c bytes.                      *)
Takes(q, c) ==
    /\ Rest(q) \in Seq(Bytes) /\ Len(Rest(q)) = Len(q) - c
    /\ \A x \in 1..(Len(q) - c) : Rest(q)[x] = q[x + c]
    /\ \A x \in 1..(c - 1) : q[x] # "newline"
    /\ NewlineAt(q) = 0 <=> q[c] # "newline"
    /\ Part(q) \in Seq(Bytes) /\ Len(Part(q)) = (IF q[c] = "newline" THEN c - 1 ELSE c)
    /\ \A x \in 1..(c - 1) : Part(q)[x] = q[x]
    /\ q[c] # "newline" => Part(q)[c] = q[c]

LEMMA TakesPart ==
    ASSUME NEW q \in Seq(Bytes), q # <<>>
    PROVE  \E c \in 1..Len(q) : Takes(q, c)
<1>0. Len(q) \in Nat \ {0} /\ \A x \in 1..Len(q) : q[x] \in Bytes
  BY EmptySeq
<1>1. CASE NewlineAt(q) = 0
  <2>1. Rest(q) = <<>> /\ Part(q) = q /\ \A x \in 1..Len(q) : q[x] # "newline"
    BY <1>1, NewlineType DEF Rest, Part
  <2>2. Rest(q) \in Seq(Bytes) /\ Len(Rest(q)) = 0
    BY <2>1
  <2>3. q[Len(q)] # "newline" /\ Len(q) - Len(q) = 0
    BY <1>0, <2>1
  <2>4. Takes(q, Len(q))
    BY <1>0, <1>1, <2>1, <2>2, <2>3 DEF Takes
  <2> QED
    BY <1>0, <2>4
<1>2. CASE NewlineAt(q) # 0
  <2>1. PICK c \in Nat : c = NewlineAt(q)
    BY NewlineType
  <2>2. c \in 1..Len(q) /\ q[c] = "newline" /\ \A x \in 1..(c - 1) : q[x] # "newline"
    <3>1. c \in 0..Len(q) /\ q[c] = "newline" /\ \A x \in 1..(c - 1) : q[x] # "newline"
      BY <1>2, <2>1, NewlineType
    <3> QED
      BY <1>2, <2>1, <3>1
  <2>3. Rest(q) = SubSeq(q, c + 1, Len(q)) /\ Part(q) = SubSeq(q, 1, c - 1)
    BY <1>2, <2>1 DEF Rest, Part
  <2>4. /\ \A x \in (c + 1)..Len(q) : q[x] \in Bytes
        /\ \A x \in 1..(c - 1) : q[x] \in Bytes
        /\ c + 1 \in Int /\ c - 1 \in Int /\ 1 \in Int /\ Len(q) \in Int
    BY <1>0, <2>2
  <2>5. /\ Rest(q) \in Seq(Bytes)
        /\ Len(Rest(q)) = IF c + 1 <= Len(q) THEN Len(q) - (c + 1) + 1 ELSE 0
        /\ \A x \in 1..(Len(q) - (c + 1) + 1) : Rest(q)[x] = q[(c + 1) + x - 1]
    BY <2>3, <2>4, SubSeqProperties
  <2>6. /\ Part(q) \in Seq(Bytes)
        /\ Len(Part(q)) = IF 1 <= c - 1 THEN (c - 1) - 1 + 1 ELSE 0
        /\ \A x \in 1..((c - 1) - 1 + 1) : Part(q)[x] = q[1 + x - 1]
    BY <2>3, <2>4, SubSeqProperties
  <2> DEFINE len == Len(q)
  <2>7. len \in Nat /\ c \in 1..len
    BY <1>0, <2>2
  <2> HIDE DEF len
  <2>8. /\ (IF c + 1 <= len THEN len - (c + 1) + 1 ELSE 0) = len - c
        /\ (IF 1 <= c - 1 THEN (c - 1) - 1 + 1 ELSE 0) = c - 1
        /\ len - (c + 1) + 1 = len - c /\ (c - 1) - 1 + 1 = c - 1
        /\ \A x \in 1..(len - c) : (c + 1) + x - 1 = x + c
        /\ \A x \in 1..(c - 1) : 1 + x - 1 = x
    BY <2>7
  <2>9. Len(Rest(q)) = len - c /\ \A x \in 1..(len - c) : Rest(q)[x] = q[x + c]
    BY <2>5, <2>8 DEF len
  <2>10. Len(Part(q)) = c - 1 /\ \A x \in 1..(c - 1) : Part(q)[x] = q[x]
    BY <2>6, <2>8
  <2>11. Takes(q, c)
    BY <1>2, <2>1, <2>2, <2>5, <2>6, <2>9, <2>10 DEF Takes, len
  <2> QED
    BY <2>2, <2>11
<1> QED
  BY <1>1, <1>2

(* What it does with them: it keeps the line's part unless the line has    *)
(* outgrown the limit.                                                     *)
Keeps(s, part) ==
    LET isOver == over[s] \/ Len(buf[s]) + Len(part) > MaxLine
    IN  over[s]' = isOver /\ buf[s]' = IF isOver THEN <<>> ELSE buf[s] \o part

ReadsFrom(s, q, part) ==
    /\ Len(Ahead(s)') = Len(Ahead(s)) - q
    /\ \A x \in 1..(Len(Ahead(s)) - q) : Ahead(s)'[x] = Ahead(s)[x + q]
    /\ \A x \in 1..(q - 1) : Ahead(s)[x] # "newline"
    /\ Len(part) = (IF Ahead(s)[q] = "newline" THEN q - 1 ELSE q)
    /\ \A x \in 1..(q - 1) : part[x] = Ahead(s)[x]
    /\ Ahead(s)[q] # "newline" => part[q] = Ahead(s)[q]
    /\ pc[s]' = (IF Ahead(s)[q] = "newline" THEN "handling" ELSE "reading")
    /\ Keeps(s, part)

LEMMA ReadFacts ==
    ASSUME McpTypeOK, NEW s \in Servers, ReadCapped(s)
    PROVE  \E q \in 1..Len(Ahead(s)), part \in Seq(Bytes) : ReadsFrom(s, q, part)
<1>0. /\ chunk[s] \in Seq(Bytes) /\ pipe[s] \in Seq(Bytes)
      /\ pipe \in [Servers -> Seq(Bytes)] /\ chunk \in [Servers -> Seq(Bytes)]
      /\ over \in [Servers -> BOOLEAN] /\ buf \in [Servers -> Seq(Bytes)]
      /\ pc \in [Servers -> Places] /\ pc[s] = "reading"
      /\ ChunkMax \in Nat
  BY McpAssumption DEF McpTypeOK, ReadCapped
<1>1. PICK n \in 0..ChunkMax :
         LET bytes == Available(s, n)
             isOver == over[s] \/ Outgrows(s, bytes, Part(bytes))
         IN  /\ IsRead(s, n)
             /\ pipe' = [pipe EXCEPT ![s] = SubSeq(@, n + 1, Len(@))]
             /\ over' = [over EXCEPT ![s] = isOver]
             /\ buf' = [buf EXCEPT ![s] = IF isOver THEN <<>> ELSE @ \o Part(bytes)]
             /\ chunk' = [chunk EXCEPT ![s] = Rest(bytes)]
             /\ IF NewlineAt(bytes) = 0 THEN UNCHANGED pc ELSE Goto(s, "handling")
  BY DEF ReadCapped
<1> DEFINE bytes == Available(s, n)
           rest == SubSeq(pipe[s], n + 1, Len(pipe[s]))
<1>2. /\ bytes \in Seq(Bytes) /\ bytes # <<>> /\ rest \in Seq(Bytes)
      /\ Ahead(s) = bytes \o rest
  <2>1. CASE chunk[s] # <<>>
    <3>1. n = 0 /\ bytes = chunk[s]
      BY <1>1, <2>1 DEF IsRead, Available
    <3>2. rest = pipe[s]
      BY <1>0, <3>1
    <3> QED
      BY <1>0, <2>1, <3>1, <3>2 DEF Ahead
  <2>2. CASE chunk[s] = <<>>
    <3>1. n \in 1..ChunkMax /\ n <= Len(pipe[s]) /\ bytes = SubSeq(pipe[s], 1, n)
      BY <1>1, <2>2 DEF IsRead, Available
    <3>2. bytes \in Seq(Bytes) /\ rest \in Seq(Bytes) /\ Len(bytes) = n
      BY <1>0, <3>1
    <3>3. bytes # <<>>
      <4>1. Len(bytes) # 0
        BY <3>1, <3>2
      <4> HIDE DEF bytes
      <4> QED
        BY <4>1, EmptySeq
    <3>4. bytes \o rest = pipe[s]
      <4>1. 1 \in Int /\ n \in 1..Len(pipe[s]) /\ Len(pipe[s]) \in Nat
        BY <1>0, <3>1
      <4> QED
        BY <1>0, <3>1, <4>1
    <3>5. Ahead(s) = pipe[s]
      BY <1>0, <2>2, ConcatEmptySeq DEF Ahead
    <3> QED
      BY <3>2, <3>3, <3>4, <3>5
  <2> QED
    BY <2>1, <2>2
<1>3. /\ chunk'[s] = Rest(bytes) /\ pipe'[s] = rest
      /\ over'[s] = (over[s] \/ Len(buf[s]) + Len(Part(bytes)) > MaxLine)
      /\ buf'[s] = IF over[s] \/ Len(buf[s]) + Len(Part(bytes)) > MaxLine THEN <<>>
                   ELSE buf[s] \o Part(bytes)
  BY <1>0, <1>1 DEF Outgrows
<1>4. pc'[s] = IF NewlineAt(bytes) = 0 THEN "reading" ELSE "handling"
  BY <1>0, <1>1 DEF Goto
<1>5. Keeps(s, Part(bytes))
  BY <1>3 DEF Keeps
<1>6. Ahead(s)' = Rest(bytes) \o rest
  BY <1>3 DEF Ahead
<1> HIDE DEF bytes, rest
<1>7. PICK c \in 1..Len(bytes) : Takes(bytes, c)
  BY <1>2, TakesPart
<1> DEFINE left == Rest(bytes)
<1>8. left \in Seq(Bytes) /\ Len(left) = Len(bytes) - c /\ Ahead(s)' = left \o rest
      /\ \A x \in 1..(Len(bytes) - c) : left[x] = bytes[x + c]
  BY <1>6, <1>7 DEF Takes
<1> HIDE DEF left
<1>9. /\ Len(Ahead(s)) = Len(bytes) + Len(rest)
      /\ \A x \in 1..(Len(bytes) + Len(rest)) :
            Ahead(s)[x] = IF x <= Len(bytes) THEN bytes[x] ELSE rest[x - Len(bytes)]
  BY <1>2, ConcatProperties
<1>10. /\ Len(Ahead(s)') = Len(left) + Len(rest)
       /\ \A x \in 1..(Len(left) + Len(rest)) :
             Ahead(s)'[x] = IF x <= Len(left) THEN left[x] ELSE rest[x - Len(left)]
  <2>1. /\ Len(left \o rest) = Len(left) + Len(rest)
        /\ \A x \in 1..(Len(left) + Len(rest)) :
              (left \o rest)[x] = IF x <= Len(left) THEN left[x] ELSE rest[x - Len(left)]
    BY <1>2, <1>8, ConcatProperties
  <2> QED
    BY <1>8, <2>1, Zenon
<1> DEFINE a == Len(bytes)
           b == Len(rest)
<1>11. a \in Nat /\ b \in Nat /\ c \in 1..a /\ Len(left) = a - c
  BY <1>2, <1>7, <1>8, LenProperties
<1> HIDE DEF a, b
<1>12. /\ Len(Ahead(s)) = a + b /\ Len(Ahead(s)') = (a - c) + b
       /\ \A x \in 1..(a + b) : Ahead(s)[x] = IF x <= a THEN bytes[x] ELSE rest[x - a]
       /\ \A x \in 1..((a - c) + b) :
             Ahead(s)'[x] = IF x <= a - c THEN left[x] ELSE rest[x - (a - c)]
       /\ \A x \in 1..(a - c) : left[x] = bytes[x + c]
  BY <1>8, <1>9, <1>10, <1>11 DEF a, b
<1>13. (a - c) + b = (a + b) - c /\ c \in 1..(a + b)
  BY <1>11
<1>14. ASSUME NEW x \in 1..((a + b) - c)
       PROVE  Ahead(s)'[x] = Ahead(s)[x + c]
  <2>1. x \in 1..((a - c) + b) /\ x + c \in 1..(a + b) /\ (x + c) - a = x - (a - c)
        /\ (x <= a - c <=> x + c <= a)
    BY <1>11
  <2>2. CASE x <= a - c
    <3>1. x \in 1..(a - c)
      BY <1>11, <2>2
    <3> QED
      BY <1>12, <2>1, <2>2, <3>1
  <2>3. CASE ~(x <= a - c)
    BY <1>12, <2>1, <2>3
  <2> QED
    BY <2>2, <2>3
<1>15. \A x \in 1..c : Ahead(s)[x] = bytes[x]
  <2>1. \A x \in 1..c : x \in 1..(a + b) /\ x <= a
    BY <1>11
  <2> QED
    BY <1>12, <2>1
<1>16. Ahead(s)[c] = bytes[c] /\ \A x \in 1..(c - 1) : Ahead(s)[x] = bytes[x]
  BY <1>11, <1>15
<1>17. PICK part \in Seq(Bytes) : part = Part(bytes)
  BY <1>7 DEF Takes
<1>18. ReadsFrom(s, c, part)
  <2>1. Len(Ahead(s)') = Len(Ahead(s)) - c /\ Len(Ahead(s)) - c = (a + b) - c
    BY <1>12, <1>13
  <2>2. \A x \in 1..(Len(Ahead(s)) - c) : Ahead(s)'[x] = Ahead(s)[x + c]
    BY <1>14, <2>1
  <2>3. \A x \in 1..(c - 1) : Ahead(s)[x] # "newline" /\ part[x] = Ahead(s)[x]
    BY <1>7, <1>16, <1>17 DEF Takes
  <2>4. /\ Len(part) = (IF Ahead(s)[c] = "newline" THEN c - 1 ELSE c)
        /\ Ahead(s)[c] # "newline" => part[c] = Ahead(s)[c]
    BY <1>7, <1>16, <1>17 DEF Takes
  <2>5. pc[s]' = (IF Ahead(s)[c] = "newline" THEN "handling" ELSE "reading")
    BY <1>4, <1>7, <1>16 DEF Takes
  <2>6. Keeps(s, part)
    BY <1>5, <1>17 DEF Keeps
  <2> QED
    BY <2>1, <2>2, <2>3, <2>4, <2>5, <2>6 DEF ReadsFrom
<1>19. c \in 1..Len(Ahead(s))
  BY <1>12, <1>13
<1> QED
  BY <1>18, <1>19, Zenon

-----------------------------------------------------------------------------
(* The steps of a session.                                                 *)

LEMMA CutHolds ==
    ASSUME McpTypeOK, ClientTyped, NEW s \in Servers, NEW k \in Nat, NEW at, Framed(s, k, at)
    PROVE  /\ Cut(Ahead(s), Len(Ahead(s)), sent[s], Len(sent[s]), k, at, closed[s])
           /\ Len(Ahead(s)) \in Nat /\ Len(sent[s]) \in Nat /\ k \in 0..Len(sent[s])
           /\ \A i \in 1..Len(sent[s]) : sent[s][i] \in Kinds /\ Size(sent[s][i]) \in Nat
<1>1. Cut(Ahead(s), Len(Ahead(s)), sent[s], Len(sent[s]), k, at, closed[s])
  BY DEF Framed
<1>2. k \in 0..Len(sent[s])
  BY <1>1 DEF Cut
<1> QED
  BY <1>1, <1>2, AheadType, SentType

(* Nothing but where the process is changes, if that, or the client closes.*)
Stage(place) ==
    IF place \in {"down", "opening", "reading"} THEN "reading" ELSE place

LEMMA SameFollows ==
    ASSUME NEW s \in Servers, Followed(s),
           chunk[s]' = chunk[s], pipe[s]' = pipe[s], buf[s]' = buf[s], over[s]' = over[s],
           initialized[s]' = initialized[s], reply[s]' = reply[s], sent[s]' = sent[s],
           out[s]' = out[s], closed[s] => closed[s]',
           Stage(pc[s]') = Stage(pc[s]) \/ pc[s]' = "gone"
    PROVE  Followed(s)'
<1> SUFFICES ASSUME pc[s]' # "gone"
             PROVE  \E k \in Nat, at \in [Nat -> Int] : Follows(s, k, at)'
  BY DEF Followed
<1>1. pc[s] # "gone" /\ Stage(pc[s]') = Stage(pc[s])
  BY DEF Stage
<1>2. PICK k \in Nat, at \in [Nat -> Int] : Follows(s, k, at)
  BY <1>1 DEF Followed
<1>3. Ahead(s)' = Ahead(s)
  BY DEF Ahead
<1>4. Framed(s, k, at)'
  BY <1>2, <1>3 DEF Follows, Framed, Cut
<1>5. \A n : DealtWith(s, n) => DealtWith(s, n)'
  BY DEF DealtWith, Asked
<1>6. \A m, c : Held(s, m, c) => Held(s, m, c)'
  BY DEF Held
<1>7. NoneHeld(s) => NoneHeld(s)'
  BY DEF NoneHeld
<1>8. Reading(s, k, at) => Reading(s, k, at)'
  BY <1>5, <1>6, <1>7 DEF Reading
<1>9. Handling(s, k, at) => Handling(s, k, at)'
  BY <1>5, <1>6 DEF Handling
<1>10. Replying(s, k, at) => Replying(s, k, at)'
  BY <1>5, <1>7 DEF Replying
<1>11. Follows(s, k, at)'
  BY <1>1, <1>2, <1>4, <1>8, <1>9, <1>10 DEF Follows, Stage
<1> QED
  BY <1>2, <1>11

LEMMA HeldMore ==
    ASSUME McpTypeOK, NEW s \in Servers, NEW m, NEW c \in Nat, Held(s, m, c),
           NEW part \in Seq(Bytes), Keeps(s, part), NEW d \in Nat, d = Len(part),
           \A x \in 1..d : part[x] = Encode(m)[x + c]
    PROVE  Held(s, m, c + d)'
<1>0. over[s] \in BOOLEAN /\ buf[s] \in Seq(Bytes) /\ MaxLine \in Nat
  BY McpAssumption DEF McpTypeOK
<1>1. CASE over[s]
  <2>1. over[s]' = TRUE /\ c > MaxLine
    BY <1>1 DEF Keeps, Held
  <2>2. c + d > MaxLine
    BY <1>0, <2>1
  <2> QED
    BY <2>1, <2>2 DEF Held
<1>2. CASE ~over[s] /\ c + d > MaxLine
  <2>1. over[s]' = TRUE
    BY <1>2 DEF Keeps, Held
  <2> QED
    BY <1>2, <2>1 DEF Held
<1>3. CASE ~over[s] /\ ~(c + d > MaxLine)
  <2>1. Len(buf[s]) = c /\ \A x \in 1..c : buf[s][x] = Encode(m)[x]
    BY <1>3 DEF Held
  <2>2. over[s]' = FALSE /\ buf[s]' = buf[s] \o part
    BY <1>0, <1>3, <2>1 DEF Keeps
  <2>3. /\ Len(buf[s] \o part) = c + d
        /\ \A x \in 1..(c + d) : (buf[s] \o part)[x] = IF x <= c THEN buf[s][x] ELSE part[x - c]
    <3>1. /\ Len(buf[s] \o part) = Len(buf[s]) + Len(part)
          /\ \A x \in 1..(Len(buf[s]) + Len(part)) :
                (buf[s] \o part)[x] = IF x <= Len(buf[s]) THEN buf[s][x] ELSE part[x - Len(buf[s])]
      BY <1>0, ConcatProperties
    <3> QED
      BY <2>1, <3>1, Zenon
  <2>4. ASSUME NEW x \in 1..(c + d)
        PROVE  (IF x <= c THEN buf[s][x] ELSE part[x - c]) = Encode(m)[x]
    <3>1. CASE x <= c
      BY <2>1, <3>1
    <3>2. CASE ~(x <= c)
      <4>1. x - c \in 1..d /\ (x - c) + c = x
        BY <3>2
      <4> QED
        BY <3>2, <4>1
    <3> QED
      BY <3>1, <3>2
  <2>5. Len(buf[s]') = c + d /\ \A x \in 1..(c + d) : buf[s]'[x] = Encode(m)[x]
    BY <2>2, <2>3, <2>4
  <2>6. c + d <= MaxLine
    BY <1>0, <1>3
  <2> QED
    BY <2>2, <2>5, <2>6 DEF Held
<1> QED
  BY <1>1, <1>2, <1>3

(* The first q bytes taken, up to a newline or with none among them.       *)
Consumed(first, q) == IF first = "newline" THEN q - 1 ELSE q

Advanced(bytes, rest, len, lines, n, k, at, ended, q, d) ==
    /\ k < n /\ 1 - at[k + 1] \in Nat /\ d \in Nat
    /\ \A x \in 1..d : bytes[x] = Encode(lines[k + 1])[x + (1 - at[k + 1])]
    /\ bytes[q] = "newline" =>
          /\ Cut(rest, len - q, lines, n, k + 1, Shifted(at, q), ended)
          /\ Shifted(at, q)[k + 2] = 1
          /\ (1 - at[k + 1]) + d = Size(lines[k + 1])
    /\ bytes[q] # "newline" =>
          /\ Cut(rest, len - q, lines, n, k, Shifted(at, q), ended)
          /\ 1 - Shifted(at, q)[k + 1] = (1 - at[k + 1]) + d

LEMMA CutRead ==
    ASSUME NEW bytes, NEW len \in Nat, NEW lines, NEW n \in Nat, NEW k \in Nat,
           NEW at \in [Nat -> Int], NEW ended, Cut(bytes, len, lines, n, k, at, ended),
           \A i \in 1..n : lines[i] \in Kinds,
           NEW q \in 1..len, \A x \in 1..(q - 1) : bytes[x] # "newline",
           NEW rest, \A x \in 1..(len - q) : rest[x] = bytes[x + q],
           NEW d, d = Consumed(bytes[q], q)
    PROVE  Advanced(bytes, rest, len, lines, n, k, at, ended, q, d)
<1> DEFINE m == lines[k + 1]
           p == at[k + 1]
           to == Shifted(at, q)
<1>1. /\ k < n
      /\ \A x \in 1..(q - 1) : bytes[x] = Encode(m)[x - p + 1]
      /\ bytes[q] = "newline" => at[k + 2] = q + 1 /\ Size(m) = q - p
      /\ bytes[q] # "newline" =>
            bytes[q] = Encode(m)[q - p + 1] /\ q + 1 - p <= Size(m)
  <2>1. Found(bytes, lines, n, k, at, q)
    BY CutFound, Zenon
  <2> QED
    BY <2>1 DEF Found
<1>2. p <= 1 /\ p \in Int /\ 1 - p \in Nat
  <2>1. p \in Int
    BY <1>1
  <2>2. p <= 1
    BY <1>1 DEF Cut
  <2> QED
    BY <2>1, <2>2
<1>3. \A i \in 1..n : Size(lines[i]) \in Nat
  BY SizeFacts
<1>4. /\ \A i \in Nat : to[i] = at[i] - q
  BY DEF Shifted
<1> HIDE DEF m, p, to
<1>5. d \in Nat /\ (bytes[q] = "newline" => d = q - 1) /\ (bytes[q] # "newline" => d = q)
  BY DEF Consumed
<1>6. ASSUME NEW x \in 1..d
      PROVE  bytes[x] = Encode(m)[x + (1 - p)]
  <2>1. x - p + 1 = x + (1 - p)
    BY <1>2, <1>5
  <2>2. CASE x \in 1..(q - 1)
    BY <1>1, <2>1, <2>2
  <2>3. CASE x = q /\ bytes[q] # "newline"
    BY <1>1, <2>1, <2>3
  <2> QED
    BY <1>5, <2>2, <2>3
<1>7. ASSUME bytes[q] = "newline"
      PROVE  /\ Cut(rest, len - q, lines, n, k + 1, to, ended)
             /\ to[k + 2] = 1
             /\ (1 - p) + d = Size(m)
  <2>1. (1 - p) + d = Size(m)
    BY <1>1, <1>2, <1>5, <1>7
  <2>2. at[k + 2] = q + 1 /\ to[k + 2] = 1
    <3>1. at[k + 2] = q + 1 /\ to[k + 2] = at[k + 2] - q
      BY <1>1, <1>4, <1>7
    <3> QED
      BY <3>1
  <2>3. k + 1 \in {k, k + 1} /\ k + 1 <= n /\ (k + 1) + 1 = k + 2 /\ q \in 0..len
    BY <1>1
  <2>4. k + 1 < n => q + 1 - at[(k + 1) + 1] <= Size(lines[(k + 1) + 1])
    <3> SUFFICES ASSUME k + 1 < n PROVE q + 1 - (q + 1) <= Size(lines[k + 2])
      BY <2>2, <2>3
    <3>1. Size(lines[k + 2]) \in Nat
      BY <1>3
    <3> QED
      BY <3>1
  <2>5. at[(k + 1) + 1] <= q + 1 /\ at[(k + 1) + 1] = q + 1
    BY <2>2, <2>3
  <2>6. Cut(rest, len - q, lines, n, k + 1, to, ended)
    BY <1>3, <2>3, <2>4, <2>5, CutTaken DEF to
  <2> QED
    BY <2>1, <2>2, <2>6
<1>8. ASSUME bytes[q] # "newline"
      PROVE  /\ Cut(rest, len - q, lines, n, k, to, ended)
             /\ 1 - to[k + 1] = (1 - p) + d
  <2>1. to[k + 1] = p - q
    BY <1>4 DEF p
  <2>2. k \in {k, k + 1} /\ k <= n /\ k # n /\ q \in 0..len
    BY <1>1
  <2>3. at[k + 1] <= q + 1 /\ q + 1 - at[k + 1] <= Size(lines[k + 1])
    BY <1>1, <1>2, <1>8 DEF p, m
  <2>4. Cut(rest, len - q, lines, n, k, to, ended)
    BY <1>3, <2>2, <2>3, CutTaken DEF to
  <2> QED
    BY <1>2, <1>5, <1>8, <2>1, <2>4
<1> QED
  BY <1>1, <1>2, <1>5, <1>6, <1>7, <1>8 DEF m, p, to, Advanced

LEMMA ReadFollows ==
    ASSUME McpTypeOK, ClientTyped, NEW s \in Servers, Followed(s), ReadCapped(s)
    PROVE  Followed(s)'
<1>1. pc[s] = "reading" /\ UNCHANGED <<initialized, reply, out, sent, closed>>
  BY DEF ReadCapped, client
<1>2. PICK k \in Nat, at \in [Nat -> Int] : Follows(s, k, at)
  BY <1>1 DEF Followed
<1>3. Framed(s, k, at) /\ Reading(s, k, at)
  BY <1>1, <1>2 DEF Follows
<1>4. PICK q \in Nat, part \in Seq(Bytes) : q \in 1..Len(Ahead(s)) /\ ReadsFrom(s, q, part)
  <2>1. PICK q \in 1..Len(Ahead(s)), part \in Seq(Bytes) : ReadsFrom(s, q, part)
    BY ReadFacts
  <2>2. q \in Nat
    BY AheadType
  <2> QED
    BY <2>1, <2>2, Zenon
<1>0. Len(Ahead(s)) \in Nat /\ Len(sent[s]) \in Nat /\ Len(part) \in Nat
  BY AheadType, SentType, LenProperties
<1>18. PICK bytes, rest : bytes = Ahead(s) /\ rest = Ahead(s)'
  OBVIOUS
<1>19. PICK lines, ended : lines = sent[s] /\ ended = closed[s]
  OBVIOUS
<1>20. PICK len \in Nat : len = Len(Ahead(s))
  BY <1>0, Zenon
<1>21. PICK n \in Nat : n = Len(sent[s])
  BY <1>0, Zenon
<1>22. PICK d \in Nat : d = Len(part)
  BY <1>0, Zenon
<1>5. /\ bytes = Ahead(s) /\ rest = Ahead(s)' /\ lines = sent[s] /\ ended = closed[s]
      /\ len = Len(Ahead(s)) /\ n = Len(sent[s]) /\ d = Len(part)
  BY <1>18, <1>19, <1>20, <1>21, <1>22
<1>6. /\ Cut(bytes, len, lines, n, k, at, ended) /\ q \in 1..len
      /\ \A i \in 1..n : lines[i] \in Kinds
  BY <1>3, <1>4, <1>5, CutHolds, Zenon
<1>7. /\ Len(Ahead(s)') = len - q
      /\ \A x \in 1..(len - q) : rest[x] = bytes[x + q]
      /\ \A x \in 1..(q - 1) : bytes[x] # "newline"
      /\ d = (IF bytes[q] = "newline" THEN q - 1 ELSE q)
      /\ \A x \in 1..(q - 1) : part[x] = bytes[x]
      /\ bytes[q] # "newline" => part[q] = bytes[q]
      /\ pc[s]' = (IF bytes[q] = "newline" THEN "handling" ELSE "reading")
      /\ Keeps(s, part)
  BY <1>4, <1>5, Zenon DEF ReadsFrom
<1> DEFINE m == lines[k + 1]
           c == 1 - at[k + 1]
           to == Shifted(at, q)
<1>8. d = Consumed(bytes[q], q)
  BY <1>7, Zenon DEF Consumed
<1>9. /\ k < n /\ c \in Nat /\ \A x \in 1..d : bytes[x] = Encode(m)[x + c]
      /\ bytes[q] = "newline" =>
            Cut(rest, len - q, lines, n, k + 1, to, ended) /\ to[k + 2] = 1 /\ c + d = Size(m)
      /\ bytes[q] # "newline" =>
            Cut(rest, len - q, lines, n, k, to, ended) /\ 1 - to[k + 1] = c + d
  <2>1. /\ \A x \in 1..(len - q) : rest[x] = bytes[x + q]
        /\ \A x \in 1..(q - 1) : bytes[x] # "newline"
    BY <1>7, Zenon
  <2>2. Advanced(bytes, rest, len, lines, n, k, at, ended, q, d)
    BY <1>6, <1>8, <2>1, CutRead, Zenon
  <2> QED
    BY <2>2, Zenon DEF Advanced
<1>10. to \in [Nat -> Int]
  BY DEF Shifted
<1> HIDE DEF m, c, to
<1>11. \A x \in 1..d : part[x] = Encode(m)[x + c]
  <2>1. d = q - 1 \/ (d = q /\ bytes[q] # "newline")
    BY <1>7
  <2>2. \A x \in 1..d : x \in 1..(q - 1) \/ (x = q /\ d = q)
    BY <2>1
  <2>3. \A x \in 1..d : part[x] = bytes[x]
    <3>1. ASSUME NEW x \in 1..d PROVE part[x] = bytes[x]
      <4>1. CASE x \in 1..(q - 1)
        BY <1>7, <4>1, Zenon
      <4>2. CASE x = q /\ d = q
        <5>1. bytes[q] # "newline"
          BY <2>1, <4>2
        <5> QED
          BY <1>7, <4>2, <5>1, Zenon
      <4> QED
        BY <2>2, <4>1, <4>2
    <3> QED
      BY <3>1
  <2> QED
    BY <1>9, <2>3, Zenon
<1>12. Held(s, m, c) /\ DealtWith(s, k)
  <2>1. k # Len(sent[s])
    BY <1>5, <1>9
  <2> QED
    BY <1>3, <1>5, <2>1, Zenon DEF Reading, m, c
<1>13. Held(s, m, c + d)'
  BY <1>5, <1>7, <1>9, <1>11, <1>12, HeldMore
<1>14. sent[s]' = lines /\ closed[s]' = ended /\ Len(sent[s])' = n /\ DealtWith(s, k)'
  <2>1. sent[s]' = sent[s] /\ closed[s]' = closed[s] /\ Len(sent[s])' = Len(sent[s])
    BY <1>1, Zenon
  <2>2. DealtWith(s, k)'
    BY <1>1, <1>12, Zenon DEF DealtWith, Asked
  <2> QED
    BY <1>5, <2>1, <2>2, Zenon
<1>15. ASSUME NEW l, Cut(rest, len - q, lines, n, l, to, ended)
       PROVE  Framed(s, l, to)'
  BY <1>5, <1>7, <1>14, <1>15, Zenon DEF Framed
<1>16. CASE bytes[q] = "newline"
  <2>1. k + 1 \in Nat /\ k + 1 > 0 /\ (k + 1) + 1 = k + 2 /\ (k + 1) - 1 = k
    OBVIOUS
  <2>2. Held(s, sent[s][k + 1], Size(sent[s][k + 1]))'
    <3>1. Held(s, m, Size(m))'
      BY <1>9, <1>13, <1>16, Zenon
    <3> QED
      BY <1>14, <3>1, Zenon DEF m
  <2>3. to[(k + 1) + 1] = 1 /\ DealtWith(s, (k + 1) - 1)'
    BY <1>9, <1>14, <1>16, <2>1, Zenon
  <2>4. Handling(s, k + 1, to)'
    BY <2>1, <2>2, <2>3, Zenon DEF Handling
  <2>5. Framed(s, k + 1, to)' /\ pc[s]' = "handling"
    BY <1>7, <1>9, <1>15, <1>16, Zenon
  <2>6. Follows(s, k + 1, to)'
    BY <2>4, <2>5, Zenon DEF Follows
  <2> QED
    BY <1>10, <2>1, <2>6, Zenon DEF Followed
<1>17. CASE bytes[q] # "newline"
  <2>1. Held(s, sent[s][k + 1], 1 - to[k + 1])'
    <3>1. Held(s, m, 1 - to[k + 1])'
      BY <1>9, <1>13, <1>17, Zenon
    <3> QED
      BY <1>14, <3>1, Zenon DEF m
  <2>2. k # n
    BY <1>9
  <2>3. Reading(s, k, to)'
    BY <1>14, <2>1, <2>2, Zenon DEF Reading
  <2>4. Framed(s, k, to)' /\ pc[s]' = "reading"
    BY <1>7, <1>9, <1>15, <1>17, Zenon
  <2>5. Follows(s, k, to)'
    BY <2>3, <2>4, Zenon DEF Follows
  <2> QED
    BY <1>10, <2>5, Zenon DEF Followed
<1> QED
  BY <1>16, <1>17

(* Between two lines nothing is held.                                      *)
LEMMA FreshReads ==
    ASSUME NEW s \in Servers, NEW k \in Nat, NEW at, at[k + 1] = 1, DealtWith(s, k)', NoneHeld(s)'
    PROVE  Reading(s, k, at)'
<1>1. \A m : Held(s, m, 0)'
  <2>1. over'[s] = FALSE /\ buf'[s] = <<>> /\ Len(<<>>) = 0 /\ 0 <= MaxLine
    BY McpAssumption DEF NoneHeld
  <2>2. Len(buf'[s]) = 0
    BY <2>1
  <2>3. \A x : x \notin 1..0
    OBVIOUS
  <2> QED
    BY <2>1, <2>2, <2>3 DEF Held
<1>2. 1 - at[k + 1] = 0
  OBVIOUS
<1> QED
  BY <1>1, <1>2 DEF Reading

LEMMA FramedSame ==
    ASSUME NEW s \in Servers, NEW k, NEW at, Framed(s, k, at),
           chunk[s]' = chunk[s], pipe[s]' = pipe[s], sent[s]' = sent[s], closed[s]' = closed[s]
    PROVE  Framed(s, k, at)'
BY DEF Framed, Ahead

LEMMA EndFollows ==
    ASSUME McpTypeOK, ClientTyped, NEW s \in Servers, Followed(s), EndOfInput(s)
    PROVE  /\ Followed(s)'
           /\ pc[s]' \in {"gone", "handling"}
           /\ pc[s]' = "gone" => closed[s] /\ DealtWith(s, Len(sent[s]))
<1>1. /\ pc[s] = "reading" /\ chunk[s] = <<>> /\ pipe[s] = <<>> /\ closed[s]
      /\ pc[s]' = (IF buf[s] = <<>> /\ ~over[s] THEN "gone" ELSE "handling")
      /\ UNCHANGED <<chunk, pipe, buf, over, initialized, reply, out, sent, closed>>
  BY DEF EndOfInput, Goto, reader, client, McpTypeOK
<1>2. PICK k \in Nat, at \in [Nat -> Int] : Follows(s, k, at)
  BY <1>1 DEF Followed
<1>3. Framed(s, k, at) /\ Reading(s, k, at)
  BY <1>1, <1>2 DEF Follows
<1>4. Ahead(s) = <<>> /\ Ahead(s)' = <<>> /\ Len(Ahead(s)) = 0 /\ Len(Ahead(s)') = 0
  <2>1. Ahead(s) = <<>> \o <<>> /\ Ahead(s)' = <<>> \o <<>>
    BY <1>1 DEF Ahead
  <2>2. <<>> \o <<>> = <<>> /\ Len(<<>>) = 0
    OBVIOUS
  <2> QED
    BY <2>1, <2>2
<1>5. PICK n \in Nat : n = Len(sent[s])
  BY SentType
<1>10. PICK lines : lines = sent[s]
  OBVIOUS
<1>6. Cut(<<>>, 0, lines, n, k, at, closed[s]) /\ \A i \in 1..n : lines[i] \in Kinds
  BY <1>3, <1>4, <1>5, <1>10, CutHolds, Zenon
<1>7. \/ k = n
      \/ /\ k + 1 = n /\ at[n + 1] = 2 /\ lines[n] # "blank"
         /\ Size(lines[n]) = 1 - at[n] /\ Size(lines[n]) > 0
  BY <1>6, CutEnded
<1>8. CASE k = n
  <2>1. NoneHeld(s) /\ DealtWith(s, n)
    BY <1>3, <1>5, <1>8, Zenon DEF Reading
  <2>2. pc[s]' = "gone"
    BY <1>1, <2>1 DEF NoneHeld
  <2>3. Followed(s)'
    BY <2>2 DEF Followed
  <2> QED
    BY <1>1, <1>5, <2>1, <2>2, <2>3, Zenon
<1>9. CASE k # n
  <2>0. k + 1 = n /\ at[n + 1] = 2 /\ Size(lines[n]) = 1 - at[n] /\ Size(lines[n]) > 0
    BY <1>7, <1>9
  <2>1. Held(s, lines[n], Size(lines[n])) /\ DealtWith(s, k)
    <3>1. k # Len(sent[s])
      BY <1>5, <1>9
    <3>2. Held(s, sent[s][k + 1], 1 - at[k + 1]) /\ DealtWith(s, k)
      BY <1>3, <3>1, Zenon DEF Reading
    <3> QED
      BY <1>10, <2>0, <3>2, Zenon
  <2>2. pc[s]' = "handling"
    <3>1. ASSUME buf[s] = <<>>, ~over[s] PROVE FALSE
      <4>1. Len(buf[s]) = Size(lines[n]) /\ Len(<<>>) = 0
        BY <2>1, <3>1 DEF Held
      <4> QED
        BY <2>0, <3>1, <4>1
    <3> QED
      BY <1>1, <3>1
  <2> DEFINE to == Shifted(at, 1)
  <2>3. to \in [Nat -> Int] /\ to[n + 1] = 1
    BY <2>0 DEF Shifted
  <2> HIDE DEF to
  <2>4. Cut(<<>>, 0, lines, n, n, to, closed[s])
    <3>1. /\ n \in 0..n /\ to[n + 1] = 0 + 1 /\ ~(n < n)
          /\ \A i : i \notin (n + 1)..n
          /\ \A i, j \in (n + 1)..(n + 1) : ~(i < j)
      BY <2>3
    <3> QED
      BY <2>3, <3>1 DEF Cut
  <2>5. Framed(s, n, to)'
    <3>1. sent[s]' = lines /\ closed[s]' = closed[s] /\ Len(sent[s])' = n
      BY <1>1, <1>5, <1>10
    <3> QED
      BY <1>4, <2>4, <3>1, Zenon DEF Framed
  <2>6. Handling(s, n, to)'
    <3>1. n > 0 /\ n - 1 = k
      BY <2>0
    <3>2. DealtWith(s, k)'
      BY <1>1, <2>1, Zenon DEF DealtWith, Asked
    <3>3. Held(s, lines[n], Size(lines[n]))' /\ sent[s]' = lines
      BY <1>1, <1>10, <2>1, Zenon DEF Held
    <3>4. Held(s, sent[s][n], Size(sent[s][n]))'
      BY <3>3, Zenon
    <3> QED
      BY <2>3, <3>1, <3>2, <3>4, Zenon DEF Handling
  <2>7. Follows(s, n, to)'
    BY <2>2, <2>5, <2>6, Zenon DEF Follows
  <2>8. Followed(s)'
    BY <2>3, <2>7, Zenon DEF Followed
  <2> QED
    BY <2>2, <2>8
<1> QED
  BY <1>8, <1>9

LEMMA DispatchFollows ==
    ASSUME McpTypeOK, ClientTyped, NEW s \in Servers, Followed(s), Dispatch(s)
    PROVE  Followed(s)' /\ pc[s]' \in {"reading", "replying"}
<1>1. /\ pc[s] = "handling" /\ NoneHeld(s)'
      /\ UNCHANGED <<chunk, pipe, out, sent, closed>>
  BY DEF Dispatch, client, McpTypeOK, NoneHeld
<1>2. PICK k \in Nat, at \in [Nat -> Int] : Follows(s, k, at)
  BY <1>1 DEF Followed
<1>3. Framed(s, k, at) /\ Handling(s, k, at)
  BY <1>1, <1>2 DEF Follows
<1>4. Framed(s, k, at)'
  BY <1>1, <1>3, FramedSame
<1>5. PICK n \in Nat : k = n + 1 /\ k - 1 = n
  BY <1>3 DEF Handling
<1>6. k \in 1..Len(sent[s]) /\ sent[s][k] \in Kinds
  <2>1. k \in 0..Len(sent[s])
    BY <1>3, CutHolds
  <2>2. k \in 1..Len(sent[s])
    BY <1>5, <2>1
  <2> QED
    BY <2>2, SentType
<1>7. at[k + 1] = 1 /\ DealtWith(s, n) /\ Line(s) = sent[s][k]
  <2>1. at[k + 1] = 1 /\ DealtWith(s, n) /\ Held(s, sent[s][k], Size(sent[s][k]))
    BY <1>3, <1>5, Zenon DEF Handling
  <2> QED
    BY <1>6, <2>1, LineInHand
<1>8. CASE Line(s) \in Silent
  <2>1. pc[s]' = "reading" /\ initialized[s]' = (initialized[s] \/ sent[s][k] = "ready")
    BY <1>7, <1>8 DEF Dispatch, Goto, Initialises, McpTypeOK
  <2>2. DealtWith(s, n + 1)'
    BY <1>1, <1>5, <1>7, <1>8, <2>1, DealtSilent
  <2>3. Reading(s, k, at)'
    BY <1>1, <1>5, <1>7, <2>2, FreshReads
  <2>4. Follows(s, k, at)'
    BY <1>4, <2>1, <2>3, Zenon DEF Follows
  <2> QED
    BY <2>1, <2>4, Zenon DEF Followed
<1>9. CASE Line(s) \notin Silent
  <2>1. /\ pc[s]' = "replying" /\ initialized[s]' = initialized[s]
        /\ reply[s]' \in Replies(Line(s), initialized[s])
    BY <1>9 DEF Dispatch, Goto, McpTypeOK
  <2>2. DealtWith(s, n)'
    BY <1>1, <1>7, <2>1, Zenon DEF DealtWith, Asked
  <2>3. Replying(s, k, at)'
    <3>1. reply[s]' \in Replies(sent[s][k], initialized[s])'
      <4>1. Replies(sent[s][k], initialized[s])' = Replies(Line(s), initialized[s])
        BY <1>1, <1>7, <2>1 DEF Replies
      <4> QED
        BY <2>1, <4>1
    <3>2. k > 0 /\ (sent[s][k] \notin Silent)'
      BY <1>1, <1>5, <1>7, <1>9
    <3> QED
      BY <1>1, <1>5, <1>7, <2>2, <3>1, <3>2, Zenon DEF Replying
  <2>4. Follows(s, k, at)'
    BY <1>4, <2>1, <2>3, Zenon DEF Follows
  <2> QED
    BY <2>1, <2>4, Zenon DEF Followed
<1> QED
  BY <1>8, <1>9

(* The reply that is written is about the next request.                    *)
Due(s, i) ==
    /\ i \in 1..Len(sent[s]) /\ sent[s][i] \notin Silent
    /\ DealtWith(s, i - 1)
    /\ reply[s] \in Replies(sent[s][i], initialized[s])

LEMMA WriteFollows ==
    ASSUME McpTypeOK, ClientTyped, NEW s \in Servers, Followed(s), WriteReply(s)
    PROVE  Followed(s)' /\ \E i \in 1..Len(sent[s]) : Due(s, i)
<1>1. /\ pc[s] = "replying" /\ UNCHANGED <<chunk, pipe, buf, over, initialized, sent, closed>>
  BY DEF WriteReply, reader, client
<1>2. PICK k \in Nat, at \in [Nat -> Int] : Follows(s, k, at)
  BY <1>1 DEF Followed
<1>3. Framed(s, k, at) /\ Replying(s, k, at)
  BY <1>1, <1>2 DEF Follows
<1>4. Framed(s, k, at)'
  BY <1>1, <1>3, FramedSame
<1>5. PICK n \in Nat : k = n + 1 /\ k - 1 = n
  BY <1>3 DEF Replying
<1>6. k \in 1..Len(sent[s])
  <2>1. k \in 0..Len(sent[s])
    BY <1>3, CutHolds
  <2> QED
    BY <1>5, <2>1
<1>7. /\ at[k + 1] = 1 /\ DealtWith(s, n) /\ NoneHeld(s) /\ sent[s][k] \notin Silent
      /\ reply[s] \in Replies(sent[s][k], initialized[s])
  BY <1>3, <1>5, Zenon DEF Replying
<1>8. Due(s, k)
  BY <1>5, <1>6, <1>7, Zenon DEF Due
<1>9. CASE hungUp[s]
  <2>1. pc[s]' = "gone"
    BY <1>9 DEF WriteReply, Goto, McpTypeOK
  <2> QED
    BY <1>6, <1>8, <2>1 DEF Followed
<1>10. CASE ~hungUp[s]
  <2>1. pc[s]' = "reading" /\ out'[s] = Append(out[s], reply[s]) /\ out[s] \in Seq(ReplyKinds)
    BY <1>10 DEF WriteReply, Goto, McpTypeOK
  <2>2. Len(out[s])' = Len(out[s]) + 1 /\ NoneHeld(s)'
    BY <1>1, <1>7, <2>1 DEF NoneHeld
  <2>3. DealtWith(s, n + 1)'
    BY <1>1, <1>5, <1>7, <2>2, DealtAnswered
  <2>4. Reading(s, k, at)'
    BY <1>5, <1>7, <2>2, <2>3, FreshReads
  <2>5. Follows(s, k, at)'
    BY <1>4, <2>1, <2>4, Zenon DEF Follows
  <2>6. Followed(s)'
    BY <2>5, Zenon DEF Followed
  <2> QED
    BY <1>6, <1>8, <2>6
<1> QED
  BY <1>9, <1>10

-----------------------------------------------------------------------------
(* The client writes a line.                                               *)
Joins(c, a, e, t, la, le, lt) ==
    /\ Len(c) = la + le + lt
    /\ \A x \in 1..la : c[x] = a[x]
    /\ \A x \in 1..le : c[la + x] = e[x]
    /\ \A x \in 1..lt : c[la + le + x] = t[x]

LEMMA Joined ==
    ASSUME NEW a \in Seq(Bytes), NEW e \in Seq(Bytes), NEW t \in Seq(Bytes),
           NEW la \in Nat, la = Len(a), NEW le \in Nat, le = Len(e), NEW lt \in Nat, lt = Len(t)
    PROVE  Joins((a \o e) \o t, a, e, t, la, le, lt)
<1>1. PICK b \in Seq(Bytes) : b = a \o e
  <2>1. a \o e \in Seq(Bytes)
    BY ConcatProperties
  <2> QED
    BY <2>1, Zenon
<1>2. /\ Len(b) = la + le
      /\ \A x \in 1..(la + le) : b[x] = IF x <= la THEN a[x] ELSE e[x - la]
  <2>1. /\ Len(a \o e) = Len(a) + Len(e)
        /\ \A x \in 1..(Len(a) + Len(e)) :
              (a \o e)[x] = IF x <= Len(a) THEN a[x] ELSE e[x - Len(a)]
    BY ConcatProperties
  <2> QED
    BY <1>1, <2>1, Zenon
<1>3. PICK c \in Seq(Bytes) : c = b \o t
  <2>1. b \o t \in Seq(Bytes)
    BY ConcatProperties
  <2> QED
    BY <2>1, Zenon
<1>4. /\ Len(c) = (la + le) + lt
      /\ \A x \in 1..((la + le) + lt) : c[x] = IF x <= la + le THEN b[x] ELSE t[x - (la + le)]
  <2>1. /\ Len(b \o t) = Len(b) + Len(t)
        /\ \A x \in 1..(Len(b) + Len(t)) :
              (b \o t)[x] = IF x <= Len(b) THEN b[x] ELSE t[x - Len(b)]
    BY ConcatProperties
  <2> QED
    BY <1>2, <1>3, <2>1, Zenon
<1>5. \A x \in 1..la : c[x] = a[x]
  <2>1. \A x \in 1..la : x \in 1..(la + le) /\ x \in 1..((la + le) + lt) /\ x <= la /\ x <= la + le
    OBVIOUS
  <2> QED
    BY <1>2, <1>4, <2>1, Zenon
<1>6. ASSUME NEW x \in 1..le PROVE c[la + x] = e[x]
  <2>1. /\ la + x \in 1..(la + le) /\ la + x \in 1..((la + le) + lt) /\ la + x <= la + le
        /\ ~(la + x <= la) /\ (la + x) - la = x
    OBVIOUS
  <2>2. c[la + x] = b[la + x] /\ b[la + x] = e[(la + x) - la]
    BY <1>2, <1>4, <2>1, Zenon
  <2> QED
    BY <2>1, <2>2
<1>7. ASSUME NEW x \in 1..lt PROVE c[la + le + x] = t[x]
  <2>1. /\ la + le + x \in 1..((la + le) + lt) /\ ~(la + le + x <= la + le)
        /\ (la + le + x) - (la + le) = x
    OBVIOUS
  <2>2. c[la + le + x] = t[(la + le + x) - (la + le)]
    BY <1>4, <2>1, Zenon
  <2> QED
    BY <2>1, <2>2
<1>8. c = (a \o e) \o t /\ Len(c) = la + le + lt
  BY <1>1, <1>3, <1>4
<1>9. Joins(c, a, e, t, la, le, lt)
  BY <1>5, <1>6, <1>7, <1>8, Zenon DEF Joins
<1> QED
  BY <1>8, <1>9

Regroups(c, p, e, t) == c \o ((p \o e) \o t) = ((c \o p) \o e) \o t

LEMMA Regrouped ==
    ASSUME NEW S, NEW c \in Seq(S), NEW p \in Seq(S), NEW e \in Seq(S), NEW t \in Seq(S)
    PROVE  Regroups(c, p, e, t)
BY DEF Regroups

(* The bytes ahead when a line is added to the pipe.                       *)
Adds(s, m, last) ==
    /\ Len(Ahead(s)') = Len(Ahead(s)) + Size(m) + (IF last THEN 0 ELSE 1)
    /\ \A x \in 1..Len(Ahead(s)) : Ahead(s)'[x] = Ahead(s)[x]
    /\ \A x \in 1..Size(m) : Ahead(s)'[Len(Ahead(s)) + x] = Encode(m)[x]
    /\ ~last => Ahead(s)'[Len(Ahead(s)) + Size(m) + 1] = "newline"

Newline(last) == IF last THEN <<>> ELSE <<"newline">>

LEMMA PipeAdds ==
    ASSUME McpTypeOK, NEW s \in Servers, NEW m \in Kinds, NEW last \in BOOLEAN,
           chunk[s]' = chunk[s], pipe[s]' = pipe[s] \o Encode(m) \o Newline(last)
    PROVE  Adds(s, m, last)
<1>1. /\ chunk[s] \in Seq(Bytes) /\ pipe[s] \in Seq(Bytes)
      /\ Encode(m) \in Seq(Bytes) /\ Len(Encode(m)) = Size(m) /\ Size(m) \in Nat
  BY SizeFacts, EncodeFacts DEF McpTypeOK
<1>2. /\ Newline(last) \in Seq(Bytes) /\ Len(Newline(last)) = (IF last THEN 0 ELSE 1)
      /\ ~last => Newline(last)[1] = "newline"
  <2>1. "newline" \in Bytes
    BY DEF Bytes
  <2>2. CASE last
    BY <2>2 DEF Newline
  <2>3. CASE ~last
    <3>1. Newline(last) = <<"newline">>
      BY <2>3, Zenon DEF Newline
    <3> QED
      BY <2>1, <2>3, <3>1
  <2> QED
    BY <2>2, <2>3
<1>3. PICK a \in Seq(Bytes), la \in Nat : a = Ahead(s) /\ la = Len(a)
  BY AheadType
<1>4. PICK e \in Seq(Bytes), le \in Nat : e = Encode(m) /\ le = Len(e) /\ le = Size(m)
  BY <1>1
<1>5. PICK t \in Seq(Bytes), lt \in Nat :
         t = Newline(last) /\ lt = Len(t) /\ lt = (IF last THEN 0 ELSE 1)
  BY <1>2
<1>6. Ahead(s)' = (a \o e) \o t
  <2>1. PICK c \in Seq(Bytes), p \in Seq(Bytes) : c = chunk[s] /\ p = pipe[s]
    BY <1>1, Zenon
  <2>2. Ahead(s)' = c \o ((p \o e) \o t) /\ a = c \o p
    BY <1>3, <1>4, <1>5, <2>1, Zenon DEF Ahead
  <2>3. Regroups(c, p, e, t)
    BY Regrouped
  <2> QED
    BY <2>2, <2>3, Zenon DEF Regroups
<1>7. Joins(Ahead(s)', a, e, t, la, le, lt)
  <2>1. Joins((a \o e) \o t, a, e, t, la, le, lt)
    BY <1>3, <1>4, <1>5, Joined
  <2> QED
    BY <1>6, <2>1, Zenon
<1>8. /\ Len(Ahead(s)') = la + le + lt
      /\ \A x \in 1..la : Ahead(s)'[x] = a[x]
      /\ \A x \in 1..le : Ahead(s)'[la + x] = e[x]
  BY <1>7, Zenon DEF Joins
<1>9. ~last => Ahead(s)'[la + le + 1] = "newline"
  <2> SUFFICES ASSUME ~last PROVE Ahead(s)'[la + le + 1] = "newline"
    OBVIOUS
  <2>1. 1 \in 1..lt /\ t[1] = "newline"
    BY <1>2, <1>5
  <2> QED
    BY <1>7, <2>1, Zenon DEF Joins
<1> QED
  BY <1>3, <1>4, <1>5, <1>8, <1>9, Zenon DEF Adds

LEMMA SpeakFacts ==
    ASSUME McpTypeOK, ClientTyped, NEW s \in Servers, Speak(s)
    PROVE  /\ closed[s] = FALSE /\ pc[s] # "gone"
           /\ UNCHANGED <<pc, chunk, buf, over, initialized, reply, out>>
           /\ \E m \in Kinds, last \in BOOLEAN :
                 /\ m = "blank" => ~last
                 /\ sent[s]' = Append(sent[s], m) /\ closed[s]' = last
                 /\ Adds(s, m, last)
<1>1. PICK m \in Messages, last \in BOOLEAN :
         /\ m = "blank" => ~last
         /\ sent' = [sent EXCEPT ![s] = Append(@, m)]
         /\ closed' = [closed EXCEPT ![s] = last]
         /\ pipe' = [pipe EXCEPT ![s] = @ \o Encode(m) \o IF last THEN <<>> ELSE <<"newline">>]
  BY DEF Speak
<1>2. m \in Kinds
  BY MessagesAssumption
<1>3. /\ sent \in [Servers -> Seq(Messages)] /\ closed \in [Servers -> BOOLEAN]
      /\ pipe \in [Servers -> Seq(Bytes)]
  BY DEF ClientTyped, McpTypeOK
<1>4. /\ sent[s]' = Append(sent[s], m) /\ closed[s]' = last
      /\ pipe[s]' = pipe[s] \o Encode(m) \o Newline(last)
  BY <1>1, <1>3, Zenon DEF Newline
<1>5. closed[s] = FALSE
  BY <1>3 DEF Speak
<1>6. pc[s] # "gone" /\ UNCHANGED <<pc, chunk, buf, over, initialized, reply, out>>
  BY DEF Speak
<1>7. Adds(s, m, last)
  BY <1>2, <1>4, <1>6, PipeAdds
<1> QED
  BY <1>1, <1>2, <1>4, <1>5, <1>6, <1>7, Zenon

LEMMA SpeakFollows ==
    ASSUME McpTypeOK, ClientTyped, NEW s \in Servers, Followed(s), Speak(s)
    PROVE  Followed(s)'
<1>1. /\ closed[s] = FALSE /\ pc[s] # "gone"
      /\ UNCHANGED <<pc, chunk, buf, over, initialized, reply, out>>
  BY SpeakFacts
<1>2. PICK m \in Kinds, last \in BOOLEAN :
         /\ m = "blank" => ~last
         /\ sent[s]' = Append(sent[s], m) /\ closed[s]' = last
         /\ Adds(s, m, last)
  BY SpeakFacts
<1>3. PICK k \in Nat, at \in [Nat -> Int] : Follows(s, k, at)
  BY <1>1 DEF Followed
<1>4. PICK len \in Nat, n \in Nat : len = Len(Ahead(s)) /\ n = Len(sent[s])
  BY AheadType, SentType
<1>5. PICK bytes, more, lines, longer :
         bytes = Ahead(s) /\ more = Ahead(s)' /\ lines = sent[s] /\ longer = sent[s]'
  OBVIOUS
<1>6. PICK size \in Nat : size = len + Size(m) + (IF last THEN 0 ELSE 1)
  BY SizeFacts
<1>7. Framed(s, k, at)
  BY <1>3, Zenon DEF Follows
<1>8. /\ Cut(bytes, len, lines, n, k, at, FALSE) /\ k \in 0..n
      /\ \A i \in 1..n : lines[i] \in Kinds
  BY <1>1, <1>4, <1>5, <1>7, CutHolds, Zenon
<1>9. /\ Len(Ahead(s)') = size /\ \A x \in 1..len : more[x] = bytes[x]
      /\ \A x \in 1..Size(m) : more[len + x] = Encode(m)[x]
      /\ ~last => more[len + Size(m) + 1] = "newline"
  BY <1>2, <1>4, <1>5, <1>6, Zenon DEF Adds
<1>10. /\ Len(sent[s])' = n + 1 /\ longer[n + 1] = m
       /\ \A i \in 1..n : longer[i] = lines[i]
  <2>1. sent[s] \in Seq(Messages) /\ lines \in Seq(Messages) /\ longer = Append(lines, m)
    BY <1>2, <1>5, SentType
  <2>2. Len(sent[s])' = Len(longer) /\ Len(lines) = n
    BY <1>4, <1>5
  <2>3. Len(Append(lines, m)) = Len(lines) + 1 /\ Append(lines, m)[Len(lines) + 1] = m
        /\ \A i \in 1..Len(lines) : Append(lines, m)[i] = lines[i]
    BY <2>1
  <2> QED
    BY <2>1, <2>2, <2>3, Zenon
<1> DEFINE to == Grown(at, n, m)
<1>11. ~last => size = len + Size(m) + 1
  BY <1>6
<1>12. Cut(more, size, longer, n + 1, k, to, last)
  <2>1. ~last => more[size] = "newline"
    BY <1>9, <1>11, Zenon
  <2>2. Extends(more, size, longer, bytes, len, lines, n, m, last)
    BY <1>2, <1>6, <1>8, <1>9, <1>10, <2>1, Zenon DEF Extends
  <2>3. Cut(more, size, longer, n + 1, k, Grown(at, n, m), last)
    BY <1>8, <2>2, CutGrown, Zenon
  <2> QED
    BY <2>3
<1>13. to \in [Nat -> Int] /\ to[k + 1] = at[k + 1]
  BY <1>8, SizeFacts DEF Grown
<1> HIDE DEF to
<1>14. Framed(s, k, to)'
  BY <1>2, <1>5, <1>9, <1>10, <1>12, Zenon DEF Framed
<1>15. ASSUME NEW i \in 0..n, DealtWith(s, i)
       PROVE  DealtWith(s, i)'
  <2>1. \A j \in 1..i : sent[s]'[j] = sent[s][j]
    <3>1. \A j \in 1..i : j \in 1..n
      OBVIOUS
    <3> QED
      BY <1>5, <1>10, <3>1, Zenon
  <2>2. Asked(s, i)' = Asked(s, i)
    BY <2>1, Zenon DEF Asked
  <2>3. (\E j \in 1..i : sent[s][j] = "ready") <=> (\E j \in 1..i : sent[s]'[j] = "ready")
    BY <2>1, Zenon
  <2>4. out[s]' = out[s] /\ initialized[s]' = initialized[s]
    BY <1>1
  <2> QED
    BY <1>15, <2>2, <2>3, <2>4 DEF DealtWith
<1>16. ASSUME NEW i, NEW c, Held(s, i, c)
       PROVE  Held(s, i, c)'
  BY <1>1, <1>16 DEF Held
<1>17. NoneHeld(s) => NoneHeld(s)'
  BY <1>1 DEF NoneHeld
<1>18. ASSUME Reading(s, k, at) PROVE Reading(s, k, to)'
  <2>1. DealtWith(s, k)'
    BY <1>8, <1>15, <1>18 DEF Reading
  <2>2. CASE k = n
    <3>1. NoneHeld(s)' /\ to[k + 1] = 1
      BY <1>4, <1>8, <1>13, <1>17, <1>18, <2>2 DEF Reading, Cut
    <3> QED
      BY <2>1, <3>1, FreshReads
  <2>3. CASE k # n
    <3>1. k # Len(sent[s]) /\ k + 1 \in 1..n /\ k # n + 1
      BY <1>4, <1>8, <2>3
    <3>2. Held(s, sent[s][k + 1], 1 - at[k + 1])
      BY <1>18, <3>1, Zenon DEF Reading
    <3>3. Held(s, longer[k + 1], 1 - to[k + 1])'
      BY <1>5, <1>10, <1>13, <1>16, <3>1, <3>2, Zenon
    <3>4. Held(s, sent[s][k + 1], 1 - to[k + 1])'
      BY <1>5, <3>3, Zenon
    <3> QED
      BY <1>10, <2>1, <3>1, <3>4, Zenon DEF Reading
  <2> QED
    BY <2>2, <2>3
<1>19. ASSUME k > 0 PROVE k - 1 \in 0..n /\ k \in 1..n /\ sent[s]'[k] = sent[s][k]
  <2>1. k - 1 \in 0..n /\ k \in 1..n
    BY <1>8, <1>19
  <2> QED
    BY <1>5, <1>10, <2>1, Zenon
<1>20. ASSUME Handling(s, k, at) PROVE Handling(s, k, to)'
  <2>1. k > 0 /\ at[k + 1] = 1 /\ DealtWith(s, k - 1) /\ Held(s, sent[s][k], Size(sent[s][k]))
    BY <1>20, Zenon DEF Handling
  <2>2. DealtWith(s, k - 1)' /\ to[k + 1] = 1
    BY <1>13, <1>15, <1>19, <2>1
  <2>3. Held(s, sent[s][k], Size(sent[s][k]))'
    BY <1>16, <1>19, <2>1, Zenon
  <2> QED
    BY <2>1, <2>2, <2>3, Zenon DEF Handling
<1>21. ASSUME Replying(s, k, at) PROVE Replying(s, k, to)'
  <2>1. /\ k > 0 /\ at[k + 1] = 1 /\ DealtWith(s, k - 1) /\ NoneHeld(s)
        /\ sent[s][k] \notin Silent /\ reply[s] \in Replies(sent[s][k], initialized[s])
    BY <1>21, Zenon DEF Replying
  <2>2. DealtWith(s, k - 1)' /\ to[k + 1] = 1 /\ NoneHeld(s)' /\ sent[s]'[k] = sent[s][k]
    BY <1>13, <1>15, <1>17, <1>19, <2>1
  <2>3. (reply[s] \in Replies(sent[s][k], initialized[s]))'
    BY <1>1, <2>1, <2>2 DEF Replies
  <2>4. (sent[s][k] \notin Silent)'
    BY <2>1, <2>2
  <2> QED
    BY <2>1, <2>2, <2>3, <2>4, Zenon DEF Replying
<1>22. Follows(s, k, to)'
  <2>1. pc[s]' = pc[s]
    BY <1>1
  <2> QED
    BY <1>3, <1>14, <1>18, <1>20, <1>21, <2>1, Zenon DEF Follows
<1> QED
  BY <1>13, <1>22, Zenon DEF Followed

-----------------------------------------------------------------------------
(* Every step keeps every session framed.                                  *)
SessionStep(s) == Speak(s) \/ Close(s) \/ HangUp(s) \/ ServerStep(s)

LEMMA Elsewhere ==
    ASSUME McpTypeOK, ClientTyped, NEW s \in Servers, NEW t \in Servers, t # s, SessionStep(s)
    PROVE  /\ chunk[t]' = chunk[t] /\ pipe[t]' = pipe[t] /\ buf[t]' = buf[t] /\ over[t]' = over[t]
           /\ initialized[t]' = initialized[t] /\ reply[t]' = reply[t] /\ sent[t]' = sent[t]
           /\ out[t]' = out[t] /\ closed[t]' = closed[t] /\ pc[t]' = pc[t]
<1>1. CASE Speak(s)
  BY <1>1 DEF Speak, McpTypeOK, ClientTyped
<1>2. CASE Close(s) \/ HangUp(s)
  BY <1>2 DEF Close, HangUp, reader, ClientTyped
<1>3. CASE Open(s) \/ Migrate(s)
  BY <1>3 DEF Open, Migrate, Goto, reader, client, McpTypeOK
<1>4. CASE ReadCapped(s)
  <2>1. UNCHANGED <<initialized, reply, sent, out, closed>>
    BY <1>4 DEF ReadCapped, client
  <2>2. pc[t]' = pc[t]
    BY <1>4 DEF ReadCapped, Goto, McpTypeOK
  <2>3. chunk[t]' = chunk[t] /\ pipe[t]' = pipe[t]
    BY <1>4 DEF ReadCapped, McpTypeOK
  <2>4. buf[t]' = buf[t] /\ over[t]' = over[t]
    BY <1>4 DEF ReadCapped, McpTypeOK
  <2> QED
    BY <2>1, <2>2, <2>3, <2>4
<1>5. CASE EndOfInput(s)
  BY <1>5 DEF EndOfInput, Goto, reader, client, McpTypeOK
<1>6. CASE Dispatch(s)
  BY <1>6 DEF Dispatch, Goto, client, McpTypeOK
<1>7. CASE WriteReply(s)
  BY <1>7 DEF WriteReply, Goto, reader, client, McpTypeOK
<1> QED
  BY <1>1, <1>2, <1>3, <1>4, <1>5, <1>6, <1>7 DEF SessionStep, ServerStep

LEMMA CloseFollows ==
    ASSUME McpTypeOK, ClientTyped, NEW s \in Servers, Followed(s),
           Close(s) \/ HangUp(s) \/ Open(s) \/ Migrate(s)
    PROVE  Followed(s)'
<1>1. CASE Close(s) \/ HangUp(s)
  <2>1. /\ UNCHANGED <<chunk, pipe, buf, over, initialized, reply, sent, out, pc>>
        /\ closed[s]' = TRUE
    BY <1>1 DEF Close, HangUp, reader, ClientTyped
  <2> QED
    BY <2>1, SameFollows
<1>2. CASE Open(s) \/ Migrate(s)
  <2>1. UNCHANGED <<chunk, pipe, buf, over, initialized, reply, sent, out, closed>>
    BY <1>2 DEF Open, Migrate, reader, client
  <2>2. pc[s] \in {"down", "opening"} /\ pc[s]' \in {"opening", "reading", "gone"}
    BY <1>2 DEF Open, Migrate, Goto, McpTypeOK
  <2>3. Stage(pc[s]') = Stage(pc[s]) \/ pc[s]' = "gone"
    BY <2>2, Zenon DEF Stage
  <2> QED
    BY <2>1, <2>3, SameFollows
<1> QED
  BY <1>1, <1>2

LEMMA SessionsFollow ==
    ASSUME McpTypeOK, ClientTyped, \A s \in Servers : Followed(s), [McpNext]_mcpVars
    PROVE  \A s \in Servers : Followed(s)'
<1>1. CASE UNCHANGED mcpVars
  <2> SUFFICES ASSUME NEW s \in Servers PROVE Followed(s)'
    OBVIOUS
  <2>1. UNCHANGED <<chunk, pipe, buf, over, initialized, reply, sent, out, closed, pc>>
    BY <1>1 DEF mcpVars, reader, client
  <2> QED
    BY <2>1, SameFollows
<1>2. ASSUME NEW s \in Servers, SessionStep(s), NEW t \in Servers
      PROVE  Followed(t)'
  <2>1. CASE t # s
    BY <1>2, <2>1, Elsewhere, SameFollows
  <2>2. Followed(s)'
    BY <1>2, SpeakFollows, CloseFollows, ReadFollows, EndFollows, DispatchFollows, WriteFollows
       DEF SessionStep, ServerStep
  <2> QED
    BY <2>1, <2>2
<1> QED
  BY <1>1, <1>2 DEF McpNext, SessionStep

LEMMA ClientStep ==
    ASSUME ClientTyped, [McpNext]_mcpVars
    PROVE  ClientTyped'
<1>1. CASE UNCHANGED mcpVars
  BY <1>1 DEF ClientTyped, mcpVars, client
<1>2. ASSUME NEW s \in Servers, Speak(s) PROVE ClientTyped'
  <2>1. PICK m \in Messages, last \in BOOLEAN :
           /\ sent' = [sent EXCEPT ![s] = Append(@, m)]
           /\ closed' = [closed EXCEPT ![s] = last]
    BY <1>2 DEF Speak
  <2>2. sent' \in [Servers -> Seq(Messages)]
    BY <2>1 DEF ClientTyped
  <2>3. closed' \in [Servers -> BOOLEAN] /\ hungUp' = hungUp
    BY <1>2, <2>1 DEF Speak, ClientTyped
  <2> QED
    BY <2>2, <2>3 DEF ClientTyped
<1>3. ASSUME NEW s \in Servers, Close(s) \/ HangUp(s) PROVE ClientTyped'
  BY <1>3 DEF Close, HangUp, ClientTyped
<1>4. ASSUME NEW s \in Servers, ServerStep(s) PROVE ClientTyped'
  <2>1. UNCHANGED <<sent, closed, hungUp>>
    BY <1>4 DEF ServerStep, Open, Migrate, ReadCapped, EndOfInput, Dispatch, WriteReply, client
  <2> QED
    BY <2>1 DEF ClientTyped
<1> QED
  BY <1>1, <1>2, <1>3, <1>4 DEF McpNext

LEMMA SessionsBegin ==
    ASSUME McpInit
    PROVE  ClientTyped /\ \A s \in Servers : Followed(s)
<1>1. ClientTyped
  BY DEF McpInit, ClientTyped
<1>2. ASSUME NEW s \in Servers PROVE Followed(s)
  <2>1. /\ Ahead(s) = <<>> /\ sent[s] = <<>> /\ out[s] = <<>> /\ pc[s] = "down"
        /\ initialized[s] = FALSE /\ closed[s] = FALSE /\ NoneHeld(s)
    <3>1. chunk[s] = <<>> /\ pipe[s] = <<>> /\ <<>> \o <<>> = <<>>
      BY DEF McpInit
    <3> QED
      BY <3>1 DEF McpInit, Ahead, NoneHeld
  <2>2. PICK at \in [Nat -> Int] : at = [i \in Nat |-> 1]
    <3>1. [i \in Nat |-> 1] \in [Nat -> Int]
      OBVIOUS
    <3> QED
      BY <3>1, Zenon
  <2>3. Len(Ahead(s)) = 0 /\ Len(sent[s]) = 0 /\ Len(out[s]) = 0
    BY <2>1
  <2>4. Cut(Ahead(s), 0, sent[s], 0, 0, at, closed[s])
    <3>1. /\ 0 \in 0..0 /\ \A i : i \notin (0 + 1)..0
          /\ \A i, j \in (0 + 1)..(0 + 1) : ~(i < j)
          /\ at[0 + 1] = 0 + 1 /\ ~(0 < 0) /\ at[0 + 1] = 1
      BY <2>2
    <3> QED
      BY <3>1 DEF Cut
  <2>5. Framed(s, 0, at)
    BY <2>3, <2>4, Zenon DEF Framed
  <2>6. DealtWith(s, 0)
    <3>1. Asked(s, 0) = {} /\ \A j : j \notin 1..0
      BY DEF Asked
    <3>2. Cardinality(Asked(s, 0)) = 0
      BY <3>1, FS_EmptySet
    <3> QED
      BY <2>1, <2>3, <3>1, <3>2 DEF DealtWith
  <2>7. Reading(s, 0, at)
    BY <2>1, <2>3, <2>6, Zenon DEF Reading
  <2>8. Follows(s, 0, at)
    BY <2>1, <2>5, <2>7, Zenon DEF Follows
  <2>9. 0 \in Nat
    OBVIOUS
  <2> QED
    BY <2>8, <2>9, Zenon DEF Followed
<1> QED
  BY <1>1, <1>2

(* However its bytes arrive, what a process holds of a line is the         *)
(* beginning of that line, what waits for it are the lines after it, and   *)
(* the lines before it have been dealt with (read_capped_line, run_stdio). *)
THEOREM SessionsFramed == McpSpec => []SessionInv
<1> DEFINE Sessions == ClientTyped /\ \A s \in Servers : Followed(s)
<1>1. McpInit => Sessions
  BY SessionsBegin
<1>2. McpTypeOK /\ Sessions /\ [McpNext]_mcpVars => Sessions'
  BY ClientStep, SessionsFollow
<1>3. SessionInv <=> McpTypeOK /\ Sessions
  BY DEF SessionInv
<1> HIDE DEF Sessions
<1> QED
  BY <1>1, <1>2, <1>3, McpTypeCorrect, PTL DEF McpSpec

-----------------------------------------------------------------------------
(* Step by step, what the client sees is a step of the promise.            *)
Conditions == [s \in Servers |-> Condition(s)]

CondOf(place) ==
    IF place \in {"down", "opening"} THEN "starting"
    ELSE IF place = "gone" THEN "gone" ELSE "up"

LEMMA ConditionMoves ==
    ASSUME McpTypeOK, NEW s \in Servers, NEW place, Goto(s, place)
    PROVE  Conditions' = [Conditions EXCEPT ![s] = CondOf(place)]
<1>1. pc' = [pc EXCEPT ![s] = place] /\ pc \in [Servers -> Places]
  BY DEF Goto, McpTypeOK
<1>2. \A t \in Servers : pc[t]' = IF t = s THEN place ELSE pc[t]
  BY <1>1
<1>3. \A t \in Servers : Condition(t)' = IF t = s THEN CondOf(place) ELSE Condition(t)
  BY <1>2, Zenon DEF Condition, CondOf
<1> QED
  BY <1>3 DEF Conditions

LEMMA ConditionStays ==
    ASSUME McpTypeOK, NEW s \in Servers, NEW place, Goto(s, place), CondOf(place) = Condition(s)
    PROVE  Conditions' = Conditions
<1>1. Conditions' = [Conditions EXCEPT ![s] = CondOf(place)] /\ Conditions[s] = Condition(s)
  BY ConditionMoves DEF Conditions
<1> QED
  BY <1>1 DEF Conditions

(* The instance of Cardinality in the promise is Cardinality.              *)
LEMMA SameCount == \A S : Promise!Cardinality(S) = Cardinality(S)
  BY DEF Promise!Cardinality, Cardinality

LEMMA SpeakKeeps ==
    ASSUME NEW s \in Servers, Speak(s)
    PROVE  Promise!Speak(s)
<1>1. Conditions' = Conditions /\ UNCHANGED <<out, hungUp>>
  BY DEF Speak, Conditions, Condition
<1>2. /\ ~closed[s]
      /\ \E m \in Messages, last \in BOOLEAN :
            /\ sent' = [sent EXCEPT ![s] = Append(@, m)]
            /\ closed' = [closed EXCEPT ![s] = last]
  BY Zenon DEF Speak
<1> QED
  BY <1>1, <1>2 DEF Promise!Speak, Conditions

LEMMA CloseKeeps ==
    ASSUME NEW s \in Servers, Close(s) \/ HangUp(s)
    PROVE  Promise!Close(s) \/ Promise!HangUp(s)
<1>1. Conditions' = Conditions
  BY DEF Close, HangUp, Conditions, Condition
<1> QED
  BY <1>1 DEF Close, HangUp, Promise!Close, Promise!HangUp, Conditions

LEMMA OpenKeeps ==
    ASSUME McpTypeOK, NEW s \in Servers, Open(s) \/ Migrate(s)
    PROVE  Promise!Start(s) \/ UNCHANGED Promise!vars
<1>1. Condition(s) = "starting" /\ UNCHANGED <<sent, out, closed, hungUp>>
  BY DEF Open, Migrate, client, Condition
<1>2. \E place \in {"opening", "reading", "gone"} : Goto(s, place)
  BY DEF Open, Migrate
<1>3. PICK place \in {"opening", "reading", "gone"} : Goto(s, place)
  BY <1>2
<1>4. CASE place = "opening"
  <2>1. CondOf(place) = "starting"
    BY <1>4, Zenon DEF CondOf
  <2>2. Conditions' = Conditions
    BY <1>1, <1>3, <2>1, ConditionStays
  <2> QED
    BY <1>1, <2>2 DEF Promise!vars, Conditions
<1>5. CASE place # "opening"
  <2>1. CondOf(place) \in {"up", "gone"}
    BY <1>5 DEF CondOf
  <2>2. Conditions' = [Conditions EXCEPT ![s] = CondOf(place)] /\ Conditions[s] = "starting"
    BY <1>1, <1>3, ConditionMoves DEF Conditions
  <2> QED
    BY <1>1, <2>1, <2>2 DEF Promise!Start, Conditions
<1> QED
  BY <1>4, <1>5

(* Reading and handling are not seen.                                      *)
LEMMA HiddenKeeps ==
    ASSUME McpTypeOK, NEW s \in Servers,
           ReadCapped(s) \/ Dispatch(s) \/ (EndOfInput(s) /\ pc[s]' = "handling")
    PROVE  UNCHANGED Promise!vars
<1>1. UNCHANGED <<sent, out, closed, hungUp>>
  BY DEF ReadCapped, Dispatch, EndOfInput, client
<1>2. /\ pc \in [Servers -> Places] /\ pc[s] \in {"reading", "handling"}
      /\ pc' = pc \/ \E place \in Places : Goto(s, place)
      /\ pc[s]' \in {"reading", "handling", "replying"}
  BY DEF ReadCapped, Dispatch, EndOfInput, Goto, McpTypeOK, Places
<1>3. Condition(s) = "up"
  BY <1>2, Zenon DEF Condition
<1>4. CASE pc' = pc
  <2>1. Conditions' = Conditions
    BY <1>4 DEF Conditions, Condition
  <2> QED
    BY <1>1, <2>1 DEF Promise!vars, Conditions
<1>5. ASSUME NEW place \in Places, Goto(s, place)
      PROVE  UNCHANGED Promise!vars
  <2>1. place \in {"reading", "handling", "replying"}
    BY <1>2, <1>5 DEF Goto
  <2>2. CondOf(place) = "up"
    BY <2>1 DEF CondOf
  <2>3. Conditions' = Conditions
    BY <1>3, <1>5, <2>2, ConditionStays
  <2> QED
    BY <1>1, <2>3 DEF Promise!vars, Conditions
<1> QED
  BY <1>2, <1>4, <1>5

LEMMA EndKeeps ==
    ASSUME McpTypeOK, ClientTyped, NEW s \in Servers, Followed(s), EndOfInput(s), pc[s]' = "gone"
    PROVE  Promise!Leave(s)
<1>1. closed[s] /\ DealtWith(s, Len(sent[s])) /\ UNCHANGED <<sent, out, closed, hungUp>>
  BY EndFollows DEF EndOfInput, client
<1>2. Goto(s, "gone") /\ pc[s] = "reading"
  BY DEF EndOfInput, Goto, McpTypeOK
<1>3. Conditions' = [Conditions EXCEPT ![s] = "gone"] /\ Conditions[s] = "up"
  <2>1. CondOf("gone") = "gone" /\ Condition(s) = "up"
    BY <1>2, Zenon DEF CondOf, Condition
  <2> QED
    BY <1>2, <2>1, ConditionMoves DEF Conditions
<1>4. Promise!Answered(s)
  <2>1. Len(out[s]) = Cardinality(Asked(s, Len(sent[s])))
    BY <1>1, Zenon DEF DealtWith
  <2>2. Promise!Requests(s, Len(sent[s])) = Asked(s, Len(sent[s]))
    BY Zenon DEF Promise!Requests, Promise!IsRequest, Asked
  <2> QED
    BY <2>1, <2>2, SameCount, Zenon DEF Promise!Answered
<1> QED
  BY <1>1, <1>3, <1>4, Zenon DEF Promise!Leave, Conditions

LEMMA WriteKeeps ==
    ASSUME McpTypeOK, ClientTyped, NEW s \in Servers, Followed(s), WriteReply(s)
    PROVE  Promise!Answer(s) \/ Promise!Leave(s)
<1>1. UNCHANGED <<sent, closed, hungUp>> /\ Condition(s) = "up" /\ Conditions[s] = "up"
  BY DEF WriteReply, client, Condition, Conditions
<1>2. CASE hungUp[s]
  <2>1. Goto(s, "gone") /\ out' = out
    BY <1>2 DEF WriteReply
  <2>2. CondOf("gone") = "gone"
    BY Zenon DEF CondOf
  <2>3. Conditions' = [Conditions EXCEPT ![s] = "gone"]
    BY <2>1, <2>2, ConditionMoves
  <2> QED
    BY <1>1, <1>2, <2>1, <2>3, Zenon DEF Promise!Leave, Conditions
<1>3. CASE ~hungUp[s]
  <2>1. Goto(s, "reading") /\ out' = [out EXCEPT ![s] = Append(@, reply[s])]
    BY <1>3 DEF WriteReply
  <2>2. CondOf("reading") = Condition(s)
    BY <1>1, Zenon DEF CondOf
  <2>3. Conditions' = Conditions
    BY <2>1, <2>2, ConditionStays
  <2>4. PICK i \in 1..Len(sent[s]) : Due(s, i)
    BY WriteFollows
  <2>5. /\ sent[s][i] \notin Silent /\ DealtWith(s, i - 1)
        /\ reply[s] \in Replies(sent[s][i], initialized[s])
    BY <2>4, Zenon DEF Due
  <2>6. i \in DOMAIN sent[s]
    BY SentType
  <2>7. Promise!IsNextRequest(s, i)
    <3>1. Promise!Requests(s, i - 1) = Asked(s, i - 1)
      BY Zenon DEF Promise!Requests, Promise!IsRequest, Asked
    <3> QED
      BY <2>5, <2>6, <3>1, SameCount, Zenon DEF Promise!IsNextRequest, Promise!IsRequest, DealtWith
  <2>8. reply[s] \in Replies(sent[s][i], Promise!Initialised(s, i))
    <3>1. Promise!Initialised(s, i) = initialized[s]
      BY <2>5, Zenon DEF Promise!Initialised, DealtWith
    <3> QED
      BY <2>5, <3>1, Zenon
  <2> QED
    BY <1>1, <2>1, <2>3, <2>6, <2>7, <2>8, Zenon DEF Promise!Answer, Conditions
<1> QED
  BY <1>2, <1>3

LEMMA StepKeeps ==
    ASSUME SessionInv, [McpNext]_mcpVars
    PROVE  [Promise!Next]_Promise!vars
<1>0. McpTypeOK /\ ClientTyped /\ \A s \in Servers : Followed(s)
  BY DEF SessionInv
<1>1. CASE UNCHANGED mcpVars
  <2>1. Conditions' = Conditions /\ UNCHANGED <<sent, out, closed, hungUp>>
    BY <1>1 DEF mcpVars, client, Conditions, Condition
  <2> QED
    BY <2>1 DEF Promise!vars, Conditions
<1>2. ASSUME NEW s \in Servers, SessionStep(s)
      PROVE  Promise!Next \/ UNCHANGED Promise!vars
  <2>1. CASE Speak(s)
    BY <2>1, SpeakKeeps, Zenon DEF Promise!Next
  <2>2. CASE Close(s) \/ HangUp(s)
    BY <2>2, CloseKeeps, Zenon DEF Promise!Next
  <2>3. CASE Open(s) \/ Migrate(s)
    BY <1>0, <2>3, OpenKeeps, Zenon DEF Promise!Next
  <2>4. CASE ReadCapped(s) \/ Dispatch(s)
    BY <1>0, <2>4, HiddenKeeps, Zenon
  <2>5. CASE EndOfInput(s)
    <3>1. pc[s]' \in {"gone", "handling"}
      BY <1>0, <2>5, EndFollows
    <3>2. CASE pc[s]' = "handling"
      BY <1>0, <2>5, <3>2, HiddenKeeps, Zenon
    <3>3. CASE pc[s]' = "gone"
      BY <1>0, <2>5, <3>3, EndKeeps, Zenon DEF Promise!Next
    <3> QED
      BY <3>1, <3>2, <3>3
  <2>6. CASE WriteReply(s)
    BY <1>0, <2>6, WriteKeeps, Zenon DEF Promise!Next
  <2> QED
    BY <1>2, <2>1, <2>2, <2>3, <2>4, <2>5, <2>6 DEF SessionStep, ServerStep
<1> QED
  BY <1>1, <1>2 DEF McpNext, SessionStep

(* For any servers, lines, line limit and chunks, and however processes    *)
(* start, race for the schema, are hung up on or end: each client gets the *)
(* replies its lines deserve, in order, none twice and none left out, and  *)
(* a process ends only when nobody reads or everything is answered         *)
(* (mcp.rs: run_stdio, read_capped_line, handle_value, write_value).       *)
THEOREM SessionsKeepPromise == McpSpec => Promise!SafeSpec
<1>1. McpInit => Promise!Init
  <2> SUFFICES ASSUME McpInit PROVE Promise!Init
    OBVIOUS
  <2>1. Conditions = [s \in Servers |-> "starting"]
    BY DEF McpInit, Conditions, Condition
  <2> QED
    BY <2>1 DEF McpInit, Promise!Init, Conditions
<1>2. SessionInv /\ [McpNext]_mcpVars => [Promise!Next]_Promise!vars
  BY StepKeeps
<1> QED
  BY <1>1, <1>2, SessionsFramed, PTL DEF McpSpec, Promise!SafeSpec

=============================================================================
