-------------------------------- MODULE Http --------------------------------
(***************************************************************************)
(* The HTTP front end of memoryd serve (main.rs): what the thread of one   *)
(* connection does, from the look-up of its peer in the throttle to the    *)
(* record it makes there after its answer was written, with other threads  *)
(* between any two steps. Daemon models the threads themselves.            *)
(*                                                                         *)
(* Time is kept as ages: how long ago a window began or a failure was      *)
(* recorded, up to one past the longest period the code compares with, and *)
(* how long a lockout still lasts. The clock does not step back.           *)
(***************************************************************************)
EXTENDS Integers, Sequences, FiniteSets

CONSTANTS
    Conns,          \* bound: connections open at a time, closed ones recur
    Peers,          \* addresses
    Loopback,       \* the loopback addresses among them
    Limit,          \* AUTH_FAIL_LIMIT
    Window,         \* AUTH_FAIL_WINDOW_MS
    Lockout,        \* AUTH_LOCKOUT_MS
    NoPeer,         \* the peer of a closed connection
    MaxEntries      \* AUTH_THROTTLE_MAX_ENTRIES

ASSUME HttpPeersAssumption ==
    Loopback \subseteq Peers /\ NoPeer \notin Peers /\ IsFiniteSet(Peers)

ASSUME HttpLimitsAssumption ==
    /\ Limit \in Nat \ {0} /\ Window \in Nat /\ Lockout \in Nat
    /\ MaxEntries \in Nat \ {0}

VARIABLES
    token,      \* a bearer token is configured
    throttle,   \* the entries of AuthThrottle, by peer
    stage,      \* where the thread of each connection is
    peer,       \* its peer
    status,     \* the status it answers
    row,        \* the row its request committed
    valid,      \* its request carries the bearer token
    history     \* ages of the last recorded failures of each peer since its
                \* last success or lockout

conn == <<stage, peer, status, row, valid>>
vars == <<token, throttle, conn, history>>

-----------------------------------------------------------------------------
Age == 0..(IF Window > Lockout THEN Window + 1 ELSE Lockout + 1)
Older(age) == IF age + 1 \in Age THEN age + 1 ELSE age

FailState == [failures : 0..Limit, window : Age, lock : 0..Lockout, last : Age]
Entered == DOMAIN throttle
Lock(p) == IF p \in Entered THEN throttle[p].lock ELSE 0
IsThrottled(p) == Lock(p) > 0

(* Status codes; every other refusal of a request is refused.              *)
Success == {"200", "202"}
Codes == {"none", "401", "429", "refused", "500"} \cup Success
Stages == {"closed", "accepted", "reading", "auditing", "capturing", "recalling",
           "answering", "answered"}

Init ==
    /\ token \in BOOLEAN
    /\ throttle = [p \in {} |-> 0]
    /\ stage = [c \in Conns |-> "closed"]
    /\ peer = [c \in Conns |-> NoPeer]
    /\ status = [c \in Conns |-> "none"]
    /\ row = [c \in Conns |-> "none"]
    /\ valid = [c \in Conns |-> FALSE]
    /\ history = [p \in Peers |-> <<>>]

(* Time passes for every entry.                                            *)
Aged(e) == [failures |-> e.failures, window |-> Older(e.window),
            lock |-> IF e.lock > 0 THEN e.lock - 1 ELSE 0, last |-> Older(e.last)]

Tick ==
    /\ throttle' = [p \in Entered |-> Aged(throttle[p])]
    /\ history' = [p \in Peers |-> [i \in DOMAIN history[p] |-> Older(history[p][i])]]
    /\ UNCHANGED <<token, conn>>

-----------------------------------------------------------------------------
(* AuthThrottle.                                                           *)
LockedOrRecent(p) == throttle[p].lock > 0 \/ throttle[p].last <= Window

(* Expired entries go, and if none was, one with the oldest failure.       *)
Evicted(p) ==
    LET fresh == {q \in Entered : LockedOrRecent(q)}
        oldest == {q \in fresh : \A r \in fresh : throttle[q].last >= throttle[r].last}
    IN  IF p \in Entered \/ Cardinality(Entered) < MaxEntries THEN {Entered}
        ELSE IF Cardinality(fresh) < MaxEntries THEN {fresh}
        ELSE {fresh \ {q} : q \in oldest}

Fresh == [failures |-> 0, window |-> 0, lock |-> 0, last |-> 0]

\* Mutant of InWindow: the window never ends.
InWindowAlways(e) == e

(* The entry within its window, which begins again once it is over.        *)
InWindow(e) ==
    IF e.window > Window
    THEN [failures |-> 0, window |-> 0, lock |-> e.lock, last |-> e.last]
    ELSE e

Failed(e) ==
    IF e.failures + 1 >= Limit
    THEN [failures |-> 0, window |-> 0, lock |-> Lockout, last |-> 0]
    ELSE [e EXCEPT !.failures = @ + 1, !.last = 0]

Locks(e) == e.failures + 1 >= Limit

(* The last failures of the peer, this one included, as ages.              *)
Noted(p) == LET all == Append(history[p], 0)
            IN  IF Len(all) > Limit THEN Tail(all) ELSE all

RecordFailure(p) ==
    LET e == InWindow(IF p \in Entered THEN throttle[p] ELSE Fresh)
    IN  /\ \E kept \in Evicted(p) :
              throttle' = [q \in kept \cup {p} |-> IF q = p THEN Failed(e) ELSE throttle[q]]
        /\ history' = [history EXCEPT ![p] = IF Locks(e) THEN <<>> ELSE Noted(p)]

RecordSuccess(p) ==
    /\ throttle' = [q \in Entered \ {p} |-> throttle[q]]
    /\ history' = [history EXCEPT ![p] = <<>>]

-----------------------------------------------------------------------------
(* The thread of a connection.                                             *)
Goes(c, to) == stage' = [stage EXCEPT ![c] = to]
Answers(c, code) == Goes(c, "answering") /\ status' = [status EXCEPT ![c] = code]

Connect(c) ==
    /\ stage[c] = "closed"
    /\ Goes(c, "accepted")
    /\ \E p \in Peers : peer' = [peer EXCEPT ![c] = p]
    /\ UNCHANGED <<token, throttle, status, row, valid, history>>

(* A store that does not open is answered before anything else; a peer     *)
(* that is locked out is answered before its request is read.              *)
Admit(c) ==
    /\ stage[c] = "accepted"
    /\ \/ Answers(c, "500")
       \/ IsThrottled(peer[c]) /\ Answers(c, "429")
       \/ ~IsThrottled(peer[c]) /\ Goes(c, "reading") /\ UNCHANGED status
    /\ UNCHANGED <<token, throttle, peer, row, valid, history>>

(* The request is too long, malformed or late.                             *)
RejectUnread(c) ==
    /\ stage[c] = "reading"
    /\ Answers(c, "refused")
    /\ UNCHANGED <<token, throttle, peer, row, valid, history>>

(* Health needs no authorisation from a loopback peer.                     *)
Health(c) ==
    \E code \in {"200", "refused", "500"} : Answers(c, code)

IsAuthorized(p, v) == IF token THEN v ELSE p \in Loopback

(* An authorised request is refused by the first check it fails.           *)
Route(c) ==
    \/ \E code \in {"200", "refused", "500"} : Answers(c, code)
    \/ Goes(c, "capturing") /\ UNCHANGED status
    \/ Goes(c, "recalling") /\ UNCHANGED status

HandleRequest(c) ==
    /\ stage[c] = "reading"
    /\ \E v \in BOOLEAN : valid' = [valid EXCEPT ![c] = v]
    /\ \/ peer[c] \in Loopback /\ Health(c)
       \/ IsAuthorized(peer[c], valid'[c]) /\ Route(c)
       \/ /\ ~IsAuthorized(peer[c], valid'[c])
          /\ Goes(c, "auditing")
          /\ UNCHANGED status
    /\ UNCHANGED <<token, throttle, peer, row, history>>

(* The writer's replies. The row is there only if the job committed.       *)
Commits(c, kind) == row' = [row EXCEPT ![c] = kind]

\* Mutant of Unaudited: a rejection is answered as one although its row is lost.
UnauditedAnyway == "401"

Unaudited == "500"

Audit(c) ==
    /\ stage[c] = "auditing"
    /\ \/ Commits(c, "auth.reject") /\ Answers(c, "401")
       \/ Answers(c, Unaudited) /\ UNCHANGED row
    /\ UNCHANGED <<token, throttle, peer, valid, history>>

(* A body without the fields of its route is refused without a job.        *)
RefuseFields(c) ==
    /\ stage[c] \in {"capturing", "recalling"}
    /\ Answers(c, "refused")
    /\ UNCHANGED <<token, throttle, peer, row, valid, history>>

Capture(c) ==
    /\ stage[c] = "capturing"
    /\ \/ Commits(c, "raw_event") /\ Answers(c, "202")
       \/ \E code \in {"refused", "500"} : Answers(c, code) /\ UNCHANGED row
    /\ UNCHANGED <<token, throttle, peer, valid, history>>

Recall(c) ==
    /\ stage[c] = "recalling"
    /\ \E code \in {"200", "refused", "500"} : Answers(c, code)
    /\ UNCHANGED <<token, throttle, peer, row, valid, history>>

Forgets(c) ==
    /\ peer' = [peer EXCEPT ![c] = NoPeer]
    /\ status' = [status EXCEPT ![c] = "none"]
    /\ row' = [row EXCEPT ![c] = "none"]
    /\ valid' = [valid EXCEPT ![c] = FALSE]

(* An answer that cannot be written ends the thread, and the throttle does *)
(* not hear of it.                                                         *)
Write(c) ==
    /\ stage[c] = "answering"
    /\ \/ Goes(c, "answered") /\ UNCHANGED <<peer, status, row, valid>>
       \/ /\ Goes(c, "closed")
          /\ Forgets(c)
    /\ UNCHANGED <<token, throttle, history>>

CountsAsFailure(code) == code = "401"

Record(c) ==
    /\ stage[c] = "answered"
    /\ IF CountsAsFailure(status[c]) THEN RecordFailure(peer[c])
       ELSE IF status[c] \in Success THEN RecordSuccess(peer[c])
       ELSE UNCHANGED <<throttle, history>>
    /\ Goes(c, "closed")
    /\ Forgets(c)
    /\ UNCHANGED token

HandleConnection(c) ==
    \/ Admit(c)
    \/ RejectUnread(c)
    \/ HandleRequest(c)
    \/ Audit(c)
    \/ RefuseFields(c)
    \/ Capture(c)
    \/ Recall(c)
    \/ Write(c)
    \/ Record(c)

Next == Tick \/ \E c \in Conns : Connect(c) \/ HandleConnection(c)

Spec == Init /\ [][Next]_vars

-----------------------------------------------------------------------------
TypeOK ==
    /\ token \in BOOLEAN
    /\ Entered \subseteq Peers
    /\ \A p \in Entered : throttle[p] \in FailState
    /\ stage \in [Conns -> Stages]
    /\ peer \in [Conns -> Peers \cup {NoPeer}]
    /\ status \in [Conns -> Codes]
    /\ row \in [Conns -> {"none", "auth.reject", "raw_event"}]
    /\ valid \in [Conns -> BOOLEAN]
    /\ history \in [Peers -> Seq(Age)]

-----------------------------------------------------------------------------
(* An answer and the rows of its request agree: 401 has its audit row, 202 *)
(* its event, every other answer has neither; a request without the token  *)
(* leaves no event, nor without one a request from elsewhere.              *)
AnswersMatchRows ==
    \A c \in Conns : stage[c] \in {"answering", "answered"} =>
        /\ row[c] = "auth.reject" <=> status[c] = "401"
        /\ row[c] = "raw_event" <=> status[c] = "202"
        /\ status[c] = "202" => IF token THEN valid[c] ELSE peer[c] \in Loopback

(* AUTH_FAIL_LIMIT 401s within AUTH_FAIL_WINDOW_MS lock a peer out         *)
(* (main.rs, AuthThrottle), and nothing less: a lockout had that many      *)
(* recorded failures within one window, with no success of the peer and no *)
(* earlier lockout between, although requests of one peer overlap.         *)
LockoutEarned ==
    [][\A p \in Peers : Lock(p)' > Lock(p) =>
            Len(Noted(p)) = Limit /\ \A i \in 1..Limit : Noted(p)[i] <= Window]_vars

=============================================================================
