----------------------------- MODULE McpPromise -----------------------------
(***************************************************************************)
(* What an MCP server promises to the client at the other end of its       *)
(* pipes, with bytes, buffers, schema and store left out: the lines of a   *)
(* session are answered in order, each by one reply that its kind and the  *)
(* lines before it allow, and silence where no reply is due.               *)
(***************************************************************************)
EXTENDS Integers, FiniteSets, Sequences

CONSTANTS
    Servers,            \* server processes, one client each
    Messages,           \* kinds of lines
    Silent,             \* lines that get no reply
    Replies(_, _)       \* replies to a line, before and after initialisation

VARIABLES
    sent,       \* the lines of each client
    out,        \* the replies each client has read
    condition,  \* "starting", "up" or "gone"
    closed,     \* clients that write no more
    hungUp      \* clients that read no more

vars == <<sent, out, condition, closed, hungUp>>

IsRequest(m) == m \notin Silent

Requests(s, n) == {i \in 1..n : IsRequest(sent[s][i])}

Answered(s) == Len(out[s]) = Cardinality(Requests(s, Len(sent[s])))

(* The line the next reply is about: as many requests precede it as have   *)
(* been answered.                                                          *)
IsNextRequest(s, i) ==
    /\ i \in DOMAIN sent[s]
    /\ IsRequest(sent[s][i])
    /\ Len(out[s]) = Cardinality(Requests(s, i - 1))

Initialised(s, i) == \E j \in 1..(i - 1) : sent[s][j] = "ready"

-----------------------------------------------------------------------------
Init ==
    /\ sent = [s \in Servers |-> <<>>]
    /\ out = [s \in Servers |-> <<>>]
    /\ condition = [s \in Servers |-> "starting"]
    /\ closed = [s \in Servers |-> FALSE]
    /\ hungUp = [s \in Servers |-> FALSE]

Speak(s) ==
    /\ ~closed[s]
    /\ \E m \in Messages, last \in BOOLEAN :
          /\ sent' = [sent EXCEPT ![s] = Append(@, m)]
          /\ closed' = [closed EXCEPT ![s] = last]
    /\ UNCHANGED <<out, condition, hungUp>>

Close(s) ==
    /\ closed' = [closed EXCEPT ![s] = TRUE]
    /\ UNCHANGED <<sent, out, condition, hungUp>>

HangUp(s) ==
    /\ closed' = [closed EXCEPT ![s] = TRUE]
    /\ hungUp' = [hungUp EXCEPT ![s] = TRUE]
    /\ UNCHANGED <<sent, out, condition>>

Start(s) ==
    /\ condition[s] = "starting"
    /\ \E c \in {"up", "gone"} : condition' = [condition EXCEPT ![s] = c]
    /\ UNCHANGED <<sent, out, closed, hungUp>>

Answer(s) ==
    /\ condition[s] = "up"
    /\ \E i \in DOMAIN sent[s] :
          /\ IsNextRequest(s, i)
          /\ \E r \in Replies(sent[s][i], Initialised(s, i)) :
                out' = [out EXCEPT ![s] = Append(@, r)]
    /\ UNCHANGED <<sent, condition, closed, hungUp>>

(* A server ends when nobody reads its replies, or when everything has     *)
(* been answered and nothing more will come.                               *)
Leave(s) ==
    /\ condition[s] = "up"
    /\ hungUp[s] \/ (closed[s] /\ Answered(s))
    /\ condition' = [condition EXCEPT ![s] = "gone"]
    /\ UNCHANGED <<sent, out, closed, hungUp>>

Next ==
    \E s \in Servers :
        Speak(s) \/ Close(s) \/ HangUp(s) \/ Start(s) \/ Answer(s) \/ Leave(s)

SafeSpec == Init /\ [][Next]_vars

(* Every request is answered and a closed session ends.                    *)
Spec ==
    /\ SafeSpec
    /\ \A s \in Servers :
          /\ WF_vars(Start(s))
          /\ WF_vars(Answer(s) \/ Leave(s))

=============================================================================
