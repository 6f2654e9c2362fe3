------------------------------ MODULE McpServer ------------------------------
(***************************************************************************)
(* `memoryd mcp` processes over one database (mcp.rs): each opens the      *)
(* store, migrating its schema, then reads newline-delimited requests from *)
(* stdin through a bounded buffer, answers on stdout, and ends when the    *)
(* client closes its side.                                                 *)
(*                                                                         *)
(* A line is its kind followed by padding, so that a line cut short, glued *)
(* to another or read past its end decodes to something else.              *)
(***************************************************************************)
EXTENDS Integers, FiniteSets, Sequences, SequencesExt

CONSTANTS
    Servers,        \* processes, each with a client of its own
    Messages,       \* kinds of lines the clients send
    MaxLines,       \* bound: lines each client sends
    MaxLine,        \* MAX_MCP_LINE_BYTES
    ChunkMax,       \* bytes one read of the pipe returns at most
    QueueDepth,     \* caps.queue_depth_max
    OldRelease      \* name of whoever stored events before the first index

ASSUME McpAssumption ==
    /\ MaxLines \in [Servers -> Nat]
    /\ MaxLine \in Nat \ {0}
    /\ ChunkMax \in Nat \ {0}
    /\ QueueDepth \in Nat
    /\ OldRelease \notin Servers

VARIABLES
    schema,         \* the latest version in schema_migrations, 0 in a new file
    events,         \* raw_events: who stored it, its index rows, its embed job
    pc,             \* where each process is
    seen,           \* the schema the snapshot of an opening process shows
    pipe,           \* written to stdin and not yet read
    chunk,          \* read and not yet consumed
    buf,            \* the line so far
    over,           \* whether it has outgrown MaxLine
    initialized,    \* whether the client has sent notifications/initialized
    reply,          \* the reply being written
    sent,           \* history: the lines of each client
    out,            \* the replies each client has read
    closed,         \* clients that write no more
    hungUp          \* clients that read no more

database == <<schema, events>>
reader == <<pipe, chunk, buf, over>>
client == <<sent, closed, hungUp>>
mcpVars == <<database, pc, seen, reader, initialized, reply, out, client>>

-----------------------------------------------------------------------------
(* Messages, their bytes and their replies.                                *)

Kinds == {"blank", "ready", "notice", "long", "junk", "ping", "list", "tool",
          "resource", "remember"}

ASSUME MessagesAssumption == Messages \subseteq Kinds

\* Lines of the greatest allowed length and one byte more are among them.
Size(m) ==
    IF m = "blank" THEN 0
    ELSE IF m = "remember" THEN MaxLine
    ELSE IF m = "long" THEN MaxLine + 1 ELSE 1

Encode(m) == [i \in 1..Size(m) |-> IF i = 1 THEN m ELSE "pad"]

Decode(bytes) ==
    IF \E m \in Kinds : bytes = Encode(m)
    THEN CHOOSE m \in Kinds : bytes = Encode(m) ELSE "junk"

(* Blank lines and messages without an id.                                 *)
Silent == {"blank", "ready", "notice"}

Ungated == [long |-> {"limit"}, junk |-> {"parse error"}, ping |-> {"result"}]

(* Recall, stats, graph and profile calls only read the store; they fail   *)
(* on their arguments, on what they look for, or on the store.             *)
ToolReplies == {"result", "error"}
ResourceReplies == {"result", "error"}
RememberReplies == {"stored", "degraded", "error"}

Gated == [list |-> {"result"}, tool |-> ToolReplies, resource |-> ResourceReplies,
          remember |-> RememberReplies]

Replies(m, ready) ==
    IF m \in DOMAIN Ungated THEN Ungated[m]
    ELSE IF ready THEN Gated[m] ELSE {"not initialized"}

-----------------------------------------------------------------------------
Latest == 2     \* the versions after 0002_raw_event_fts do not touch events

Indexed(e) == [e EXCEPT !.indexed = @ + 1]

Event(s, job) == [by |-> s, indexed |-> 1, job |-> job]
OldEvent == [by |-> OldRelease, indexed |-> 0, job |-> TRUE]

(* The database is new, written by a release before the index, or current. *)
McpInit ==
    /\ \/ schema \in {0, Latest} /\ events = <<>>
       \/ schema = 1 /\ events = <<OldEvent>>
    /\ pc = [s \in Servers |-> "down"]
    /\ seen = [s \in Servers |-> 0]
    /\ pipe = [s \in Servers |-> <<>>]
    /\ chunk = [s \in Servers |-> <<>>]
    /\ buf = [s \in Servers |-> <<>>]
    /\ over = [s \in Servers |-> FALSE]
    /\ initialized = [s \in Servers |-> FALSE]
    /\ reply = [s \in Servers |-> "none"]
    /\ sent = [s \in Servers |-> <<>>]
    /\ out = [s \in Servers |-> <<>>]
    /\ closed = [s \in Servers |-> FALSE]
    /\ hungUp = [s \in Servers |-> FALSE]

-----------------------------------------------------------------------------
(* Clients.                                                                *)
(* The last line of a session may lack its newline.                        *)
Speak(s) ==
    /\ ~closed[s]
    /\ pc[s] # "gone"
    /\ Len(sent[s]) < MaxLines[s]
    /\ \E m \in Messages, last \in BOOLEAN :
          /\ m = "blank" => ~last
          /\ sent' = [sent EXCEPT ![s] = Append(@, m)]
          /\ closed' = [closed EXCEPT ![s] = last]
          /\ pipe' = [pipe EXCEPT
                ![s] = @ \o Encode(m) \o IF last THEN <<>> ELSE <<"newline">>]
    /\ UNCHANGED <<database, pc, seen, chunk, buf, over, initialized, reply, out, hungUp>>

Close(s) ==
    /\ ~closed[s]
    /\ closed' = [closed EXCEPT ![s] = TRUE]
    /\ UNCHANGED <<database, pc, seen, reader, initialized, reply, out, sent, hungUp>>

HangUp(s) ==
    /\ ~hungUp[s]
    /\ closed' = [closed EXCEPT ![s] = TRUE]
    /\ hungUp' = [hungUp EXCEPT ![s] = TRUE]
    /\ UNCHANGED <<database, pc, seen, reader, initialized, reply, out, sent>>

-----------------------------------------------------------------------------
(* Opening the store.                                                      *)
Goto(s, place) == pc' = [pc EXCEPT ![s] = place]

(* The first statement of migrate: on a new file it writes, and the whole  *)
(* transaction runs under the write lock; otherwise it takes a snapshot.   *)
Open(s) ==
    /\ pc[s] = "down"
    /\ \/ /\ schema = 0
          /\ schema' = Latest
          /\ Goto(s, "reading")
          /\ UNCHANGED seen
       \/ /\ schema # 0
          /\ seen' = [seen EXCEPT ![s] = schema]
          /\ Goto(s, "opening")
          /\ UNCHANGED schema
    /\ UNCHANGED <<events, reader, initialized, reply, out, client>>

\* Mutant of Backfilled: events stored before the index are not indexed.
BackfilledNone == events

Backfilled == [i \in DOMAIN events |-> Indexed(events[i])]

(* The missing versions in one transaction. SQLite refuses the upgrade of  *)
(* a snapshot that another process has overtaken, and the open fails.      *)
Migrate(s) ==
    /\ pc[s] = "opening"
    /\ \/ /\ seen[s] = Latest
          /\ Goto(s, "reading")
          /\ UNCHANGED database
       \/ /\ seen[s] < Latest /\ schema = seen[s]
          /\ schema' = Latest
          /\ events' = Backfilled
          /\ Goto(s, "reading")
       \/ /\ seen[s] < Latest /\ schema # seen[s]
          /\ Goto(s, "gone")
          /\ UNCHANGED database
    /\ UNCHANGED <<seen, reader, initialized, reply, out, client>>

-----------------------------------------------------------------------------
(* The request loop.                                                       *)

NewlineAt(bytes) == SelectInSeq(bytes, LAMBDA b : b = "newline")

(* fill_buf: what is left of the last read or, when nothing is left, some  *)
(* of what the pipe holds.                                                 *)
Available(s, n) ==
    IF chunk[s] # <<>> THEN chunk[s] ELSE SubSeq(pipe[s], 1, n)

IsRead(s, n) == IF chunk[s] # <<>> THEN n = 0 ELSE n \in 1..ChunkMax /\ n <= Len(pipe[s])

Outgrows(s, bytes, part) == Len(buf[s]) + Len(part) > MaxLine

\* Mutant of Rest: what follows the newline in the chunk is dropped.
RestDropped(bytes) == <<>>

Rest(bytes) ==
    IF NewlineAt(bytes) = 0 THEN <<>> ELSE SubSeq(bytes, NewlineAt(bytes) + 1, Len(bytes))

Part(bytes) ==
    IF NewlineAt(bytes) = 0 THEN bytes ELSE SubSeq(bytes, 1, NewlineAt(bytes) - 1)

(* One round of read_capped_line: up to the newline, or the whole chunk. A *)
(* line that has outgrown the limit is drained without being kept.         *)
ReadCapped(s) ==
    /\ pc[s] = "reading"
    /\ \E n \in 0..ChunkMax :
          LET bytes == Available(s, n)
              isOver == over[s] \/ Outgrows(s, bytes, Part(bytes))
          IN  /\ IsRead(s, n)
              /\ pipe' = [pipe EXCEPT ![s] = SubSeq(@, n + 1, Len(@))]
              /\ over' = [over EXCEPT ![s] = isOver]
              /\ buf' = [buf EXCEPT ![s] = IF isOver THEN <<>> ELSE @ \o Part(bytes)]
              /\ chunk' = [chunk EXCEPT ![s] = Rest(bytes)]
              /\ IF NewlineAt(bytes) = 0 THEN UNCHANGED pc ELSE Goto(s, "handling")
    /\ UNCHANGED <<database, seen, initialized, reply, out, client>>

(* End of input: a last line without newline is handled, and then the loop *)
(* ends.                                                                   *)
EndOfInput(s) ==
    /\ pc[s] = "reading"
    /\ chunk[s] = <<>> /\ pipe[s] = <<>> /\ closed[s]
    /\ Goto(s, IF buf[s] = <<>> /\ ~over[s] THEN "gone" ELSE "handling")
    /\ UNCHANGED <<database, seen, reader, initialized, reply, out, client>>

HasRoom == Cardinality({i \in DOMAIN events : events[i].job}) < QueueDepth

(* memory_remember captures in one transaction, with a job if there is     *)
(* room; every other request leaves the database alone.                    *)
Effect(s, r) ==
    IF r \in {"stored", "degraded"}
    THEN /\ HasRoom <=> r = "stored"
         /\ events' = Append(events, Event(s, HasRoom))
    ELSE UNCHANGED events

Line(s) == IF over[s] THEN "long" ELSE Decode(buf[s])

\* Mutant of Initialises: any notification opens the session.
InitialisesAny(m) == m \in Silent

Initialises(m) == m = "ready"

(* A message is routed and executed before its reply is written.           *)
Dispatch(s) ==
    /\ pc[s] = "handling"
    /\ \/ /\ Line(s) \in Silent
          /\ initialized' = [initialized EXCEPT ![s] = @ \/ Initialises(Line(s))]
          /\ Goto(s, "reading")
          /\ UNCHANGED <<events, reply>>
       \/ /\ Line(s) \notin Silent
          /\ \E r \in Replies(Line(s), initialized[s]) :
                /\ Effect(s, r)
                /\ reply' = [reply EXCEPT ![s] = r]
          /\ Goto(s, "replying")
          /\ UNCHANGED initialized
    /\ buf' = [buf EXCEPT ![s] = <<>>]
    /\ over' = [over EXCEPT ![s] = FALSE]
    /\ UNCHANGED <<schema, seen, pipe, chunk, out, client>>

(* write_all and flush; a client that has hung up ends the process.        *)
WriteReply(s) ==
    /\ pc[s] = "replying"
    /\ \/ /\ ~hungUp[s]
          /\ out' = [out EXCEPT ![s] = Append(@, reply[s])]
          /\ reply' = [reply EXCEPT ![s] = "none"]
          /\ Goto(s, "reading")
       \/ /\ hungUp[s]
          /\ Goto(s, "gone")
          /\ UNCHANGED <<out, reply>>
    /\ UNCHANGED <<database, seen, reader, initialized, client>>

-----------------------------------------------------------------------------
ServerStep(s) ==
    \/ Open(s)
    \/ Migrate(s)
    \/ ReadCapped(s)
    \/ EndOfInput(s)
    \/ Dispatch(s)
    \/ WriteReply(s)

McpNext == \E s \in Servers : Speak(s) \/ Close(s) \/ HangUp(s) \/ ServerStep(s)

McpSpec == McpInit /\ [][McpNext]_mcpVars

(* A process runs whenever it has input; clients owe nothing.              *)
McpFairSpec == McpSpec /\ \A s \in Servers : WF_mcpVars(ServerStep(s))

-----------------------------------------------------------------------------
Places == {"down", "opening", "reading", "handling", "replying", "gone"}
Row == [by : Servers \cup {OldRelease}, indexed : Nat, job : BOOLEAN]
Bytes == Kinds \cup {"pad", "newline"}
ReplyKinds == {"limit", "parse error", "result", "error", "stored", "degraded",
               "not initialized", "none"}

(* No more than MaxLine bytes of a line are ever held (mcp.rs:87-90), and  *)
(* a reply is held only until it is written.                               *)
McpTypeOK ==
    /\ schema \in 0..Latest
    /\ events \in Seq(Row)
    /\ pc \in [Servers -> Places]
    /\ seen \in [Servers -> 0..Latest]
    /\ pipe \in [Servers -> Seq(Bytes)]
    /\ chunk \in [Servers -> Seq(Bytes)]
    /\ buf \in [Servers -> Seq(Bytes)]
    /\ over \in [Servers -> BOOLEAN]
    /\ initialized \in [Servers -> BOOLEAN]
    /\ reply \in [Servers -> ReplyKinds]
    /\ out \in [Servers -> Seq(ReplyKinds)]
    /\ \A s \in Servers :
          /\ Len(buf[s]) <= MaxLine
          /\ Len(chunk[s]) <= ChunkMax
          /\ over[s] => buf[s] = <<>>
          /\ reply[s] # "none" => pc[s] \in {"replying", "gone"}

-----------------------------------------------------------------------------
IsAck(r) == r \in {"stored", "degraded"}

EventsOf(s) == {i \in DOMAIN events : events[i].by = s}
JobsOf(s) == {i \in EventsOf(s) : events[i].job}

(* The replies a client has read, and the one it could not be given yet.   *)
Told(s) == Append(out[s], reply[s])
Acks(s) == {i \in DOMAIN Told(s) : IsAck(Told(s)[i])}
Promised(s) == {i \in DOMAIN Told(s) : Told(s)[i] = "stored"}

(* What the store holds is what the clients were told: an event of a       *)
(* client for each acknowledgement it read or could not be given, a job    *)
(* for each "stored", and once the schema is current, one index row for    *)
(* every event, those of earlier releases included.                        *)
StoreMatchesReplies ==
    /\ \A s \in Servers :
          /\ Cardinality(EventsOf(s)) = Cardinality(Acks(s))
          /\ Cardinality(JobsOf(s)) = Cardinality(Promised(s))
    /\ schema = Latest => \A i \in DOMAIN events : events[i].indexed = 1

(* The inductive part about the schema: nobody serves requests before it   *)
(* is current, no snapshot is ahead of it, and an older one has no index.  *)
SchemaSound ==
    /\ \A s \in Servers :
          /\ pc[s] \in {"reading", "handling", "replying"} => schema = Latest
          /\ pc[s] = "opening" => seen[s] <= schema
    /\ schema = 0 => events = <<>>
    /\ schema # Latest => \A i \in DOMAIN events : events[i].indexed = 0

StoreInv == McpTypeOK /\ SchemaSound /\ StoreMatchesReplies

Condition(s) ==
    IF pc[s] \in {"down", "opening"} THEN "starting"
    ELSE IF pc[s] = "gone" THEN "gone" ELSE "up"

Promise == INSTANCE McpPromise WITH condition <- [s \in Servers |-> Condition(s)]

(* Each client gets the replies its lines deserve, in order and without    *)
(* gap, however its bytes arrive; before the client has sent               *)
(* notifications/initialized only protocol errors and ping answers, and a  *)
(* closed session ends.                                                    *)
KeepsPromise == Promise!Spec

=============================================================================
