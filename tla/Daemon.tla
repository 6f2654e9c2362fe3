------------------------------- MODULE Daemon -------------------------------
(***************************************************************************)
(* The threads of memoryd serve (main.rs, writer.rs): the accept loop on   *)
(* the main thread, one thread per HTTP connection, the single writer that *)
(* owns the only mutable store behind a channel, the embed worker and the  *)
(* dream thread, from start to the end of an orderly shutdown.             *)
(*                                                                         *)
(* A job sent to the writer is named by the caller that sent it: every     *)
(* caller blocks until its job was answered, so it has one at a time. What *)
(* a job does to the store is modelled in EmbedQueue; here it commits,     *)
(* fails or panics.                                                        *)
(***************************************************************************)
EXTENDS Integers, FiniteSets, Sequences

CONSTANTS
    Conns,              \* bound: connections open at a time, closed ones recur
    Worker,             \* the embed worker, as a caller of the writer
    MaxConnections,     \* MAX_CONCURRENT_CONNECTIONS
    Concurrency         \* caps.worker_concurrency: jobs leased per tick

ASSUME CallersAssumption == IsFiniteSet(Conns) /\ Worker \notin Conns

ASSUME LimitsAssumption == MaxConnections \in Nat /\ Concurrency \in Nat

VARIABLES
    shutdown,       \* the flag SIGTERM and SIGINT set
    main,           \* where the main thread is
    backlog,        \* connections the kernel holds for accept
    conn,           \* where each connection is
    answer,         \* what its thread decided to answer
    active,         \* the active-connection counter
    queue,          \* the writer's channel: callers of the jobs sent
    outcome,        \* what became of a caller's job
    writer,         \* the writer thread
    worker,         \* the embed worker thread
    left,           \* jobs the worker's tick still has to send
    dream           \* the dream thread

vars == <<shutdown, main, backlog, conn, answer, active, queue, outcome,
          writer, worker, left, dream>>

-----------------------------------------------------------------------------
Callers == Conns \cup {Worker}

Listening == {"accepting", "draining"}
Joining == {"joining worker", "joining dream", "joining writer"}
Threads == {c \in Conns : conn[c] \in {"admitted", "waiting", "replying"}}

Init ==
    /\ shutdown = FALSE
    /\ main = "accepting"
    /\ backlog = <<>>
    /\ conn = [c \in Conns |-> "none"]
    /\ answer = [c \in Conns |-> "none"]
    /\ active = 0
    /\ queue = <<>>
    /\ outcome = [c \in Callers |-> "none"]
    /\ writer = "running"
    /\ worker = "checking"
    /\ left = 0
    /\ dream \in {"sleeping", "exited"}   \* exited if its store does not open

Signal ==
    /\ ~shutdown
    /\ main # "exited"
    /\ shutdown' = TRUE
    /\ UNCHANGED <<main, backlog, conn, answer, active, queue, outcome, writer,
                   worker, left, dream>>

Connect(c) ==
    /\ main \in Listening
    /\ conn[c] = "none"
    /\ conn' = [conn EXCEPT ![c] = "backlog"]
    /\ backlog' = Append(backlog, c)
    /\ UNCHANGED <<shutdown, main, answer, active, queue, outcome, writer,
                   worker, left, dream>>

-----------------------------------------------------------------------------
(* The accept loop reads the flag, then polls the listener once; a signal  *)
(* between the two is one right after the poll.                            *)
CheckShutdown ==
    /\ main = "accepting"
    /\ shutdown
    /\ main' = "draining"
    /\ UNCHANGED <<shutdown, backlog, conn, answer, active, queue, outcome,
                   writer, worker, left, dream>>

Full == active >= MaxConnections

Accepted(c) ==
    /\ backlog # <<>>
    /\ c = Head(backlog)
    /\ backlog' = Tail(backlog)

Admit(c) ==
    /\ ~Full
    /\ conn' = [conn EXCEPT ![c] = "admitted"]
    /\ active' = active + 1

(* A peer past the maximum is told so by the accept loop itself, and a     *)
(* socket that cannot be made blocking is dropped.                         *)
Turn(c) ==
    /\ conn' = [conn EXCEPT ![c] = "none"]
    /\ UNCHANGED active

AcceptConnection ==
    /\ main = "accepting"
    /\ ~shutdown
    /\ \E c \in Conns :
          /\ Accepted(c)
          /\ Admit(c) \/ Turn(c)
    /\ UNCHANGED <<shutdown, main, answer, queue, outcome, writer, worker, left,
                   dream>>

(* serve_loop returns and closes the listener: connections still in the    *)
(* backlog are reset.                                                      *)
LeaveLoop ==
    /\ main' = "joining worker"
    /\ backlog' = <<>>
    /\ conn' = [c \in Conns |-> IF conn[c] = "backlog" THEN "none" ELSE conn[c]]
    /\ UNCHANGED <<shutdown, answer, active, queue, outcome, writer, worker, left, dream>>

AcceptFails == main = "accepting" /\ LeaveLoop

(* Every connection is gone, or the drain deadline has passed.             *)
Drained == main = "draining" /\ active = 0 /\ LeaveLoop
DrainDeadline == main = "draining" /\ active > 0 /\ LeaveLoop

-----------------------------------------------------------------------------
(* The writer's channel.                                                   *)
Send(caller) == queue' = Append(queue, caller)

\* Mutant of ReplyReady: a panicking job leaks its reply sender.
ReplyLeaked(caller) == outcome[caller] \in {"committed", "failed"}

(* A reply arrived, or the reply channel was dropped, with the job that    *)
(* panicked or with the channel of a writer that is gone.                  *)
ReplyReady(caller) == outcome[caller] # "none" \/ writer = "exited"

\* Mutant of AfterPanic: the panic ends the writer thread.
AfterPanicDies == "exited"

AfterPanic == "running"

RunJob ==
    /\ writer = "running"
    /\ queue # <<>>
    /\ queue' = Tail(queue)
    /\ \/ /\ \E o \in {"committed", "failed"} :
                outcome' = [outcome EXCEPT ![Head(queue)] = o]
          /\ UNCHANGED writer
       \/ /\ outcome' = [outcome EXCEPT ![Head(queue)] = "panicked"]
          /\ writer' = AfterPanic
    /\ UNCHANGED <<shutdown, main, backlog, conn, answer, active, worker, left, dream>>

\* Mutants of Handles: threads share the main thread's handle; the main
\* thread keeps its handle while it joins the writer.
HandlesShared ==
    (IF main \in Listening \cup (Joining \ {"joining writer"}) THEN {"main"} ELSE {})
        \cup (IF worker # "exited" THEN {Worker} ELSE {})
HandlesKept ==
    {"main"} \cup Threads \cup (IF worker # "exited" THEN {Worker} ELSE {})

(* The holders of a WriterHandle.                                          *)
Handles ==
    (IF main \in Listening \cup (Joining \ {"joining writer"}) THEN {"main"} ELSE {})
        \cup Threads \cup (IF worker # "exited" THEN {Worker} ELSE {})

WriterExits ==
    /\ writer = "running"
    /\ queue = <<>>
    /\ Handles = {}
    /\ writer' = "exited"
    /\ UNCHANGED <<shutdown, main, backlog, conn, answer, active, queue, outcome,
                   worker, left, dream>>

-----------------------------------------------------------------------------
(* A connection's thread.                                                  *)

(* Everything answered without the writer: recall and health, a throttled  *)
(* peer, a malformed or late request, a store that does not open.          *)
AnswerDirectly(c) ==
    /\ conn[c] = "admitted"
    /\ conn' = [conn EXCEPT ![c] = "replying"]
    /\ answer' = [answer EXCEPT ![c] = "direct"]
    /\ UNCHANGED <<shutdown, main, backlog, active, queue, outcome, writer,
                   worker, left, dream>>

(* A capture, or the audit row of a rejected one.                          *)
SubmitJob(c) ==
    /\ conn[c] = "admitted"
    /\ conn' = [conn EXCEPT ![c] = "waiting"]
    /\ Send(c)
    /\ UNCHANGED <<shutdown, main, backlog, answer, active, outcome, writer,
                   worker, left, dream>>

(* 202 or 401 once the row is committed, 500 otherwise.                    *)
AnswerJob(c) ==
    /\ conn[c] = "waiting"
    /\ ReplyReady(c)
    /\ conn' = [conn EXCEPT ![c] = "replying"]
    /\ answer' = [answer EXCEPT ![c] =
          IF outcome[c] = "committed" THEN "recorded" ELSE "store error"]
    /\ UNCHANGED <<shutdown, main, backlog, active, queue, outcome, writer,
                   worker, left, dream>>

Release == active' = active - 1

(* The thread ends: its answer was written or its client is gone, or the   *)
(* handler panicked. The guard and the writer handle are dropped.          *)
EndConnection(c) ==
    /\ conn[c] \in {"admitted", "replying"}
    /\ conn' = [conn EXCEPT ![c] = "none"]
    /\ answer' = [answer EXCEPT ![c] = "none"]
    /\ outcome' = [outcome EXCEPT ![c] = "none"]
    /\ Release
    /\ UNCHANGED <<shutdown, main, backlog, queue, writer, worker, left, dream>>

ConnectionStep(c) ==
    \/ AnswerDirectly(c)
    \/ SubmitJob(c)
    \/ AnswerJob(c)
    \/ EndConnection(c)

-----------------------------------------------------------------------------
(* The embed worker: between two looks at the flag it runs one tick, the   *)
(* lease and one job for each lease. A job that fails ends the tick.       *)
WorkerCheck ==
    /\ worker = "checking"
    /\ \/ /\ shutdown
          /\ worker' = "exited"
          /\ UNCHANGED left
       \/ /\ ~shutdown
          /\ worker' = "ticking"
          /\ left' \in 1..(Concurrency + 1)
    /\ UNCHANGED <<shutdown, main, backlog, conn, answer, active, queue, outcome,
                   writer, dream>>

WorkerSubmit ==
    /\ worker = "ticking"
    /\ worker' = "waiting"
    /\ left' = left - 1
    /\ Send(Worker)
    /\ UNCHANGED <<shutdown, main, backlog, conn, answer, active, outcome, writer,
                   dream>>

WorkerReply ==
    /\ worker = "waiting"
    /\ ReplyReady(Worker)
    /\ \/ /\ outcome[Worker] = "committed" /\ left > 0
          /\ worker' = "ticking"
          /\ UNCHANGED left
       \/ /\ ~(outcome[Worker] = "committed" /\ left > 0)
          /\ worker' = "checking"
          /\ left' = 0
    /\ outcome' = [outcome EXCEPT ![Worker] = "none"]
    /\ UNCHANGED <<shutdown, main, backlog, conn, answer, active, queue, writer,
                   dream>>

WorkerStep == WorkerCheck \/ WorkerSubmit \/ WorkerReply

(* The dream thread: it looks at the flag between slices of its sleep, and *)
(* a pass that has begun is finished.                                      *)
DreamStep ==
    /\ \/ dream = "sleeping" /\ dream' = IF shutdown THEN "exited" ELSE "dreaming"
       \/ dream = "dreaming" /\ dream' = "sleeping"
    /\ UNCHANGED <<shutdown, main, backlog, conn, answer, active, queue, outcome,
                   writer, worker, left>>

-----------------------------------------------------------------------------
(* The main thread joins the others in this order; it drops its handle     *)
(* before it joins the writer.                                             *)
Join ==
    /\ \/ main = "joining worker" /\ worker = "exited" /\ main' = "joining dream"
       \/ main = "joining dream" /\ dream = "exited" /\ main' = "joining writer"
       \/ main = "joining writer" /\ writer = "exited" /\ main' = "exited"
    /\ UNCHANGED <<shutdown, backlog, conn, answer, active, queue, outcome, writer,
                   worker, left, dream>>

MainStep ==
    \/ CheckShutdown
    \/ AcceptConnection
    \/ Drained
    \/ DrainDeadline
    \/ Join

WriterStep == RunJob \/ WriterExits

Next ==
    \/ Signal
    \/ \E c \in Conns : Connect(c) \/ ConnectionStep(c)
    \/ MainStep
    \/ AcceptFails
    \/ WriterStep
    \/ WorkerStep
    \/ DreamStep

Spec == Init /\ [][Next]_vars

(* Every thread runs: sockets have timeouts, and jobs, ticks and dream     *)
(* passes return.                                                          *)
FairSpec ==
    /\ Spec
    /\ WF_vars(MainStep)
    /\ WF_vars(WriterStep)
    /\ WF_vars(WorkerStep)
    /\ WF_vars(DreamStep)
    /\ \A c \in Conns : WF_vars(ConnectionStep(c))

-----------------------------------------------------------------------------
ConnStates == {"none", "backlog", "admitted", "waiting", "replying"}
Answers == {"none", "direct", "recorded", "store error"}
Outcomes == {"none", "committed", "failed", "panicked"}

TypeOK ==
    /\ shutdown \in BOOLEAN
    /\ main \in Listening \cup Joining \cup {"exited"}
    /\ backlog \in Seq(Conns)
    /\ conn \in [Conns -> ConnStates]
    /\ answer \in [Conns -> Answers]
    /\ active \in 0..MaxConnections
    /\ active = Cardinality(Threads)
    /\ queue \in Seq(Callers)
    /\ outcome \in [Callers -> Outcomes]
    /\ writer \in {"running", "exited"}
    /\ worker \in {"checking", "ticking", "waiting", "exited"}
    /\ left \in 0..(Concurrency + 1)
    /\ dream \in {"sleeping", "dreaming", "exited"}

-----------------------------------------------------------------------------
(* A client is told 202 (or 401) only if its row is committed, and 500     *)
(* only if its own job failed or panicked: never because the job of        *)
(* another caller panicked or the daemon is going down.                    *)
AnswersTruthful ==
    \A c \in Conns :
        /\ answer[c] = "recorded" => outcome[c] = "committed"
        /\ answer[c] = "store error" => outcome[c] \in {"failed", "panicked"}

(* An orderly exit cuts no request: even past the drain deadline the       *)
(* daemon ends only when every admitted connection is finished and every   *)
(* job sent was run.                                                       *)
NoRequestCut ==
    main = "exited" => Threads = {} /\ queue = <<>> /\ worker = "exited"

(* Every connection is answered or closed, a caller whose job panics       *)
(* included.                                                               *)
EveryConnectionEnds ==
    \A c \in Conns :
        conn[c] # "none" ~> conn[c] = "none"

(* A signal ends the daemon: no thread waits for another for ever.         *)
ShutdownCompletes == shutdown ~> main = "exited"

(* "Last writer handle drops here; the actor drains its queue and exits"   *)
(* (main.rs:796): once serve_loop returned, the daemon ends.               *)
ServeReturns == main = "joining worker" ~> main = "exited"

=============================================================================
