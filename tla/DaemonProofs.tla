---------------------------- MODULE DaemonProofs ----------------------------
(***************************************************************************)
(* Proofs about the threads of memoryd serve, for any number of            *)
(* connections, any connection maximum and any worker concurrency.         *)
(***************************************************************************)
EXTENDS Daemon, FiniteSetTheorems, TLAPS

-----------------------------------------------------------------------------
Typed ==
    /\ main \in Listening \cup Joining \cup {"exited"}
    /\ backlog \in Seq(Conns)
    /\ conn \in [Conns -> ConnStates]
    /\ answer \in [Conns -> Answers]
    /\ queue \in Seq(Callers)
    /\ outcome \in [Callers -> Outcomes]
    /\ writer \in {"running", "exited"}
    /\ worker \in {"checking", "ticking", "waiting", "exited"}
    /\ dream \in {"sleeping", "dreaming", "exited"}

(* The kernel holds each connection once.                                  *)
BacklogOnce ==
    /\ \A i \in 1..Len(backlog) : conn[backlog[i]] = "backlog"
    /\ \A i \in 1..Len(backlog), j \in 1..Len(backlog) : i # j => backlog[i] # backlog[j]

Waits(caller) ==
    IF caller = Worker THEN worker = "waiting" ELSE conn[caller] = "waiting"

(* A caller blocks until its job was run: it has no other in the channel   *)
(* and no outcome yet.                                                     *)
QueueOnce ==
    /\ \A i \in 1..Len(queue) : Waits(queue[i]) /\ outcome[queue[i]] = "none"
    /\ \A i \in 1..Len(queue), j \in 1..Len(queue) : i # j => queue[i] # queue[j]

(* What a caller knows of its job.                                         *)
Informed(c) ==
    /\ conn[c] \in {"none", "backlog", "admitted"} => outcome[c] = "none"
    /\ conn[c] # "replying" => answer[c] = "none"
    /\ answer[c] = "recorded" => outcome[c] = "committed"
    /\ answer[c] = "store error" => outcome[c] \in {"failed", "panicked"}

WorkerInformed == worker # "waiting" => outcome[Worker] = "none"

(* The writer outlives everyone who may wait for it.                       *)
WriterLast ==
    /\ writer = "exited" =>
          Threads = {} /\ queue = <<>> /\ worker = "exited" /\ main \in {"joining writer", "exited"}
    /\ main = "exited" => writer = "exited"

DaemonInv ==
    /\ Typed
    /\ BacklogOnce
    /\ QueueOnce
    /\ \A c \in Conns : Informed(c)
    /\ WorkerInformed
    /\ WriterLast

-----------------------------------------------------------------------------
LEMMA AppendType ==
    ASSUME NEW S, NEW s \in Seq(S), NEW e \in S
    PROVE  Append(s, e) \in Seq(S)
  OBVIOUS

LEMMA EmptyType ==
    ASSUME NEW S
    PROVE  <<>> \in Seq(S)
  OBVIOUS

LEMMA HeadTailType ==
    ASSUME NEW S, NEW s \in Seq(S), s # <<>>
    PROVE  Head(s) \in S /\ Tail(s) \in Seq(S)
  OBVIOUS

LEMMA CallersType ==
    Worker \in Callers /\ Worker \notin Conns /\ \A c \in Conns : c \in Callers /\ c # Worker
  BY CallersAssumption DEF Callers

LEMMA TypedStep ==
    ASSUME Typed, [Next]_vars
    PROVE  Typed'
<1> USE DEF Typed, Listening, Joining, ConnStates, Answers, Outcomes
<1>1. CASE Signal
  BY <1>1 DEF Signal
<1>2. ASSUME NEW c \in Conns, Connect(c) PROVE Typed'
  <2>1. backlog' = Append(backlog, c) /\ backlog \in Seq(Conns)
    BY <1>2 DEF Connect
  <2>2. backlog' \in Seq(Conns)
    BY <2>1, AppendType
  <2> QED
    BY <1>2, <2>2 DEF Connect
<1>3. ASSUME NEW c \in Conns, ConnectionStep(c) PROVE Typed'
  <2>1. CASE AnswerDirectly(c)
    BY <2>1 DEF AnswerDirectly
  <2>2. CASE SubmitJob(c)
    <3>1. queue' = Append(queue, c) /\ queue \in Seq(Callers)
      BY <2>2 DEF SubmitJob, Send
    <3>2. queue' \in Seq(Callers)
      BY <3>1, AppendType, CallersType
    <3> QED
      BY <2>2, <3>2 DEF SubmitJob
  <2>3. CASE AnswerJob(c)
    BY <2>3 DEF AnswerJob
  <2>4. CASE EndConnection(c)
    BY <2>4 DEF EndConnection
  <2> QED
    BY <1>3, <2>1, <2>2, <2>3, <2>4 DEF ConnectionStep
<1>4. CASE CheckShutdown
  BY <1>4 DEF CheckShutdown
<1>5. CASE AcceptConnection
  <2>1. PICK c \in Conns : Accepted(c) /\ (Admit(c) \/ Turn(c))
    BY <1>5 DEF AcceptConnection
  <2>2. backlog' \in Seq(Conns)
    <3>1. backlog # <<>> /\ backlog' = Tail(backlog) /\ backlog \in Seq(Conns)
      BY <2>1 DEF Accepted
    <3> QED
      BY <3>1, HeadTailType
  <2>3. conn' \in [Conns -> ConnStates]
    BY <2>1 DEF Admit, Turn
  <2> QED
    BY <1>5, <2>2, <2>3 DEF AcceptConnection
<1>6. CASE LeaveLoop
  <2>1. conn' \in [Conns -> ConnStates]
    BY <1>6 DEF LeaveLoop
  <2>2. backlog' \in Seq(Conns)
    BY <1>6, EmptyType DEF LeaveLoop
  <2> QED
    BY <1>6, <2>1, <2>2 DEF LeaveLoop
<1>7. CASE RunJob
  <2>1. Head(queue) \in Callers /\ Tail(queue) \in Seq(Callers)
    <3>1. queue # <<>> /\ queue \in Seq(Callers)
      BY <1>7 DEF RunJob
    <3> QED
      BY <3>1, HeadTailType
  <2>2. queue' = Tail(queue) /\ outcome' \in [Callers -> Outcomes]
    BY <1>7, <2>1 DEF RunJob
  <2>3. writer' \in {"running", "exited"}
    BY <1>7 DEF RunJob, AfterPanic
  <2> QED
    BY <1>7, <2>1, <2>2, <2>3 DEF RunJob
<1>8. CASE WriterExits
  BY <1>8 DEF WriterExits
<1>9. CASE WorkerStep
  <2>1. CASE WorkerCheck
    BY <2>1 DEF WorkerCheck
  <2>2. CASE WorkerSubmit
    <3>1. queue' = Append(queue, Worker) /\ queue \in Seq(Callers)
      BY <2>2 DEF WorkerSubmit, Send
    <3>2. queue' \in Seq(Callers)
      BY <3>1, AppendType, CallersType
    <3> QED
      BY <2>2, <3>2 DEF WorkerSubmit
  <2>3. CASE WorkerReply
    BY <2>3 DEF WorkerReply
  <2> QED
    BY <1>9, <2>1, <2>2, <2>3 DEF WorkerStep
<1>10. CASE DreamStep
  BY <1>10 DEF DreamStep
<1>11. CASE Join
  BY <1>11 DEF Join
<1>12. CASE UNCHANGED vars
  BY <1>12 DEF vars
<1> QED
  BY <1>1, <1>2, <1>3, <1>4, <1>5, <1>6, <1>7, <1>8, <1>9, <1>10, <1>11, <1>12
     DEF Next, MainStep, AcceptFails, Drained, DrainDeadline, WriterStep

(* What joins the end of a sequence without repetition, or leaves its head.*)
LEMMA AppendOnce ==
    ASSUME NEW S, NEW s \in Seq(S), NEW e \in S,
           \A i \in 1..Len(s) : s[i] # e,
           \A i \in 1..Len(s), j \in 1..Len(s) : i # j => s[i] # s[j]
    PROVE  /\ Len(Append(s, e)) = Len(s) + 1
           /\ \A i \in 1..Len(s) : Append(s, e)[i] = s[i]
           /\ Append(s, e)[Len(s) + 1] = e
           /\ \A i \in 1..Len(Append(s, e)), j \in 1..Len(Append(s, e)) :
                 i # j => Append(s, e)[i] # Append(s, e)[j]
<1>1. /\ Len(Append(s, e)) = Len(s) + 1 /\ Len(s) \in Nat
      /\ \A i \in 1..Len(s) : Append(s, e)[i] = s[i]
      /\ Append(s, e)[Len(s) + 1] = e
  OBVIOUS
<1>2. ASSUME NEW i \in 1..(Len(s) + 1), NEW j \in 1..(Len(s) + 1), i # j
      PROVE  Append(s, e)[i] # Append(s, e)[j]
  <2>1. CASE i \in 1..Len(s) /\ j \in 1..Len(s)
    BY <1>1, <1>2, <2>1
  <2>2. CASE i = Len(s) + 1 /\ j \in 1..Len(s)
    BY <1>1, <2>2
  <2>3. CASE i \in 1..Len(s) /\ j = Len(s) + 1
    BY <1>1, <2>3
  <2> QED
    BY <1>1, <1>2, <2>1, <2>2, <2>3
<1> QED
  BY <1>1, <1>2

LEMMA TailOnce ==
    ASSUME NEW S, NEW s \in Seq(S), s # <<>>,
           \A i \in 1..Len(s), j \in 1..Len(s) : i # j => s[i] # s[j]
    PROVE  /\ Head(s) = s[1] /\ 1 \in 1..Len(s) /\ Len(Tail(s)) = Len(s) - 1
           /\ \A i \in 1..Len(Tail(s)) :
                 i + 1 \in 1..Len(s) /\ Tail(s)[i] = s[i + 1] /\ Tail(s)[i] # Head(s)
           /\ \A i \in 1..Len(Tail(s)), j \in 1..Len(Tail(s)) : i # j => Tail(s)[i] # Tail(s)[j]
<1>1. /\ Head(s) = s[1] /\ Len(s) \in Nat /\ Len(s) > 0 /\ Len(Tail(s)) = Len(s) - 1
      /\ \A i \in 1..Len(Tail(s)) : Tail(s)[i] = s[i + 1]
  OBVIOUS
<1>2. \A i \in 1..Len(Tail(s)) : i + 1 \in 1..Len(s) /\ i + 1 # 1 /\ 1 \in 1..Len(s)
  BY <1>1
<1>3. \A i \in 1..Len(Tail(s)), j \in 1..Len(Tail(s)) : i # j => i + 1 # j + 1
  BY <1>1
<1> QED
  BY <1>1, <1>2, <1>3

-----------------------------------------------------------------------------
(* What the steps do to the connections.                                   *)
LEMMA AcceptFacts ==
    ASSUME Typed, BacklogOnce, AcceptConnection
    PROVE  \E c \in Conns :
              /\ conn[c] = "backlog" /\ conn'[c] \in {"admitted", "none"}
              /\ \A d \in Conns \ {c} : conn'[d] = conn[d]
              /\ backlog # <<>> /\ c = Head(backlog) /\ backlog' = Tail(backlog)
<1>1. PICK c \in Conns : Accepted(c) /\ (Admit(c) \/ Turn(c))
  BY DEF AcceptConnection
<1>2. conn[c] = "backlog"
  <2>1. backlog # <<>> /\ backlog \in Seq(Conns) /\ c = Head(backlog)
    BY <1>1 DEF Accepted, Typed
  <2>2. c = backlog[1] /\ 1 \in 1..Len(backlog)
    BY <2>1
  <2> QED
    BY <2>2 DEF BacklogOnce
<1> QED
  BY <1>1, <1>2 DEF Accepted, Admit, Turn, Typed

LEMMA BacklogStep ==
    ASSUME Typed, BacklogOnce, [Next]_vars
    PROVE  BacklogOnce'
<1>0. backlog \in Seq(Conns) /\ conn \in [Conns -> ConnStates]
  BY DEF Typed
<1>1. ASSUME NEW c \in Conns, Connect(c) PROVE BacklogOnce'
  <2>1. backlog' = Append(backlog, c) /\ conn[c] = "none" /\ conn' = [conn EXCEPT ![c] = "backlog"]
    BY <1>1 DEF Connect
  <2>2. \A i \in 1..Len(backlog) : backlog[i] # c /\ backlog[i] \in Conns
    BY <1>0, <2>1 DEF BacklogOnce
  <2>3. /\ Len(backlog') = Len(backlog) + 1 /\ Len(backlog) \in Nat
        /\ \A i \in 1..Len(backlog) : backlog'[i] = backlog[i]
        /\ backlog'[Len(backlog) + 1] = c
        /\ \A i \in 1..Len(backlog'), j \in 1..Len(backlog') : i # j => backlog'[i] # backlog'[j]
    BY <1>0, <2>1, <2>2, AppendOnce DEF BacklogOnce
  <2>4. ASSUME NEW i \in 1..Len(backlog')
        PROVE  conn'[backlog'[i]] = "backlog"
    <3>1. CASE i \in 1..Len(backlog)
      BY <1>0, <2>1, <2>2, <2>3, <3>1 DEF BacklogOnce
    <3>2. CASE i = Len(backlog) + 1
      BY <1>0, <2>1, <2>3, <3>2
    <3> QED
      BY <2>3, <3>1, <3>2
  <2> QED
    BY <2>3, <2>4 DEF BacklogOnce
<1>2. CASE AcceptConnection
  <2>1. PICK c \in Conns :
              /\ \A d \in Conns \ {c} : conn'[d] = conn[d]
              /\ backlog # <<>> /\ c = Head(backlog) /\ backlog' = Tail(backlog)
    BY <1>2, AcceptFacts
  <2>2. /\ \A i \in 1..Len(backlog') :
                 /\ i + 1 \in 1..Len(backlog) /\ backlog'[i] = backlog[i + 1]
                 /\ backlog'[i] # c
        /\ \A i \in 1..Len(backlog'), j \in 1..Len(backlog') : i # j => backlog'[i] # backlog'[j]
    <3>1. /\ backlog \in Seq(Conns) /\ backlog # <<>>
          /\ \A i \in 1..Len(backlog), j \in 1..Len(backlog) : i # j => backlog[i] # backlog[j]
      BY <1>0, <2>1 DEF BacklogOnce
    <3>2. /\ \A i \in 1..Len(Tail(backlog)) :
                 /\ i + 1 \in 1..Len(backlog) /\ Tail(backlog)[i] = backlog[i + 1]
                 /\ Tail(backlog)[i] # Head(backlog)
          /\ \A i \in 1..Len(Tail(backlog)), j \in 1..Len(Tail(backlog)) :
                 i # j => Tail(backlog)[i] # Tail(backlog)[j]
      BY <3>1, TailOnce
    <3> QED
      BY <2>1, <3>2
  <2>3. \A i \in 1..Len(backlog) : backlog[i] \in Conns
    BY <1>0
  <2> QED
    <3>1. \A i \in 1..Len(backlog) : conn[backlog[i]] = "backlog"
      BY DEF BacklogOnce
    <3>2. ASSUME NEW i \in 1..Len(backlog')
          PROVE  conn'[backlog'[i]] = "backlog"
      <4>1. i + 1 \in 1..Len(backlog) /\ backlog'[i] = backlog[i + 1] /\ backlog'[i] # c
        BY <2>2
      <4>2. backlog'[i] \in Conns \ {c} /\ conn[backlog'[i]] = "backlog"
        BY <2>3, <3>1, <4>1
      <4> QED
        BY <2>1, <4>2
    <3> QED
      BY <2>2, <3>2 DEF BacklogOnce
<1>3. CASE LeaveLoop
  <2>1. backlog' = <<>>
    BY <1>3 DEF LeaveLoop
  <2>2. Len(backlog') = 0
    BY <2>1
  <2>3. 1..Len(backlog') = {}
    BY <2>2
  <2> QED
    BY <2>3 DEF BacklogOnce
<1>4. ASSUME NEW c \in Conns, ConnectionStep(c) PROVE BacklogOnce'
  <2>1. conn[c] # "backlog" /\ backlog' = backlog
    BY <1>4 DEF ConnectionStep, AnswerDirectly, SubmitJob, AnswerJob, EndConnection
  <2>2. \A d \in Conns \ {c} : conn'[d] = conn[d]
    BY <1>0, <1>4 DEF ConnectionStep, AnswerDirectly, SubmitJob, AnswerJob, EndConnection
  <2>3. \A i \in 1..Len(backlog) : backlog[i] \in Conns \ {c}
    BY <1>0, <2>1 DEF BacklogOnce
  <2> QED
    BY <2>1, <2>2, <2>3 DEF BacklogOnce
<1>5. CASE UNCHANGED <<backlog, conn>>
  BY <1>5 DEF BacklogOnce
<1>6. CASE Signal \/ CheckShutdown \/ WriterStep \/ WorkerStep \/ DreamStep \/ Join
  BY <1>5, <1>6 DEF Signal, CheckShutdown, WriterStep, RunJob, WriterExits, WorkerStep,
                    WorkerCheck, WorkerSubmit, WorkerReply, DreamStep, Join
<1> QED
  BY <1>1, <1>2, <1>3, <1>4, <1>5, <1>6
     DEF Next, MainStep, AcceptFails, Drained, DrainDeadline, vars

-----------------------------------------------------------------------------
(* Who waits is waited for: the writer is there.                           *)
LEMMA WriterThere ==
    ASSUME DaemonInv, (\E c \in Conns : conn[c] \in {"admitted", "waiting", "replying"})
                      \/ worker # "exited" \/ queue # <<>>
    PROVE  writer = "running"
  BY DEF DaemonInv, WriterLast, Threads, Typed

(* The channel keeps who waits in it.                                      *)
LEMMA QueueSame ==
    ASSUME QueueOnce, queue \in Seq(Callers), queue' = queue,
           \A x \in Callers : Waits(x) /\ outcome[x] = "none" => Waits(x)' /\ outcome'[x] = "none"
    PROVE  QueueOnce'
<1>1. \A i \in 1..Len(queue) : queue[i] \in Callers
  OBVIOUS
<1> QED
  BY <1>1 DEF QueueOnce

LEMMA QueueAppend ==
    ASSUME QueueOnce, queue \in Seq(Callers), NEW c \in Callers, queue' = Append(queue, c),
           ~Waits(c), Waits(c)', outcome[c] = "none", outcome' = outcome,
           \A x \in Callers \ {c} : Waits(x) => Waits(x)'
    PROVE  QueueOnce'
<1>1. \A i \in 1..Len(queue) : queue[i] # c /\ queue[i] \in Callers
  BY DEF QueueOnce
<1>2. /\ Len(queue') = Len(queue) + 1 /\ Len(queue) \in Nat
      /\ \A i \in 1..Len(queue) : queue'[i] = queue[i]
      /\ queue'[Len(queue) + 1] = c
      /\ \A i \in 1..Len(queue'), j \in 1..Len(queue') : i # j => queue'[i] # queue'[j]
  BY <1>1, AppendOnce DEF QueueOnce
<1>3. ASSUME NEW i \in 1..Len(queue')
      PROVE  Waits(queue[i])' /\ outcome'[queue'[i]] = "none"
  <2>1. CASE i \in 1..Len(queue)
    <3>1. queue'[i] = queue[i] /\ queue[i] \in Callers \ {c}
      BY <1>1, <1>2, <2>1
    <3>2. Waits(queue[i]) /\ outcome[queue[i]] = "none"
      BY <2>1 DEF QueueOnce
    <3>3. \A x \in Callers \ {c} : Waits(x) => IF x = Worker THEN worker' = "waiting" ELSE conn'[x] = "waiting"
      BY DEF Waits
    <3> QED
      BY <3>1, <3>2, <3>3 DEF Waits
  <2>2. CASE i = Len(queue) + 1
    BY <1>2, <2>2 DEF Waits
  <2> QED
    BY <1>2, <2>1, <2>2
<1> QED
  BY <1>2, <1>3 DEF QueueOnce

LEMMA QueueRun ==
    ASSUME DaemonInv, RunJob
    PROVE  /\ QueueOnce' /\ Head(queue) \in Callers
           /\ Waits(Head(queue)) /\ outcome[Head(queue)] = "none"
<1>1. QueueOnce /\ queue \in Seq(Callers) /\ queue # <<>> /\ queue' = Tail(queue)
  BY DEF DaemonInv, Typed, RunJob
<1>2. /\ Head(queue) = queue[1] /\ 1 \in 1..Len(queue)
      /\ \A i \in 1..Len(queue') :
            i + 1 \in 1..Len(queue) /\ queue'[i] = queue[i + 1] /\ queue'[i] # Head(queue)
      /\ \A i \in 1..Len(queue'), j \in 1..Len(queue') : i # j => queue'[i] # queue'[j]
  BY <1>1, TailOnce DEF QueueOnce
<1>3. \A i \in 1..Len(queue) : queue[i] \in Callers
  BY <1>1
<1>4. \A x \in Callers : x # Head(queue) => outcome'[x] = outcome[x]
  BY DEF RunJob, DaemonInv, Typed
<1>5. UNCHANGED <<worker, conn>>
  BY DEF RunJob
<1>6. ASSUME NEW i \in 1..Len(queue')
      PROVE  Waits(queue[i])' /\ outcome'[queue'[i]] = "none"
  BY <1>1, <1>2, <1>3, <1>4, <1>5 DEF QueueOnce, Waits
<1> QED
  BY <1>1, <1>2, <1>3, <1>6 DEF QueueOnce

LEMMA QueueStep ==
    ASSUME DaemonInv, [Next]_vars
    PROVE  QueueOnce'
<1>0. /\ QueueOnce /\ queue \in Seq(Callers) /\ conn \in [Conns -> ConnStates]
      /\ outcome \in [Callers -> Outcomes] /\ Typed /\ BacklogOnce
  BY DEF DaemonInv, Typed
<1>1. ASSUME NEW c \in Conns, Connect(c) PROVE QueueOnce'
  <2>1. UNCHANGED <<queue, outcome, worker>> /\ conn' = [conn EXCEPT ![c] = "backlog"]
        /\ conn[c] = "none"
    BY <1>1 DEF Connect
  <2> QED
    BY <1>0, <2>1, QueueSame, CallersType DEF Waits, Callers
<1>2. CASE AcceptConnection
  <2>1. PICK c \in Conns : conn[c] = "backlog" /\ \A d \in Conns \ {c} : conn'[d] = conn[d]
    BY <1>0, <1>2, AcceptFacts
  <2>2. UNCHANGED <<queue, outcome, worker>>
    BY <1>2 DEF AcceptConnection
  <2> QED
    BY <1>0, <2>1, <2>2, QueueSame, CallersType DEF Waits, Callers
<1>3. CASE LeaveLoop
  <2>1. UNCHANGED <<queue, outcome, worker>>
        /\ \A d \in Conns : conn[d] = "waiting" => conn'[d] = "waiting"
    BY <1>0, <1>3 DEF LeaveLoop
  <2> QED
    BY <1>0, <2>1, QueueSame, CallersType DEF Waits, Callers
<1>4. ASSUME NEW c \in Conns, AnswerDirectly(c) \/ EndConnection(c) PROVE QueueOnce'
  <2>1. /\ UNCHANGED <<queue, worker>> /\ conn[c] # "waiting"
        /\ \A d \in Conns \ {c} : conn'[d] = conn[d]
        /\ \A x \in Callers : outcome'[x] = outcome[x] \/ outcome'[x] = "none"
    BY <1>0, <1>4, CallersType DEF AnswerDirectly, EndConnection
  <2> QED
    BY <1>0, <2>1, QueueSame, CallersType DEF Waits, Callers
<1>5. ASSUME NEW c \in Conns, AnswerJob(c) PROVE QueueOnce'
  <2>1. /\ UNCHANGED <<queue, worker, outcome>> /\ conn[c] = "waiting"
        /\ \A d \in Conns \ {c} : conn'[d] = conn[d]
    BY <1>0, <1>5 DEF AnswerJob
  <2>2. outcome[c] # "none"
    <3>1. writer = "running"
      BY <2>1, WriterThere
    <3> QED
      BY <1>5, <3>1 DEF AnswerJob, ReplyReady
  <2> QED
    BY <1>0, <2>1, <2>2, QueueSame, CallersType DEF Waits, Callers
<1>6. ASSUME NEW c \in Conns, SubmitJob(c) PROVE QueueOnce'
  <2>1. /\ queue' = Append(queue, c) /\ UNCHANGED <<worker, outcome>> /\ conn[c] = "admitted"
        /\ conn'[c] = "waiting" /\ \A d \in Conns \ {c} : conn'[d] = conn[d]
    BY <1>0, <1>6 DEF SubmitJob, Send
  <2>2. outcome[c] = "none"
    BY <2>1 DEF DaemonInv, Informed
  <2>3. c \in Callers /\ c # Worker /\ ~Waits(c) /\ Waits(c)'
    BY <2>1, CallersType DEF Waits
  <2>4. \A x \in Callers \ {c} : Waits(x) => Waits(x)'
    BY <2>1 DEF Waits, Callers
  <2> QED
    BY <1>0, <2>1, <2>2, <2>3, <2>4, QueueAppend
<1>7. CASE RunJob
  BY <1>7, QueueRun
<1>8. CASE WorkerCheck
  <2>1. UNCHANGED <<queue, outcome, conn>> /\ worker # "waiting"
    BY <1>8 DEF WorkerCheck
  <2> QED
    BY <1>0, <2>1, QueueSame, CallersType DEF Waits, Callers
<1>9. CASE WorkerSubmit
  <2>1. /\ queue' = Append(queue, Worker) /\ UNCHANGED <<conn, outcome>>
        /\ worker = "ticking" /\ worker' = "waiting"
    BY <1>9 DEF WorkerSubmit, Send
  <2>2. outcome[Worker] = "none"
    BY <2>1 DEF DaemonInv, WorkerInformed
  <2>3. Worker \in Callers /\ ~Waits(Worker) /\ Waits(Worker)'
    BY <2>1, CallersType DEF Waits
  <2>4. \A x \in Callers \ {Worker} : Waits(x) => Waits(x)'
    BY <2>1 DEF Waits, Callers
  <2> QED
    BY <1>0, <2>1, <2>2, <2>3, <2>4, QueueAppend
<1>10. CASE WorkerReply
  <2>1. /\ UNCHANGED <<queue, conn>> /\ worker = "waiting"
        /\ \A x \in Callers \ {Worker} : outcome'[x] = outcome[x]
    BY <1>0, <1>10 DEF WorkerReply
  <2>2. outcome[Worker] # "none"
    <3>1. writer = "running"
      BY <2>1, WriterThere
    <3> QED
      BY <1>10, <3>1 DEF WorkerReply, ReplyReady
  <2> QED
    BY <1>0, <2>1, <2>2, QueueSame, CallersType DEF Waits, Callers
<1>11. CASE UNCHANGED <<queue, outcome, conn, worker>>
  BY <1>0, <1>11 DEF QueueOnce, Waits
<1>12. CASE Signal \/ CheckShutdown \/ WriterExits \/ DreamStep \/ Join \/ UNCHANGED vars
  BY <1>11, <1>12 DEF Signal, CheckShutdown, WriterExits, DreamStep, Join, vars
<1> QED
  BY <1>1, <1>2, <1>3, <1>4, <1>5, <1>6, <1>7, <1>8, <1>9, <1>10, <1>12
     DEF Next, MainStep, AcceptFails, Drained, DrainDeadline, ConnectionStep, WriterStep, WorkerStep

-----------------------------------------------------------------------------
LEMMA InformedStep ==
    ASSUME DaemonInv, [Next]_vars, NEW d \in Conns
    PROVE  Informed(d)'
<1>0. /\ Informed(d) /\ Typed /\ BacklogOnce /\ conn \in [Conns -> ConnStates]
      /\ answer \in [Conns -> Answers] /\ outcome \in [Callers -> Outcomes]
      /\ d \in Callers /\ d # Worker
  BY CallersType DEF DaemonInv, Typed
<1>1. ASSUME NEW c \in Conns, Connect(c) PROVE Informed(d)'
  BY <1>0, <1>1 DEF Connect, Informed
<1>2. CASE AcceptConnection
  <2>1. PICK c \in Conns :
          /\ conn[c] = "backlog" /\ conn'[c] \in {"admitted", "none"}
          /\ \A e \in Conns \ {c} : conn'[e] = conn[e]
    BY <1>0, <1>2, AcceptFacts
  <2>2. UNCHANGED <<answer, outcome>>
    BY <1>2 DEF AcceptConnection
  <2> QED
    BY <1>0, <2>1, <2>2 DEF Informed
<1>3. CASE LeaveLoop
  BY <1>0, <1>3 DEF LeaveLoop, Informed
<1>4. ASSUME NEW c \in Conns, c # d, ConnectionStep(c) PROVE Informed(d)'
  <2>1. conn'[d] = conn[d] /\ answer'[d] = answer[d] /\ outcome'[d] = outcome[d]
    BY <1>0, <1>4 DEF ConnectionStep, AnswerDirectly, SubmitJob, AnswerJob, EndConnection
  <2> QED
    BY <1>0, <2>1 DEF Informed
<1>5. CASE AnswerDirectly(d) \/ SubmitJob(d) \/ EndConnection(d)
  BY <1>0, <1>5 DEF AnswerDirectly, SubmitJob, EndConnection, Informed
<1>6. CASE AnswerJob(d)
  <2>1. outcome[d] # "none" /\ outcome' = outcome
    <3>1. conn[d] = "waiting"
      BY <1>6 DEF AnswerJob
    <3>2. writer = "running"
      BY <3>1, WriterThere
    <3> QED
      BY <1>6, <3>2 DEF AnswerJob, ReplyReady
  <2>2. outcome[d] \in {"committed", "failed", "panicked"}
    BY <1>0, <2>1 DEF Outcomes
  <2>3. /\ conn'[d] = "replying"
        /\ answer'[d] = IF outcome[d] = "committed" THEN "recorded" ELSE "store error"
    BY <1>0, <1>6 DEF AnswerJob
  <2> QED
    BY <2>1, <2>2, <2>3 DEF Informed
<1>7. CASE RunJob
  <2>1. UNCHANGED <<conn, answer>> /\ \A x \in Callers : x # Head(queue) => outcome'[x] = outcome[x]
    BY <1>0, <1>7 DEF RunJob
  <2>2. CASE d = Head(queue)
    <3>1. conn[d] = "waiting"
      BY <1>0, <1>7, <2>2, QueueRun DEF Waits
    <3> QED
      BY <1>0, <2>1, <3>1 DEF Informed
  <2>3. CASE d # Head(queue)
    BY <1>0, <2>1, <2>3 DEF Informed
  <2> QED
    BY <2>2, <2>3
<1>8. CASE WorkerStep
  <2>1. conn' = conn /\ answer' = answer /\ outcome'[d] = outcome[d]
    BY <1>0, <1>8 DEF WorkerStep, WorkerCheck, WorkerSubmit, WorkerReply
  <2> QED
    BY <1>0, <2>1 DEF Informed
<1>9. CASE Signal \/ CheckShutdown \/ WriterExits \/ DreamStep \/ Join \/ UNCHANGED vars
  BY <1>0, <1>9 DEF Signal, CheckShutdown, WriterExits, DreamStep, Join, vars, Informed
<1> QED
  BY <1>1, <1>2, <1>3, <1>4, <1>5, <1>6, <1>7, <1>8, <1>9
     DEF Next, MainStep, AcceptFails, Drained, DrainDeadline, ConnectionStep, WriterStep

LEMMA WorkerInformedStep ==
    ASSUME DaemonInv, [Next]_vars
    PROVE  WorkerInformed'
<1>0. /\ WorkerInformed /\ outcome \in [Callers -> Outcomes]
      /\ Worker \in Callers /\ Worker \notin Conns
  BY CallersType DEF DaemonInv, Typed
<1>1. ASSUME NEW c \in Conns, ConnectionStep(c) PROVE WorkerInformed'
  BY <1>0, <1>1 DEF ConnectionStep, AnswerDirectly, SubmitJob, AnswerJob, EndConnection,
                    WorkerInformed
<1>2. CASE RunJob
  <2>1. worker' = worker /\ \A x \in Callers : x # Head(queue) => outcome'[x] = outcome[x]
    BY <1>0, <1>2 DEF RunJob
  <2>2. CASE Worker = Head(queue)
    <3>1. worker = "waiting"
      BY <1>2, <2>2, QueueRun DEF Waits
    <3> QED
      BY <2>1, <3>1 DEF WorkerInformed
  <2>3. CASE Worker # Head(queue)
    BY <1>0, <2>1, <2>3 DEF WorkerInformed
  <2> QED
    BY <2>2, <2>3
<1>3. CASE WorkerStep
  BY <1>0, <1>3 DEF WorkerStep, WorkerCheck, WorkerSubmit, WorkerReply, WorkerInformed
<1>4. CASE UNCHANGED <<worker, outcome>>
  BY <1>0, <1>4 DEF WorkerInformed
<1>5. ASSUME NEW c \in Conns, Connect(c) PROVE WorkerInformed'
  BY <1>4, <1>5 DEF Connect
<1>6. CASE AcceptConnection \/ LeaveLoop
  BY <1>4, <1>6 DEF AcceptConnection, LeaveLoop
<1>7. CASE Signal \/ CheckShutdown \/ WriterExits \/ DreamStep \/ Join \/ UNCHANGED vars
  BY <1>4, <1>7 DEF Signal, CheckShutdown, WriterExits, DreamStep, Join, vars
<1> QED
  BY <1>1, <1>2, <1>3, <1>5, <1>6, <1>7
     DEF Next, MainStep, AcceptFails, Drained, DrainDeadline, WriterStep

(* The writer ends after the last handle was dropped, and nobody takes one *)
(* again.                                                                  *)
LEMMA WriterLastStep ==
    ASSUME DaemonInv, [Next]_vars
    PROVE  WriterLast'
<1>0. /\ WriterLast /\ Typed /\ BacklogOnce /\ conn \in [Conns -> ConnStates]
      /\ writer \in {"running", "exited"}
  BY DEF DaemonInv, Typed
<1>1. CASE WriterExits
  <2>1. queue = <<>> /\ Handles = {} /\ UNCHANGED <<main, conn, queue, worker>>
    BY <1>1 DEF WriterExits
  <2>2. /\ Threads = {} /\ worker = "exited"
        /\ main \notin Listening \cup (Joining \ {"joining writer"})
    BY <2>1 DEF Handles
  <2>3. main \in {"joining writer", "exited"}
    BY <1>0, <2>2 DEF Typed, Joining
  <2> QED
    BY <1>1, <2>1, <2>2, <2>3 DEF WriterExits, WriterLast, Threads
<1>2. CASE writer = "running" /\ writer' = "running"
  <2>1. main # "exited" => main' # "exited"
    BY <1>0, <1>2 DEF Next, MainStep, CheckShutdown, AcceptConnection, Drained, DrainDeadline,
       AcceptFails, LeaveLoop, Join, Signal, Connect, ConnectionStep, AnswerDirectly, SubmitJob,
       AnswerJob, EndConnection, WriterStep, RunJob, WriterExits, WorkerStep, WorkerCheck,
       WorkerSubmit, WorkerReply, DreamStep, vars
  <2> QED
    BY <1>0, <1>2, <2>1 DEF WriterLast
<1>3. CASE writer = "exited"
  <2>1. Threads = {} /\ queue = <<>> /\ worker = "exited" /\ main \in {"joining writer", "exited"}
    BY <1>0, <1>3 DEF WriterLast
  <2>2. \A c \in Conns : conn[c] \notin {"admitted", "waiting", "replying"}
    BY <2>1 DEF Threads
  <2>3. ~(\E c \in Conns : ConnectionStep(c))
    BY <2>2 DEF ConnectionStep, AnswerDirectly, SubmitJob, AnswerJob, EndConnection
  <2>4. ~(CheckShutdown \/ AcceptConnection \/ Drained \/ DrainDeadline \/ AcceptFails)
    BY <2>1 DEF CheckShutdown, AcceptConnection, Drained, DrainDeadline, AcceptFails
  <2>5. ~(WriterStep \/ WorkerStep)
    BY <1>3, <2>1 DEF WriterStep, RunJob, WriterExits, WorkerStep, WorkerCheck, WorkerSubmit,
                      WorkerReply
  <2>6. ASSUME NEW c \in Conns, Connect(c) PROVE FALSE
    BY <2>1, <2>6 DEF Connect, Listening
  <2>7. CASE Join
    <3>1. main' = "exited" /\ UNCHANGED <<conn, queue, worker, writer>>
      BY <2>1, <2>7 DEF Join
    <3> QED
      BY <1>3, <2>1, <3>1 DEF WriterLast, Threads
  <2>8. CASE Signal \/ DreamStep \/ UNCHANGED vars
    <3>1. UNCHANGED <<main, conn, queue, worker, writer>>
      BY <2>8 DEF Signal, DreamStep, vars
    <3> QED
      BY <1>3, <2>1, <3>1 DEF WriterLast, Threads
  <2> QED
    BY <2>3, <2>4, <2>5, <2>6, <2>7, <2>8 DEF Next, MainStep
<1>4. ~WriterExits => writer' = writer
  BY <1>0 DEF Next, MainStep, CheckShutdown, AcceptConnection, Drained, DrainDeadline,
     AcceptFails, LeaveLoop, Join, Signal, Connect, ConnectionStep, AnswerDirectly, SubmitJob,
     AnswerJob, EndConnection, WriterStep, RunJob, AfterPanic, WorkerStep, WorkerCheck,
     WorkerSubmit, WorkerReply, DreamStep, vars
<1> QED
  BY <1>0, <1>1, <1>2, <1>3, <1>4

-----------------------------------------------------------------------------
(* Why the invariant is needed: an answer speaks of the caller's own job   *)
(* because the channel holds one job of each waiting caller and no other,  *)
(* and a reply channel is dropped with the job only, as the writer ends    *)
(* after the last handle.                                                  *)
THEOREM DaemonInductive ==
    /\ Init => DaemonInv
    /\ DaemonInv /\ [Next]_vars => DaemonInv'
<1>1. ASSUME Init PROVE DaemonInv
  <2>1. Typed
    BY <1>1, EmptyType DEF Init, Typed, Listening, ConnStates, Answers, Outcomes
  <2>2. 1..Len(backlog) = {} /\ 1..Len(queue) = {}
    <3>1. Len(backlog) = 0 /\ Len(queue) = 0
      BY <1>1 DEF Init
    <3> QED
      BY <3>1
  <2>3. BacklogOnce /\ QueueOnce
    BY <2>2 DEF BacklogOnce, QueueOnce
  <2>4. (\A c \in Conns : Informed(c)) /\ WorkerInformed /\ WriterLast
    BY <1>1, CallersType DEF Init, Informed, WorkerInformed, WriterLast
  <2> QED
    BY <2>1, <2>3, <2>4 DEF DaemonInv
<1>2. ASSUME DaemonInv, [Next]_vars PROVE DaemonInv'
  <2>1. Typed' /\ BacklogOnce'
    BY <1>2, TypedStep, BacklogStep DEF DaemonInv
  <2> QED
    BY <1>2, <2>1, QueueStep, InformedStep, WorkerInformedStep, WriterLastStep DEF DaemonInv
<1> QED
  BY <1>1, <1>2

(* What a client is told of its request is what became of its own job,     *)
(* however jobs of others fail or panic and however the daemon shuts down. *)
THEOREM AnswersAreTruthful == Spec => []AnswersTruthful
<1>1. DaemonInv => AnswersTruthful
  BY DEF DaemonInv, Informed, AnswersTruthful
<1> QED
  BY <1>1, DaemonInductive, PTL DEF Spec

(* The daemon ends after every thread, with nothing left in the channel.   *)
THEOREM NoRequestIsCut == Spec => []NoRequestCut
<1>1. DaemonInv => NoRequestCut
  BY DEF DaemonInv, WriterLast, NoRequestCut
<1> QED
  BY <1>1, DaemonInductive, PTL DEF Spec

-----------------------------------------------------------------------------
(* The counter of main.rs and the threads it counts. A tick under way has  *)
(* a job to send, so what is left of it never falls below zero.            *)
ActiveCounted == active \in 0..MaxConnections /\ active = Cardinality(Threads)

TickSound ==
    /\ shutdown \in BOOLEAN
    /\ left \in 0..(Concurrency + 1)
    /\ worker = "ticking" => left > 0

CountInv == DaemonInv /\ ActiveCounted /\ TickSound

LEMMA ThreadsFinite == IsFiniteSet(Threads) /\ Cardinality(Threads) \in Nat
<1>1. Threads \in SUBSET Conns
  BY DEF Threads
<1> QED
  BY <1>1, CallersAssumption, FS_Subset, FS_CardinalityType

LEMMA ThreadStarts ==
    ASSUME NEW c \in Conns, c \notin Threads, Threads' = Threads \cup {c}
    PROVE  Cardinality(Threads') = Cardinality(Threads) + 1
  BY ThreadsFinite, FS_AddElement

LEMMA ThreadEnds ==
    ASSUME NEW c \in Conns, c \in Threads, Threads' = Threads \ {c}
    PROVE  Cardinality(Threads') = Cardinality(Threads) - 1
  BY ThreadsFinite, FS_RemoveElement

LEMMA ActiveStep ==
    ASSUME DaemonInv, ActiveCounted, [Next]_vars
    PROVE  ActiveCounted'
<1>0. /\ Typed /\ BacklogOnce /\ conn \in [Conns -> ConnStates]
      /\ active \in Nat /\ active <= MaxConnections /\ MaxConnections \in Nat
      /\ active = Cardinality(Threads)
  BY LimitsAssumption DEF DaemonInv, Typed, ActiveCounted
<1>1. Threads' = Threads /\ active' = active => ActiveCounted'
  BY <1>0 DEF ActiveCounted
<1>2. CASE AcceptConnection
  <2>1. PICK c \in Conns : Accepted(c) /\ (Admit(c) \/ Turn(c))
    BY <1>2 DEF AcceptConnection
  <2>2. conn[c] = "backlog"
    <3>1. PICK d \in Conns : conn[d] = "backlog" /\ d = Head(backlog)
      BY <1>0, <1>2, AcceptFacts
    <3> QED
      BY <2>1, <3>1 DEF Accepted
  <2>3. CASE Admit(c)
    <3>1. /\ conn'[c] = "admitted" /\ \A d \in Conns \ {c} : conn'[d] = conn[d]
          /\ active' = active + 1 /\ active < MaxConnections
      BY <1>0, <2>3 DEF Admit, Full
    <3>2. c \notin Threads /\ Threads' = Threads \cup {c}
      BY <2>2, <3>1 DEF Threads
    <3>3. Cardinality(Threads') = active + 1
      BY <1>0, <3>2, ThreadStarts
    <3>4. active' \in 0..MaxConnections
      BY <1>0, <3>1
    <3> QED
      BY <3>1, <3>3, <3>4 DEF ActiveCounted
  <2>4. CASE Turn(c)
    <3>1. conn'[c] = "none" /\ \A d \in Conns \ {c} : conn'[d] = conn[d]
      BY <1>0, <2>4 DEF Turn
    <3>2. Threads' = Threads
      BY <2>2, <3>1 DEF Threads
    <3> QED
      BY <1>1, <2>4, <3>2 DEF Turn
  <2> QED
    BY <2>1, <2>3, <2>4
<1>3. ASSUME NEW c \in Conns, EndConnection(c) PROVE ActiveCounted'
  <2>1. /\ conn[c] \in {"admitted", "replying"} /\ conn'[c] = "none"
        /\ \A d \in Conns \ {c} : conn'[d] = conn[d]
        /\ active' = active - 1
    BY <1>0, <1>3 DEF EndConnection, Release
  <2>2. c \in Threads /\ Threads' = Threads \ {c}
    BY <2>1 DEF Threads
  <2>3. Cardinality(Threads') = active - 1 /\ Cardinality(Threads') \in Nat
    <3>1. IsFiniteSet(Threads \ {c})
      BY ThreadsFinite, FS_RemoveElement
    <3>2. Cardinality(Threads \ {c}) \in Nat
      BY <3>1, FS_CardinalityType
    <3> QED
      BY <1>0, <2>2, <3>2, ThreadEnds
  <2>4. active' \in 0..MaxConnections
    BY <1>0, <2>1, <2>3
  <2> QED
    BY <2>1, <2>3, <2>4 DEF ActiveCounted
<1>4. ASSUME NEW c \in Conns, AnswerDirectly(c) \/ SubmitJob(c) \/ AnswerJob(c)
      PROVE  ActiveCounted'
  <2>1. /\ conn[c] \in {"admitted", "waiting"} /\ conn'[c] \in {"waiting", "replying"}
        /\ \A d \in Conns \ {c} : conn'[d] = conn[d]
        /\ active' = active
    BY <1>0, <1>4 DEF AnswerDirectly, SubmitJob, AnswerJob
  <2>2. Threads' = Threads
    BY <2>1 DEF Threads
  <2> QED
    BY <1>1, <2>1, <2>2
<1>5. ASSUME NEW c \in Conns, Connect(c) PROVE ActiveCounted'
  <2>1. /\ conn[c] = "none" /\ conn'[c] = "backlog" /\ \A d \in Conns \ {c} : conn'[d] = conn[d]
        /\ active' = active
    BY <1>0, <1>5 DEF Connect
  <2>2. Threads' = Threads
    BY <2>1 DEF Threads
  <2> QED
    BY <1>1, <2>1, <2>2
<1>6. CASE LeaveLoop
  <2>1. \A d \in Conns : conn'[d] = IF conn[d] = "backlog" THEN "none" ELSE conn[d]
    BY <1>0, <1>6 DEF LeaveLoop
  <2>2. Threads' = Threads
    BY <2>1 DEF Threads
  <2> QED
    BY <1>1, <1>6, <2>2 DEF LeaveLoop
<1>7. CASE UNCHANGED <<conn, active>>
  BY <1>1, <1>7 DEF Threads
<1>8. CASE Signal \/ CheckShutdown \/ WriterStep \/ WorkerStep \/ DreamStep \/ Join \/ UNCHANGED vars
  BY <1>7, <1>8 DEF Signal, CheckShutdown, WriterStep, RunJob, WriterExits, WorkerStep,
                    WorkerCheck, WorkerSubmit, WorkerReply, DreamStep, Join, vars
<1> QED
  BY <1>2, <1>3, <1>4, <1>5, <1>6, <1>8
     DEF Next, MainStep, AcceptFails, Drained, DrainDeadline, ConnectionStep

LEMMA TickStep ==
    ASSUME TickSound, Concurrency \in Nat, [Next]_vars
    PROVE  TickSound'
<1> USE DEF TickSound
<1>1. CASE WorkerCheck
  <2>1. CASE worker' = "exited" /\ left' = left
    BY <1>1, <2>1 DEF WorkerCheck
  <2>2. CASE worker' = "ticking" /\ left' \in 1..(Concurrency + 1)
    BY <1>1, <2>2 DEF WorkerCheck
  <2> QED
    BY <1>1, <2>1, <2>2 DEF WorkerCheck
<1>2. CASE WorkerSubmit
  BY <1>2 DEF WorkerSubmit
<1>3. CASE WorkerReply
  BY <1>3 DEF WorkerReply
<1>4. CASE Signal
  BY <1>4 DEF Signal
<1>5. CASE UNCHANGED <<shutdown, worker, left>>
  BY <1>5
<1>6. ASSUME NEW c \in Conns, Connect(c) \/ ConnectionStep(c)
      PROVE  UNCHANGED <<shutdown, worker, left>>
  BY <1>6 DEF Connect, ConnectionStep, AnswerDirectly, SubmitJob, AnswerJob, EndConnection
<1>7. MainStep \/ AcceptFails \/ WriterStep \/ DreamStep \/ UNCHANGED vars
         => UNCHANGED <<shutdown, worker, left>>
  BY DEF MainStep, CheckShutdown, AcceptConnection, Drained, DrainDeadline, Join, AcceptFails,
         LeaveLoop, WriterStep, RunJob, WriterExits, DreamStep, vars
<1> QED
  BY <1>1, <1>2, <1>3, <1>4, <1>5, <1>6, <1>7 DEF Next, WorkerStep

(* The active-connection counter is the number of threads that serve a     *)
(* connection and never passes the maximum, whoever connects, is turned    *)
(* away, panics or is cut off by the end of the accept loop.               *)
THEOREM ConnectionsCounted == Spec => []TypeOK
<1>1. Init => CountInv
  <2>1. ASSUME Init PROVE ActiveCounted
    <3>1. Threads = {} /\ active = 0
      BY <2>1 DEF Init, Threads
    <3> QED
      BY <3>1, FS_EmptySet, LimitsAssumption DEF ActiveCounted
  <2>2. ASSUME Init PROVE TickSound
    <3>1. shutdown = FALSE /\ left = 0 /\ worker = "checking"
      BY <2>2 DEF Init
    <3>2. shutdown \in BOOLEAN
      BY <3>1, Zenon
    <3>3. left \in 0..(Concurrency + 1)
      BY <3>1, LimitsAssumption
    <3> QED
      BY <3>1, <3>2, <3>3 DEF TickSound
  <2> QED
    BY <2>1, <2>2, DaemonInductive DEF CountInv
<1>2. CountInv /\ [Next]_vars => CountInv'
  BY DaemonInductive, ActiveStep, TickStep, LimitsAssumption DEF CountInv
<1>3. CountInv => TypeOK
  BY DEF CountInv, DaemonInv, Typed, ActiveCounted, TickSound, TypeOK
<1> QED
  BY <1>1, <1>2, <1>3, PTL DEF Spec

=============================================================================
