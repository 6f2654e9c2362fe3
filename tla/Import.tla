------------------------------- MODULE Import -------------------------------
(***************************************************************************)
(* Imports of historic transcripts into memoryd: every importer process    *)
(* walks the files of one agent in order, reads each into units (module    *)
(* Transcripts), keeps one import_batches row per file, stages each unit   *)
(* as a raw event with an embed job, skips content already stored, and     *)
(* pauses when the embed queue is full (store.rs, import_sources.rs).      *)
(*                                                                         *)
(* The agent goes on writing its files while they are imported. The embed  *)
(* queue is the number of its active jobs. Importers may run at the same   *)
(* time, die at any point, and are started again by the user. Retention    *)
(* sweeps may delete an imported event. The clock stands still.            *)
(***************************************************************************)
EXTENDS Transcripts

CONSTANTS
    Importers,      \* processes running `memoryd import` on this agent
    Histories,      \* what agents may write: sequence of agents and files
    Now,            \* the instant of the imports
    RetainAfter,    \* retention deletes what is older
    MaxFileLines,   \* MAX_IMPORT_FILE_BYTES, in lines
    MaxActiveJobs,  \* queue_depth_max
    MaxFailures,    \* bound: imports cut by an error or a crash
    MaxSweeps       \* bound: events retention deletes

ASSUME ImportHistoriesAssumption ==
    \A h \in DOMAIN Histories :
        /\ Histories[h].agent \in TranscriptAgents
        /\ Histories[h].files \in Seq(Seq(Line))

(* The rows of an OpenCode message name one role, that of its data.        *)
ASSUME ImportMessagesAssumption ==
    \A h \in DOMAIN Histories : Histories[h].agent = "opencode" =>
        \A f \in DOMAIN Histories[h].files :
            LET rows == Histories[h].files[f]
            IN  \A i, j \in DOMAIN rows :
                    rows[i].message = rows[j].message => rows[i].role = rows[j].role

(* The mark of a text cut short is no secret.                              *)
ASSUME ImportMarkAssumption == "..." \notin Secrets

ASSUME ImportCapsAssumption ==
    /\ MaxFileLines \in Nat /\ MaxActiveJobs \in Nat
    /\ MaxFailures \in Nat /\ MaxSweeps \in Nat

VARIABLES
    history,    \* which of Histories this behaviour follows
    length,     \* lines each file holds now
    batches,    \* the import_batches row of each file
    stored,     \* the raw events of kind import, a bag of units
    active,     \* active embed jobs
    runs,       \* where each importer is
    alone,      \* files whose last batch never had two importers at once
    swept,      \* units retention has deleted
    failures    \* imports cut short so far

store == <<batches, stored, active, alone>>
bounds == <<swept, failures>>
vars == <<history, length, store, runs, bounds>>

-----------------------------------------------------------------------------
Agent == Histories[history].agent
Lines(f) == Histories[history].files[f]
Files == DOMAIN Histories[history].files

(* What an import reads of each file at each length, tabulated.            *)
Reading ==
    [h \in DOMAIN Histories |-> [f \in DOMAIN Histories[h].files |->
        [n \in 0..Len(Histories[h].files[f]) |->
            LET lines == SubSeq(Histories[h].files[f], 1, n)
            IN  IF TranscriptRefused(Histories[h].agent, lines) THEN <<>>
                ELSE Parse(Histories[h].agent, lines)]]]

UnitsOf(f) == Reading[history][f][length[f]]

BatchStates == {"absent", "staging", "paused", "completed"}

NoBatch == [state |-> "absent", total |-> 0, processed |-> 0, skipped |-> 0]

(* at is the phase of an importer; file, units and next its loop variables. *)
Idle == [at |-> "idle", file |-> 0, units |-> <<>>, next |-> 0]

Init ==
    /\ history \in DOMAIN Histories
    /\ length = [f \in Files |-> 0]
    /\ batches = [f \in Files |-> NoBatch]
    /\ stored = EmptyBag
    /\ active = 0
    /\ runs = [p \in Importers |-> Idle]
    /\ alone = Files
    /\ swept = {}
    /\ failures = 0

-----------------------------------------------------------------------------
(* The agent, the embed worker and the retention sweep.                    *)

Grow(f) ==
    /\ length[f] < Len(Lines(f))
    /\ length' = [length EXCEPT ![f] = @ + 1]
    /\ UNCHANGED <<history, store, runs, bounds>>

JobSettles ==
    /\ active > 0
    /\ active' = active - 1
    /\ UNCHANGED <<history, length, batches, stored, alone, runs, bounds>>

Retain(u) ==
    /\ u.time[1] < RetainAfter
    /\ Cardinality(swept) < MaxSweeps
    /\ stored' = stored (-) [e \in {u} |-> stored[u]]
    /\ swept' = swept \cup {u}
    /\ UNCHANGED <<history, length, batches, active, alone, runs, failures>>

-----------------------------------------------------------------------------
(* One importer.                                                           *)

Open(f) == [at |-> "open", file |-> f, units |-> <<>>, next |-> 0]
NextFile(f) == IF f + 1 \in Files THEN Open(f + 1) ELSE Idle

StartImport(p) ==
    /\ runs[p] = Idle
    /\ Files # {}
    /\ runs' = [runs EXCEPT ![p] = Open(1)]
    /\ UNCHANGED <<history, length, store, bounds>>

\* Mutant of Restarted: the counters of the last run are kept.
RestartedCounting(batch, total) == [batch EXCEPT !.state = "staging", !.total = total]

Restarted(batch, total) ==
    [state |-> "staging", total |-> total, processed |-> 0, skipped |-> 0]

\* Mutant of FirstUnit: a batch resumes after the units it knew.
FirstUnitResumed(f) == batches[f].total + 1

FirstUnit(f) == 1

TooLarge(f) == Agent \notin {"opencode", "hermes"} /\ length[f] > MaxFileLines

(* A file too large, refused or without units gets no batch; otherwise its *)
(* row is found or made and reset, and every unit is offered again. The    *)
(* generic JSONL import has one file and ends at its error.                *)
OpenFile(p) ==
    LET f == runs[p].file
        units == UnitsOf(f)
    IN  /\ runs[p].at = "open"
        /\ \/ /\ TooLarge(f) \/ units = <<>>
              /\ runs' = [runs EXCEPT ![p] = NextFile(f)]
              /\ UNCHANGED store
           \/ /\ ~TooLarge(f) /\ units # <<>>
              /\ batches' = [batches EXCEPT ![f] = Restarted(@, Len(units))]
              /\ alone' = IF \E q \in Importers \ {p} :
                                runs[q].file = f /\ runs[q].at \in {"staging", "full"}
                          THEN alone \ {f}
                          ELSE alone \cup {f}
              /\ runs' = [runs EXCEPT ![p] =
                    [at |-> "staging", file |-> f, units |-> units, next |-> FirstUnit(f)]]
              /\ UNCHANGED <<stored, active>>
        /\ UNCHANGED <<history, length, bounds>>

\* Mutant of Already: no look-up.
AlreadyNever(u) == FALSE

Already(u) == \E e \in DOMAIN stored : ContentHash(e) = ContentHash(u)

HasRoom == active < MaxActiveJobs

(* The raw event of a unit: redacted, and dated like the batch if undated. *)
EventOf(u) ==
    [role |-> u.role, text |-> Redacted(u.text), session |-> u.session,
     time |-> IF u.time = <<>> THEN <<Now>> ELSE u.time]

(* One unit, one transaction: skip it, stage it with its job, or find the  *)
(* queue full.                                                             *)
StageUnit(p) ==
    LET f == runs[p].file
        u == runs[p].units[runs[p].next]
    IN  /\ runs[p].at = "staging"
        /\ runs[p].next <= Len(runs[p].units)
        /\ \/ /\ Already(u)
              /\ batches' = [batches EXCEPT ![f].skipped = @ + 1]
              /\ runs' = [runs EXCEPT ![p].next = @ + 1]
              /\ UNCHANGED <<stored, active>>
           \/ /\ ~Already(u)
              /\ HasRoom
              /\ stored' = stored (+) SetToBag({EventOf(u)})
              /\ active' = active + 1
              /\ batches' = [batches EXCEPT ![f].processed = @ + 1]
              /\ runs' = [runs EXCEPT ![p].next = @ + 1]
           \/ /\ ~Already(u)
              /\ ~HasRoom
              /\ runs' = [runs EXCEPT ![p].at = "full"]
              /\ UNCHANGED <<batches, stored, active>>
        /\ UNCHANGED <<history, length, alone, bounds>>

(* The run of a file ends: a paused batch ends the whole import.           *)
CloseBatch(p) ==
    LET f == runs[p].file
    IN  /\ \/ /\ runs[p].at = "full"
              /\ batches' = [batches EXCEPT ![f].state = "paused"]
              /\ runs' = [runs EXCEPT ![p] = Idle]
           \/ /\ runs[p].at = "staging"
              /\ runs[p].next > Len(runs[p].units)
              /\ batches' = [batches EXCEPT ![f].state = "completed"]
              /\ runs' = [runs EXCEPT ![p] = NextFile(f)]
        /\ UNCHANGED <<history, length, stored, active, alone, bounds>>

Fail(p) ==
    /\ runs[p] # Idle
    /\ failures < MaxFailures
    /\ failures' = failures + 1
    /\ runs' = [runs EXCEPT ![p] = Idle]
    /\ UNCHANGED <<history, length, store, swept>>

-----------------------------------------------------------------------------
ImportStep(p) == StartImport(p) \/ OpenFile(p) \/ StageUnit(p) \/ CloseBatch(p)

Next ==
    \/ \E f \in Files : Grow(f)
    \/ JobSettles
    \/ \E u \in DOMAIN stored : Retain(u)
    \/ \E p \in Importers : ImportStep(p) \/ Fail(p)

Spec == Init /\ [][Next]_vars

(* Importers run on and are started again by the user; the embed worker    *)
(* settles the jobs of the queue.                                          *)
FairSpec == Spec /\ WF_vars(JobSettles) /\ \A p \in Importers : WF_vars(ImportStep(p))

-----------------------------------------------------------------------------
(* What a history says, told without the readers: who speaks a block (None *)
(* when it is not for import), in which session and turn, and when, by the *)
(* months of the calendar.                                                 *)

Speaker(agent, line, block) ==
    CASE agent = "claude" ->
            IF line.aside \/ line.type \notin {"user", "assistant"} THEN None
            ELSE IF block.type = "tool_result" /\ line.type = "user" THEN "tool"
            ELSE IF block.type = "text" \/ (block.type = "plain" /\ line.type = "user")
            THEN line.type ELSE None
      [] agent = "codex" ->
            IF line.type = "function_call_output" THEN "tool"
            ELSE IF line.type = "message" /\ line.role \in {"user", "assistant"}
            THEN line.role ELSE None
      [] agent = "opencode" ->
            IF line.role \notin {"user", "assistant"} THEN None
            ELSE IF line.type = "tool" THEN "tool"
            ELSE IF line.type = "text" /\ ~line.aside THEN line.role ELSE None
      [] agent = "hermes" ->
            IF line.role \in {"user", "assistant", "tool"} THEN line.role ELSE None
      [] agent = "jsonl" -> "import"

SessionAt(agent, lines, i) ==
    IF agent # "codex" THEN lines[i].session
    ELSE LET metas == { j \in 1..i : lines[j].type = "session_meta" /\ lines[j].session # None }
         IN  IF metas = {} THEN None ELSE lines[Max(metas)].session

Leap(year) == year % 4 = 0 /\ (year % 100 # 0 \/ year % 400 = 0)
LeapYears(from, to) == Cardinality({ year \in from..to : Leap(year) })

(* The days before a month; a day past its end runs on into the next.      *)
DaysBefore(year, month) ==
    <<0, 31, 59, 90, 120, 151, 181, 212, 243, 273, 304, 334>>[month]
        + IF month > 2 /\ Leap(year) THEN 1 ELSE 0

CalendarDays(year, month, day) ==
    365 * (year - 1970) + LeapYears(1970, year - 1) - LeapYears(year, 1969)
        + DaysBefore(year, month) + day - 1

NumberInstant(kilo) == IF kilo > 1000000000 THEN kilo ELSE kilo * 1000

InCalendar(at) == at[2] \in 1..12 /\ at[3] \in 1..31 /\ 0 <= at[4] /\ at[4] < 86400

DateInstant(at) == CalendarDays(at[1], at[2], at[3]) * 86400 + at[4] - at[5] * 60

(* When a record says it was made, in the notation of its agent; an event  *)
(* whose record does not say is dated when it is imported.                 *)
InstantOf(agent, at) ==
    IF agent \in {"claude", "codex"} /\ Len(at) = 5 /\ InCalendar(at) THEN DateInstant(at)
    ELSE IF agent \in {"opencode", "hermes"} /\ Len(at) = 1 /\ at[1] > 0
    THEN NumberInstant(at[1])
    ELSE IF agent = "jsonl" /\ Len(at) = 1 THEN at[1]
    ELSE Now

Pieces(text) == { text[k] : k \in DOMAIN text } \ {"..."}

(* One line told: "said" holds its speakers and their pieces of text, up   *)
(* to the length of a text (a generic export has none); "turn" the lines   *)
(* of its turn.                                                            *)
ToldLine(agent, lines, i) ==
    [session |-> SessionAt(agent, lines, i),
     time |-> <<InstantOf(agent, lines[i].at)>>,
     turn |-> { j \in DOMAIN lines :
                    i = j \/ (agent = "opencode" /\ lines[i].message = lines[j].message) },
     said |-> { <<Speaker(agent, lines[i], b),
                  Pieces(IF agent = "jsonl" THEN Redacted(b.text)
                         ELSE Truncated(Redacted(b.text)))>> :
                    b \in ToSet(lines[i].blocks) }]

Told ==
    [h \in DOMAIN Histories |-> [f \in DOMAIN Histories[h].files |->
        [i \in DOMAIN Histories[h].files[f] |->
            ToldLine(Histories[h].agent, Histories[h].files[f], i)]]]

-----------------------------------------------------------------------------
BatchRow == [state : BatchStates, total : Nat, processed : Nat, skipped : Nat]

TypeOK ==
    /\ \A f \in Files : length[f] \in 0..Len(Lines(f))
    /\ batches \in [Files -> BatchRow]
    /\ IsABag(stored)
    /\ active \in 0..MaxActiveJobs
    /\ \A p \in Importers : runs[p].at \in {"idle", "open", "staging", "full"}
    /\ alone \subseteq Files
    /\ failures \in 0..MaxFailures

-----------------------------------------------------------------------------
(* The same content is never stored twice ("the same row is never written  *)
(* twice", store.rs:229), although importers race, files repeat each other *)
(* and every run offers every unit again.                                  *)
NeverStoredTwice ==
    \A d, e \in DOMAIN stored :
        stored[e] = 1 /\ (ContentHash(d) = ContentHash(e) => d = e)

(* A completed batch is complete: each unit was staged or skipped          *)
(* ("processed + skipped == total", store.rs:230) and its content was      *)
(* stored, unless two imports of the file overlapped. The units are the    *)
(* first of the file as it is now, since a transcript that grows keeps the *)
(* units it had; an OpenCode message does not, nor a generic export that   *)
(* gets a bad line, so only their counters are claimed.                    *)
CompletedIsStaged ==
    \A f \in alone :
        batches[f].state = "completed" =>
            /\ batches[f].processed + batches[f].skipped = batches[f].total
            /\ Agent # "opencode" /\ UnitsOf(f) # <<>> =>
                  \A i \in 1..batches[f].total :
                      LET u == UnitsOf(f)[i]
                      IN  \E e \in swept \cup DOMAIN stored : ContentHash(e) = ContentHash(u)

(* Every stored event is one turn of one session: its text was said in     *)
(* that turn by the speaker it names, at the time it gives and in the      *)
(* session it is filed under; nothing off the chain, synthetic or of       *)
(* another role, and no secret, is in it.                                  *)
EventsAreTurns ==
    \A e \in DOMAIN stored : \E f \in Files : \E i \in 1..length[f] :
        LET line == Told[history][f][i]
            turn == UNION { Told[history][f][j].said : j \in line.turn \cap 1..length[f] }
        IN  /\ e.session = line.session
            /\ e.time = line.time
            /\ Pieces(e.text) \subseteq UNION { s[2] : s \in { t \in turn : t[1] = e.role } }

(* Pausing at the full queue drops nothing and a bad line hides no other:  *)
(* over and over all that the files say is stored, up to the length of a   *)
(* text, provided the user runs the import again. A file past the size     *)
(* limit and a generic export with a bad line are refused whole.           *)
Importable(f) ==
    /\ Agent \in {"opencode", "hermes"} \/ Len(Lines(f)) <= MaxFileLines
    /\ ~TranscriptRefused(Agent, Lines(f))

TurnStored(line) ==
    \A s \in line.said : s[1] # None =>
        \E e \in DOMAIN stored : e.role = s[1] /\ s[2] \subseteq Pieces(e.text)

EveryTurnStored ==
    []<>(\A f \in Files : Importable(f) =>
            \A i \in 1..length[f] : TurnStored(Told[history][f][i]))

=============================================================================
