----------------------------- MODULE AgentSetup -----------------------------
(***************************************************************************)
(* memoryd integrate (integrate.rs) and the hooks it installs (hook.rs):   *)
(* a run plans the new contents of the config files of coding agents from  *)
(* what it read, then writes them one by one with a backup, while their    *)
(* user edits them; an event of an agent starts every hook its files hold. *)
(*                                                                         *)
(* A config file is the sequence of its entries: those of memoryd name     *)
(* their part, binary and database, those of the user are their own mcp    *)
(* server and their own hook. JSON, TOML and YAML differ by the rules of   *)
(* their merge. One scope is modelled, and binaries whose path names       *)
(* memoryd.                                                                *)
(***************************************************************************)
EXTENDS Integers, Sequences, FiniteSets, SequencesExt

CONSTANTS
    Machines,       \* sets of agents that are on a machine together
    Bins,           \* paths the binary had
    Dbs,            \* values of --db
    NoDb,           \* no --db: the default database
    Databases,      \* the database files
    Opens,          \* the database each of these names opens
    MaxRuns,        \* bound: runs of integrate
    MaxEdits,       \* bound: edits of the user
    MaxEvents       \* bound: events of agents

Agents == {"claude", "opencode", "codex", "hermes"}

DbNames == Dbs \cup {NoDb}

ASSUME AgentsAssumption == Machines \subseteq SUBSET Agents /\ NoDb \notin Dbs

(* Several names may open one database: a path given in two ways, or the   *)
(* path MEMORYD_DB makes the default.                                      *)
ASSUME OpensAssumption == Opens \in [DbNames -> Databases]

ASSUME SetupBoundsAssumption ==
    MaxRuns \in Nat /\ MaxEdits \in Nat /\ MaxEvents \in Nat

VARIABLES
    machine,    \* the agents of this machine
    file,       \* the config files
    backup,     \* their backups
    creator,    \* who created each file
    home,       \* agents whose config directory exists
    todo,       \* contents still to be written by the run, by file
    copied,     \* the backup of the next file was considered
    args,       \* arguments of the run, or of the last one if it completed
    started,    \* runs started
    kept,       \* entries of the user no run may lose
    edits,      \* edits made
    hooks,      \* hook processes
    captured,   \* captures of each event in each database
    context     \* events shown to the agent with each event

disk == <<machine, file, backup, creator, home>>
run == <<todo, copied, args, started>>
events == <<hooks, captured, context>>
setupVars == <<disk, run, kept, edits, events>>

-----------------------------------------------------------------------------
Capturing == {"prompt", "tool"}
OwnParts == {"own mcp", "own hook"}
Ours == {"mcp", "dream", "old dream", "session-start"} \cup Capturing
Modes == {"mcp", "hooks", "all"}

FileOrder == <<"claude mcp", "claude settings", "opencode mcp", "opencode plugin",
               "codex config", "hermes config">>
FilesOf(a) == CASE a = "claude" -> {"claude mcp", "claude settings"}
                [] a = "opencode" -> {"opencode mcp", "opencode plugin"}
                [] a = "codex" -> {"codex config"}
                [] a = "hermes" -> {"hermes config"}
FilesOn(A) == UNION {FilesOf(a) : a \in A}
ConfigFiles == FilesOn(Agents)
Owner(f) == CHOOSE a \in Agents : f \in FilesOf(a)
Servers == {"claude mcp", "opencode mcp"}
Json == {"claude mcp", "claude settings", "opencode mcp"}

Own(part) == [part |-> part, bin |-> "user", db |-> NoDb]
OwnIn(items) == {item \in ToSet(items) : item.part \in OwnParts}
OursIn(items) == {item \in ToSet(items) : item.part \in Ours}

NoFile == [exists |-> FALSE, parses |-> TRUE, items |-> <<>>]
FileWith(items) == [exists |-> TRUE, parses |-> TRUE, items |-> items]

NoArgs == [agents |-> {}, mode |-> "mcp", bin |-> "none", db |-> NoDb]
RunOver == DOMAIN todo = {}

(* An agent may hold an unmodified plugin of a release before capture.     *)
OldPlugin(b, d) == <<[part |-> "old dream", bin |-> b, db |-> d]>>

SetupInit ==
    /\ machine \in Machines
    /\ \E filled \in SUBSET FilesOn(machine), old \in BOOLEAN, b \in Bins :
          /\ file = [f \in ConfigFiles |->
                IF f \notin filled THEN NoFile
                ELSE IF f # "opencode plugin" THEN FileWith(<<Own("own hook")>>)
                ELSE FileWith(IF old THEN OldPlugin(b, NoDb) ELSE <<Own("own hook")>>)]
          /\ old => "opencode plugin" \in filled
          /\ creator = [f \in ConfigFiles |->
                IF f \notin filled THEN "none"
                ELSE IF old /\ f = "opencode plugin" THEN "memoryd" ELSE "user"]
          /\ home \in {{Owner(f) : f \in filled}, machine}
    /\ backup = [f \in ConfigFiles |-> NoFile]
    /\ todo = <<>>
    /\ copied = FALSE
    /\ args = NoArgs
    /\ started = 0
    /\ kept = [f \in ConfigFiles |-> OwnIn(file[f].items)]
    /\ edits = 0
    /\ hooks = {}
    /\ captured = [e \in 1..MaxEvents |-> [d \in Databases |-> 0]]
    /\ context = [e \in 1..MaxEvents |-> {}]

-----------------------------------------------------------------------------
(* What a run plans for each file.                                         *)
Entry(part, ar) == [part |-> part, bin |-> ar.bin, db |-> ar.db]

(* JSON: the server entry is put under its name, a hook is added to its    *)
(* event unless one with the same tail is there, whatever its binary.      *)
MergedServer(items, ar) ==
    IF \E i \in DOMAIN items : items[i].part = "mcp"
    THEN [i \in DOMAIN items |-> IF items[i].part = "mcp" THEN Entry("mcp", ar) ELSE items[i]]
    ELSE Append(items, Entry("mcp", ar))

\* Mutant of HasHook: a hook of a moved binary is not recognised.
HasHookExact(items, part, ar) == Entry(part, ar) \in ToSet(items)

HasHook(items, part, ar) == \E i \in ToSet(items) : i.part = part /\ i.db = ar.db

WithHook(items, part, ar) ==
    IF HasHook(items, part, ar) THEN items ELSE Append(items, Entry(part, ar))

MergedHooks(items, ar) ==
    LET dreams == WithHook(items, "dream", ar)
        starts == WithHook(dreams, "session-start", ar)
        prompts == WithHook(starts, "prompt", ar)
    IN  IF ar.mode = "mcp" THEN dreams ELSE WithHook(prompts, "tool", ar)

(* The plugin: an unmodified one of an old release is regenerated, any     *)
(* other file is left as it is.                                            *)
Plugin(ar) ==
    IF ar.mode = "mcp" THEN <<Entry("dream", ar)>>
    ELSE <<Entry("dream", ar), Entry("prompt", ar), Entry("tool", ar)>>

PluginContents(f, ar) ==
    IF ~file[f].exists \/ file[f].items = OldPlugin(ar.bin, ar.db)
    THEN Plugin(ar) ELSE file[f].items

(* TOML: a block is appended unless a line of the file has its marker. The *)
(* marker of the dream hook ends the command, so one with --db has none.   *)
\* Mutant of Marked: every marker ends with the command.
MarkedAtEnd(items, part) == \E i \in ToSet(items) : i.part = part /\ i.db = NoDb

Marked(items, part) ==
    \E i \in ToSet(items) : i.part = part /\ (part = "dream" => i.db = NoDb)

WithBlock(items, part, ar) ==
    IF Marked(items, part) THEN items ELSE Append(items, Entry(part, ar))

Appended(items, ar) ==
    LET servers == IF ar.mode = "hooks" THEN items ELSE WithBlock(items, "mcp", ar)
        dreams == WithBlock(servers, "dream", ar)
        starts == WithBlock(dreams, "session-start", ar)
        prompts == WithBlock(starts, "prompt", ar)
    IN  IF ar.mode = "mcp" THEN dreams ELSE WithBlock(prompts, "tool", ar)

(* YAML: a block whose top-level key is there cannot be appended; it is    *)
(* printed for the user.                                                   *)
HasKey(items, parts) == \E i \in ToSet(items) : i.part \in parts

YamlServer(items, ar) ==
    IF ar.mode = "hooks" \/ HasKey(items, {"mcp", "own mcp"}) THEN items
    ELSE Append(items, Entry("mcp", ar))

YamlHooks(items, ar) ==
    IF HasKey(items, {"dream", "tool", "own hook"}) THEN items
    ELSE IF ar.mode = "mcp" THEN Append(items, Entry("dream", ar))
    ELSE Append(Append(items, Entry("dream", ar)), Entry("tool", ar))

(* What a merge starts from: a file that does not parse yields nothing.    *)
ItemsRead(f) == IF file[f].parses THEN file[f].items ELSE <<>>

Contents(f, ar) ==
    CASE f \in Servers -> MergedServer(ItemsRead(f), ar)
      [] f = "claude settings" -> MergedHooks(ItemsRead(f), ar)
      [] f = "opencode plugin" -> PluginContents(f, ar)
      [] f = "codex config" -> Appended(ItemsRead(f), ar)
      [] f = "hermes config" -> YamlHooks(YamlServer(ItemsRead(f), ar), ar)

Planned(ar) ==
    {f \in FilesOn(ar.agents) :
        ~(f \in Servers /\ ar.mode = "hooks")}

Readable(ar) == \A f \in Planned(ar) : file[f].parses

\* Mutant of Refused: read errors are ignored.
RefusedNever(ar) == FALSE

(* A file that does not parse ends the run before anything is written.     *)
Refused(ar) == ~Readable(ar)

Writes(ar) == {f \in Planned(ar) : Contents(f, ar) # file[f].items}

(* A named agent is integrated whether it was found or not.                *)
Targets == {{a} : a \in machine} \cup {home}

Plan ==
    /\ RunOver
    /\ started < MaxRuns
    /\ started' = started + 1
    /\ \E T \in Targets, mode \in Modes, b \in Bins, d \in DbNames :
          LET ar == [agents |-> T, mode |-> mode, bin |-> b, db |-> d]
          IN  IF Refused(ar)
              THEN args' = NoArgs /\ UNCHANGED todo
              ELSE /\ args' = ar
                   /\ todo' = [f \in Writes(ar) |-> Contents(f, ar)]
    /\ copied' = FALSE
    /\ UNCHANGED <<disk, kept, edits, events>>

-----------------------------------------------------------------------------
(* The writes, in the order of the plan.                                   *)
NextWrite == LET f == SelectInSeq(FileOrder, LAMBDA x : x \in DOMAIN todo) IN FileOrder[f]

\* Mutant of NeedsBackup: each write takes a backup.
NeedsBackupAlways(f) == file[f].exists

NeedsBackup(f) == file[f].exists /\ ~backup[f].exists

TakeBackup ==
    /\ ~RunOver /\ ~copied
    /\ copied' = TRUE
    /\ backup' = IF NeedsBackup(NextWrite)
                 THEN [backup EXCEPT ![NextWrite] = file[NextWrite]] ELSE backup
    /\ UNCHANGED <<machine, file, creator, home, todo, args, started, kept, edits, events>>

(* The new contents go to a temporary file that is renamed. A file without *)
(* a backup was not there when the run looked: from here it is memoryd's.  *)
Install ==
    /\ ~RunOver /\ copied
    /\ file' = [file EXCEPT ![NextWrite] = FileWith(todo[NextWrite])]
    /\ creator' = IF backup[NextWrite].exists THEN creator
                  ELSE [creator EXCEPT ![NextWrite] = "memoryd"]
    /\ home' = home \cup {Owner(NextWrite)}
    /\ todo' = [f \in DOMAIN todo \ {NextWrite} |-> todo[f]]
    /\ copied' = FALSE
    /\ UNCHANGED <<machine, backup, args, started, kept, edits, events>>

(* The run is killed or an operation on a file fails: what it wrote stays. *)
(* A copy cut short leaves a backup with a part of the entries.            *)
Stop ==
    /\ ~RunOver
    /\ todo' = <<>>
    /\ copied' = FALSE
    /\ args' = NoArgs
    /\ \/ UNCHANGED backup
       \/ /\ ~copied /\ NeedsBackup(NextWrite)
          /\ backup' = [backup EXCEPT ![NextWrite] = FileWith(<<>>)]
    /\ UNCHANGED <<machine, file, creator, home, started, kept, edits, events>>

Integrate == Plan \/ TakeBackup \/ Install \/ Stop

-----------------------------------------------------------------------------
(* The user writes an entry, or leaves a JSON file unfinished and finishes *)
(* it later. What is written into a file that a run has read may be lost.  *)
Edit(f) ==
    /\ edits < MaxEdits
    /\ edits' = edits + 1
    /\ \/ \E p \in OwnParts :
             /\ Own(p) \notin ToSet(file[f].items)
             /\ file' = [file EXCEPT ![f] = [exists |-> TRUE, parses |-> @.parses,
                                             items |-> Append(@.items, Own(p))]]
             /\ kept' = IF f \in DOMAIN todo THEN kept
                        ELSE [kept EXCEPT ![f] = @ \cup {Own(p)}]
             /\ creator' = IF file[f].exists THEN creator
                           ELSE [creator EXCEPT ![f] = "user"]
             /\ home' = home \cup {Owner(f)}
       \/ /\ f \in Json /\ file[f].exists
          /\ file' = [file EXCEPT ![f] = [exists |-> TRUE, parses |-> ~@.parses,
                                          items |-> @.items]]
          /\ UNCHANGED <<creator, home, kept>>
    /\ UNCHANGED <<machine, backup, run, events>>

-----------------------------------------------------------------------------
(* An agent's event starts a process for each of its hooks.                *)
HooksFor(a, part) ==
    UNION {{f} \X {i \in DOMAIN file[f].items : file[f].items[i].part = part} :
           f \in FilesOf(a)}

Happened == {e \in 1..MaxEvents : \E h \in hooks : h.event = e}
NextEvent == Cardinality(Happened) + 1

\* Mutant of Steps: the prompt is captured before the recall.
StepsSwapped(part) == IF part = "prompt" THEN <<"capture", "recall">> ELSE <<"capture">>

Steps(part) == IF part = "prompt" THEN <<"recall", "capture">> ELSE <<"capture">>

Event(a, part) ==
    /\ NextEvent <= MaxEvents
    /\ \A f \in FilesOf(a) : file[f].parses
    /\ HooksFor(a, part) # {}
    /\ hooks' = hooks \cup {[event |-> NextEvent, at |-> h, left |-> Steps(part),
                             db |-> file[h[1]].items[h[2]].db] : h \in HooksFor(a, part)}
    /\ UNCHANGED <<disk, run, kept, edits, captured, context>>

Recalled(d) == {e \in 1..MaxEvents : captured[e][d] > 0}

(* A prompt's hook recalls and prints what matches, then captures; a tool  *)
(* hook captures. An error or the agent's timeout ends a hook where it is. *)
HookStep(h) ==
    /\ h.left # <<>>
    /\ \/ /\ hooks' = (hooks \ {h}) \cup {[h EXCEPT !.left = Tail(@)]}
          /\ \/ /\ Head(h.left) = "recall"
                /\ context' = [context EXCEPT ![h.event] = @ \cup Recalled(Opens[h.db])]
                /\ UNCHANGED captured
             \/ /\ Head(h.left) = "capture"
                /\ captured' = [captured EXCEPT ![h.event][Opens[h.db]] = @ + 1]
                /\ UNCHANGED context
       \/ /\ hooks' = (hooks \ {h}) \cup {[h EXCEPT !.left = <<>>]}
          /\ UNCHANGED <<captured, context>>
    /\ UNCHANGED <<disk, run, kept, edits>>

SetupNext ==
    \/ Integrate
    \/ \E f \in FilesOn(machine) : Edit(f)
    \/ \E a \in machine, part \in Capturing : Event(a, part)
    \/ \E h \in hooks : HookStep(h)

SetupSpec == SetupInit /\ [][SetupNext]_setupVars

-----------------------------------------------------------------------------
Item == [part : Ours \cup OwnParts, bin : Bins \cup {"user"}, db : DbNames]
ConfigFile == [exists : BOOLEAN, parses : BOOLEAN, items : Seq(Item)]

Arguments ==
    [agents : SUBSET Agents, mode : Modes, bin : Bins \cup {"none"}, db : DbNames]
HookProcess == [event : 1..MaxEvents, at : ConfigFiles \X (Nat \ {0}), db : DbNames,
                left : {<<"recall", "capture">>, <<"capture">>, <<>>}]

SetupTypeOK ==
    /\ file \in [ConfigFiles -> ConfigFile]
    /\ backup \in [ConfigFiles -> ConfigFile]
    /\ creator \in [ConfigFiles -> {"none", "user", "memoryd"}]
    /\ machine \in Machines /\ home \subseteq machine
    /\ DOMAIN todo \subseteq FilesOn(machine)
    /\ \A f \in DOMAIN todo : todo[f] \in Seq(Item)
    /\ copied \in BOOLEAN
    /\ args \in Arguments
    /\ started \in 0..MaxRuns /\ edits \in 0..MaxEdits
    /\ kept \in [ConfigFiles -> SUBSET Item]
    /\ hooks \subseteq HookProcess
    /\ captured \in [1..MaxEvents -> [Databases -> Nat]]
    /\ context \in [1..MaxEvents -> SUBSET (1..MaxEvents)]

-----------------------------------------------------------------------------
(* A run preserves everything else (integrate.rs, read_json_object and     *)
(* append_file_parts): what the user has in a file stays there through any *)
(* runs, interrupted and refused ones included; only what they write while *)
(* a run is about to write that file may go.                               *)
OwnEntriesKept == \A f \in ConfigFiles : kept[f] \subseteq ToSet(file[f].items)

(* The backup of a file the user made is never an already-modified config  *)
(* (integrate.rs, write_with_backup), however often integrate runs and     *)
(* wherever it stops.                                                      *)
BackupIsOriginal ==
    \A f \in ConfigFiles : creator[f] = "user" => OursIn(backup[f].items) = {}

(* Repeating a run that completed writes nothing: moved binaries, earlier  *)
(* modes and the user's edits do not make it add entries again. The Stop   *)
(* hook of Codex with --db is the exception: see the README.               *)
RunsIdempotent ==
    (RunOver /\ args # NoArgs /\ Readable(args)) =>
        \A f \in Writes(args) :
            /\ f = "codex config" /\ args.db # NoDb
            /\ Contents(f, args) = Append(file[f].items, Entry("dream", args))

(* The hooks of an event that open a database. The code tells them apart   *)
(* by the name they open it by, so two names of one database are two hooks.*)
HooksOn(e, d) == {h \in hooks : h.event = e /\ Opens[h.db] = d}

CalledByOneName(e, d) == \A g, h \in HooksOn(e, d) : g.db = h.db

(* A prompt or a tool call is captured at most once in a database, after   *)
(* any sequence of installs, upgrades and moves of the binary, unless its  *)
(* hooks call that database by different names.                            *)
CapturedOnce ==
    \A e \in 1..MaxEvents, d \in Databases : CalledByOneName(e, d) => captured[e][d] <= 1

(* The context shown with a prompt never echoes that prompt (hook.rs, run_ *)
(* fallible), although all hooks of an agent run at the same time, unless  *)
(* two of them call one database by different names.                       *)
NoEcho ==
    \A e \in 1..MaxEvents :
        (\A d \in Databases : CalledByOneName(e, d)) => e \notin context[e]

-----------------------------------------------------------------------------
(* Why they hold. A file that is there has an entry, and its backup is not *)
(* older than it.                                                          *)
FilesFormed ==
    /\ \A f \in ConfigFiles :
          /\ file[f].exists <=> file[f].items # <<>>
          /\ backup[f].exists => file[f].exists
          /\ ~backup[f].exists => backup[f].items = <<>>
    /\ \A f \in DOMAIN todo : todo[f] # <<>>

(* What the user has in a file is in what the run will put there.          *)
OwnEntriesPlanned ==
    /\ \A f \in ConfigFiles : \A x \in kept[f] : x.part \in OwnParts
    /\ \A f \in DOMAIN todo : kept[f] \subseteq ToSet(todo[f])

(* Before its backup a file of the user has no entry of memoryd.           *)
OriginalUntilBackup ==
    \A f \in ConfigFiles :
        creator[f] = "user" /\ ~backup[f].exists => OursIn(file[f].items) = {}

(* The contents a run with these arguments has nothing to add to.          *)
HooksSettled(items, ar) ==
    /\ HasHook(items, "dream", ar)
    /\ ar.mode # "mcp" => \A p \in {"session-start", "prompt", "tool"} : HasHook(items, p, ar)

BlocksSettled(items, ar) ==
    /\ ar.mode # "hooks" => Marked(items, "mcp")
    /\ ar.db = NoDb => Marked(items, "dream")
    /\ ar.mode # "mcp" => \A p \in {"session-start", "prompt", "tool"} : Marked(items, p)

SettledIn(f, items, ar) ==
    /\ f \in Servers =>
          /\ \E i \in DOMAIN items : items[i].part = "mcp"
          /\ \A i \in DOMAIN items : items[i].part = "mcp" => items[i] = Entry("mcp", ar)
    /\ f = "claude settings" => HooksSettled(items, ar)
    /\ f = "opencode plugin" => items # <<>> /\ items # OldPlugin(ar.bin, ar.db)
    /\ f = "codex config" => BlocksSettled(items, ar)
    /\ f = "hermes config" =>
          /\ ar.mode # "hooks" => HasKey(items, {"mcp", "own mcp"})
          /\ HasKey(items, {"dream", "tool", "own hook"})

RunSettles ==
    args # NoArgs =>
        /\ DOMAIN todo \subseteq Planned(args)
        /\ \A f \in Planned(args) \ DOMAIN todo : SettledIn(f, file[f].items, args)
        /\ \A f \in DOMAIN todo : SettledIn(f, todo[f], args)

(* A file has one entry for what captures a part under the name of a       *)
(* database, and the files of the servers have none.                       *)
OneCapturer(f, items) ==
    \A i, j \in DOMAIN items :
        items[i].part \in Capturing =>
            /\ f \notin Servers
            /\ items[i].part = items[j].part /\ items[i].db = items[j].db => i = j

CapturersUnique ==
    /\ \A f \in ConfigFiles : OneCapturer(f, file[f].items)
    /\ \A f \in DOMAIN todo : OneCapturer(f, todo[f])

(* Events are numbered as they come; each has one hook for the name of a   *)
(* database, and until that one ends nothing is captured there, unless the *)
(* database has another name among the hooks.                              *)
EventsNumbered == \E n \in 0..MaxEvents : Happened = 1..n

HooksApart ==
    /\ \A g, h \in hooks : g.event = h.event /\ g.db = h.db => g = h
    /\ \A h \in hooks :
          h.left # <<>> /\ CalledByOneName(h.event, Opens[h.db])
              => captured[h.event][Opens[h.db]] = 0
    /\ \A e \in (1..MaxEvents) \ Happened :
          context[e] = {} /\ \A d \in Databases : captured[e][d] = 0

FileInv ==
    /\ FilesFormed
    /\ OwnEntriesPlanned /\ OwnEntriesKept
    /\ OriginalUntilBackup /\ BackupIsOriginal
    /\ RunSettles /\ CapturersUnique

HookInv == EventsNumbered /\ HooksApart /\ CapturedOnce /\ NoEcho

SetupInv == SetupTypeOK /\ FileInv /\ HookInv

=============================================================================
