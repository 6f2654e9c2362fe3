---------------------------- MODULE Transcripts ----------------------------
(***************************************************************************)
(* The session histories other agents keep, and how memoryd reads them     *)
(* into units to import (importers.rs, import.rs): the transcripts of      *)
(* Claude Code and Codex, the databases of OpenCode and Hermes, and the    *)
(* generic JSONL export.                                                   *)
(*                                                                         *)
(* A text is a sequence of pieces, the blank text <<>>; joining blocks is  *)
(* concatenation (the white space between them does not count for the      *)
(* content hash). A line of a transcript and a row of a database have the  *)
(* same shape, of which each agent uses some fields:                       *)
(*   type     the kind of record, "broken" for one that does not parse     *)
(*   role     who speaks                                                   *)
(*   session  its session, None when the record names none                 *)
(*   message  the message a database row is a part of                      *)
(*   aside    off the main chain (Claude) or synthetic (OpenCode)          *)
(*   blocks   its content, each block with a type and a text               *)
(*   at       <<>>, <<number>> or <<year, month, day, second, offset>>     *)
(* Instants are in seconds; the numbers of records in thousands.           *)
(***************************************************************************)
EXTENDS Integers, Sequences, SequencesExt

CONSTANTS
    None,        \* no session, no time
    Secrets,     \* pieces redaction replaces
    TextCap      \* IMPORT_TEXT_CAP, in pieces

ASSUME TextCapAssumption == TextCap \in Nat

-----------------------------------------------------------------------------
Block == [type : STRING, text : Seq(STRING)]
Line == [type : STRING, role : STRING \cup {None}, session : STRING \cup {None},
         message : Nat \ {0}, aside : BOOLEAN, blocks : Seq(Block), at : Seq(Int)]

-----------------------------------------------------------------------------
(* Instants.                                                               *)

\* Mutant of DaysFromCivil: the year starts in January.
DaysFromCivilJanuary(year, month, day) ==
    LET era == year \div 400
        yearOfEra == year % 400
        dayOfYear == (153 * ((month + 9) % 12) + 2) \div 5 + day - 1
    IN  era * 146097 + yearOfEra * 365 + yearOfEra \div 4 - yearOfEra \div 100
            + dayOfYear - 719468

(* Days since 1970-01-01, counting years from March.                       *)
DaysFromCivil(year, month, day) ==
    LET shifted == IF month <= 2 THEN year - 1 ELSE year
        era == shifted \div 400
        yearOfEra == shifted % 400
        dayOfYear == (153 * ((month + 9) % 12) + 2) \div 5 + day - 1
    IN  era * 146097 + yearOfEra * 365 + yearOfEra \div 4 - yearOfEra \div 100
            + dayOfYear - 719468

(* A written date; one out of range is no date at all.                     *)
WrittenTime(at) ==
    IF at[2] \in 1..12 /\ at[3] \in 1..31 /\ 0 <= at[4] /\ at[4] < 86400
    THEN <<DaysFromCivil(at[1], at[2], at[3]) * 86400 + at[4] - at[5] * 60>>
    ELSE <<>>

(* A number of a database: beyond 10^12 it is in milliseconds.             *)
NumberTime(kilo) ==
    IF kilo <= 0 THEN <<>> ELSE IF kilo > 1000000000 THEN <<kilo>> ELSE <<kilo * 1000>>

(* Claude Code and Codex are read by their written dates, the databases by *)
(* their numbers, and a generic export by its ts_ms or ts, which is taken  *)
(* for milliseconds whatever its size and sign.                            *)
DateOf(at) == IF Len(at) = 5 THEN WrittenTime(at) ELSE <<>>

NumberOf(at) == IF Len(at) = 1 THEN NumberTime(at[1]) ELSE <<>>

\* Mutant of MillisOf: the numbers of an export are scaled as those of a database.
MillisScaled(at) == NumberOf(at)

MillisOf(at) == IF Len(at) = 1 THEN <<at[1]>> ELSE <<>>

(* <<instant>>, or <<>> when memoryd reads no time from the record.        *)
TimeOf(agent, line) ==
    IF agent \in {"claude", "codex"} THEN DateOf(line.at)
    ELSE IF agent \in {"opencode", "hermes"} THEN NumberOf(line.at)
    ELSE MillisOf(line.at)

-----------------------------------------------------------------------------
(* Texts and units.                                                        *)

Joined(blocks, types) ==
    FlattenSeq([i \in DOMAIN blocks |->
        IF blocks[i].type \in types THEN blocks[i].text ELSE <<>>])

Truncated(text) ==
    IF Len(text) > TextCap THEN Append(SubSeq(text, 1, TextCap), "...") ELSE text

Redacted(text) == [i \in DOMAIN text |-> IF text[i] \in Secrets THEN "REDACTED" ELSE text[i]]

(* The unit of a text, none for a blank one.                               *)
UnitOf(role, text, session, time) ==
    IF text = <<>> THEN <<>>
    ELSE << [role |-> role, text |-> Truncated(text), session |-> session, time |-> time] >>

(* What content_hash covers of a redacted unit: the session is not in it.  *)
ContentHash(u) == <<u.role, Redacted(u.text)>>

-----------------------------------------------------------------------------
(* Claude Code: user and assistant records of the main chain; each tool    *)
(* result is a unit of its own. A plain string is one block of type        *)
(* "plain", which only a user record may have.                             *)

ClaudeUnits(line) ==
    LET session == line.session
        UnitFor(role, text) == UnitOf(role, text, session, TimeOf("claude", line))
        results == [i \in DOMAIN line.blocks |->
                        IF line.blocks[i].type = "tool_result"
                        THEN UnitFor("tool", line.blocks[i].text) ELSE <<>>]
    IN  IF line.aside THEN <<>>
        ELSE CASE line.type = "user" ->
                    UnitFor("user", Joined(line.blocks, {"text", "plain"}))
                      \o FlattenSeq(results)
               [] line.type = "assistant" -> UnitFor("assistant", Joined(line.blocks, {"text"}))
               [] OTHER -> <<>>

ParseClaude(lines) == FlattenSeq([i \in DOMAIN lines |-> ClaudeUnits(lines[i])])

-----------------------------------------------------------------------------
(* Codex: a session_meta line names the session of the lines after it.     *)

\* Mutant of CodexSession: the last session_meta of the file names them all.
CodexSessionLast(lines, i) ==
    LET metas == SelectSeq(lines, LAMBDA l : l.type = "session_meta" /\ l.session # None)
    IN  IF metas = <<>> THEN None ELSE metas[Len(metas)].session

NamesSession(line) == line.type = "session_meta" /\ line.session # None

CodexSession(lines, i) ==
    LET session[j \in Nat] == IF j = 0 THEN None
                              ELSE IF NamesSession(lines[j]) THEN lines[j].session
                              ELSE session[j - 1]
    IN  session[i]

CodexUnits(line, session) ==
    LET text == Joined(line.blocks, {"text"})
    IN  CASE line.type = "message" /\ line.role \in {"user", "assistant"} ->
                UnitOf(line.role, text, session, TimeOf("codex", line))
          [] line.type = "function_call_output" ->
                UnitOf("tool", text, session, TimeOf("codex", line))
          [] OTHER -> <<>>

ParseCodex(lines) ==
    FlattenSeq([i \in DOMAIN lines |-> CodexUnits(lines[i], CodexSession(lines, i))])

-----------------------------------------------------------------------------
(* OpenCode: the parts of a message accumulate and become units when the   *)
(* next message begins: its texts one unit, each tool result its own.      *)

NoMessage == [open |-> FALSE, role |-> None, session |-> None, time |-> <<>>,
              texts |-> <<>>, tools |-> <<>>]

(* The header of a message; one of another role is dropped, parts and all. *)
FromData(row) ==
    IF row.role \in {"user", "assistant"} /\ row.session # None
    THEN [NoMessage EXCEPT !.open = TRUE, !.role = row.role, !.session = row.session,
                           !.time = TimeOf("opencode", row)]
    ELSE NoMessage

Flush(message) ==
    UnitOf(message.role, FlattenSeq(message.texts), message.session, message.time)
      \o FlattenSeq([i \in DOMAIN message.tools |->
            UnitOf("tool", message.tools[i], message.session, message.time)])

(* The blocks of a part that carry text to import.                         *)
Payload(row, type) ==
    IF row.type = type /\ ~(type = "text" /\ row.aside)
    THEN << Joined(row.blocks, {"text"}) >>
    ELSE <<>>

WithPart(message, row) ==
    IF ~message.open THEN message
    ELSE [message EXCEPT !.texts = @ \o Payload(row, "text"),
                         !.tools = @ \o Payload(row, "tool")]

\* Mutant of Accumulate: a message that is dropped leaves the last one open.
AccumulateKeeping(acc, row) ==
    IF row.message = acc.id THEN [acc EXCEPT !.pending = WithPart(@, row)]
    ELSE IF FromData(row).open
    THEN [id |-> row.message, units |-> acc.units \o Flush(acc.pending),
          pending |-> WithPart(FromData(row), row)]
    ELSE [acc EXCEPT !.id = row.message, !.pending = WithPart(@, row)]

Accumulate(acc, row) ==
    IF row.message = acc.id
    THEN [acc EXCEPT !.pending = WithPart(@, row)]
    ELSE [id |-> row.message,
          units |-> acc.units \o Flush(acc.pending),
          pending |-> WithPart(FromData(row), row)]

AccumulateOpencode(rows) ==
    LET end == FoldLeft(Accumulate, [id |-> 0, units |-> <<>>, pending |-> NoMessage], rows)
    IN  end.units \o Flush(end.pending)

Messages(rows) == { rows[i].message : i \in DOMAIN rows }

(* ORDER BY message, part: parts are numbered as they are written.         *)
ByMessage(rows) ==
    FlattenSeq([i \in 1..Cardinality(Messages(rows)) |->
        LET id == SetToSortSeq(Messages(rows), <)[i]
        IN  FlattenSeq([j \in DOMAIN rows |->
                IF rows[j].message = id THEN <<rows[j]>> ELSE <<>>])])

ParseOpencode(rows) == AccumulateOpencode(ByMessage(rows))

-----------------------------------------------------------------------------
(* Hermes: one message per row. Generic JSONL: one text per line, and one  *)
(* bad line refuses the whole file.                                        *)

HermesUnits(row) ==
    IF row.role \in {"user", "assistant", "tool"} /\ row.session # None
    THEN UnitOf(row.role, Joined(row.blocks, {"text"}), row.session, TimeOf("hermes", row))
    ELSE <<>>

ParseHermes(rows) == FlattenSeq([i \in DOMAIN rows |-> HermesUnits(rows[i])])

JsonlRefused(lines) ==
    \E i \in DOMAIN lines :
        lines[i].type = "broken" \/ Joined(lines[i].blocks, {"text"}) = <<>>

ParseJsonl(lines) ==
    [i \in DOMAIN lines |->
        [role |-> "import", text |-> Joined(lines[i].blocks, {"text"}),
         session |-> lines[i].session, time |-> TimeOf("jsonl", lines[i])]]

TranscriptAgents == {"claude", "codex", "opencode", "hermes", "jsonl"}

Parse(agent, lines) ==
    CASE agent = "claude" -> ParseClaude(lines)
      [] agent = "codex" -> ParseCodex(lines)
      [] agent = "opencode" -> ParseOpencode(lines)
      [] agent = "hermes" -> ParseHermes(lines)
      [] agent = "jsonl" -> ParseJsonl(lines)

(* Import errors: none of an agent's transcripts is refused for a line.    *)
TranscriptRefused(agent, lines) == agent = "jsonl" /\ JsonlRefused(lines)

=============================================================================
