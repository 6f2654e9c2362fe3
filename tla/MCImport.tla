------------------------------ MODULE MCImport ------------------------------
(* Instances of Import for TLC: a short history of each agent. Instants    *)
(* sit at the edges of the calendar: a leap day with an offset, the turn   *)
(* of a year, seconds and milliseconds in databases, a generic export in   *)
(* seconds; some records have a time in the notation of another agent.     *)
EXTENDS Import

Blank == [type |-> "", role |-> None, session |-> "s1", message |-> 1,
          aside |-> FALSE, blocks |-> <<>>, at |-> <<>>]

Leaf(type, text) == [type |-> type, text |-> text]

\* Two files that share a text; a bad line, a side chain and a secret.
ClaudeHistory ==
    [agent |-> "claude", files |-> <<
        << [Blank EXCEPT !.type = "user", !.blocks = <<Leaf("plain", <<"yes">>)>>,
                         !.at = <<2024, 2, 29, 86399, -300>>],
           [Blank EXCEPT !.type = "assistant", !.aside = TRUE,
                         !.blocks = <<Leaf("text", <<"aside">>)>>],
           [Blank EXCEPT !.type = "user",
                         !.blocks = <<Leaf("text", <<"go">>), Leaf("tool_result", <<"key">>)>>] >>,
        << [Blank EXCEPT !.type = "broken"],
           [Blank EXCEPT !.type = "user", !.session = "s2", !.blocks = <<Leaf("text", <<"yes">>)>>,
                         !.at = <<1600000>>]
        >> >>]

\* A rollout that is resumed as another session, and one too large.
CodexHistory ==
    [agent |-> "codex", files |-> <<
        << [Blank EXCEPT !.type = "session_meta"],
           [Blank EXCEPT !.type = "message", !.role = "user",
                         !.blocks = <<Leaf("text", <<"run", "it", "now">>)>>,
                         !.at = <<2023, 12, 31, 86399, 0>>],
           [Blank EXCEPT !.type = "session_meta", !.session = "s2"],
           [Blank EXCEPT !.type = "function_call_output", !.session = "s9",
                         !.blocks = <<Leaf("text", <<"done">>)>>, !.at = <<1600000>>] >> >>]

\* Messages whose parts interleave, one of a role that is dropped.
OpencodeHistory ==
    [agent |-> "opencode", files |-> <<
        << [Blank EXCEPT !.type = "text", !.role = "user", !.blocks = <<Leaf("text", <<"q">>)>>,
                         !.at = <<1700000>>],
           [Blank EXCEPT !.type = "tool", !.role = "assistant", !.message = 2,
                         !.blocks = <<Leaf("text", <<"out">>)>>, !.at = <<1700001000>>],
           [Blank EXCEPT !.type = "text", !.role = "user", !.blocks = <<Leaf("text", <<"r">>)>>,
                         !.at = <<1700000>>],
           [Blank EXCEPT !.type = "text", !.role = "system", !.message = 3,
                         !.blocks = <<Leaf("text", <<"rules">>)>>] >> >>]

HermesHistory ==
    [agent |-> "hermes", files |-> <<
        << [Blank EXCEPT !.role = "user", !.blocks = <<Leaf("text", <<"h">>)>>, !.at = <<1709164>>],
           [Blank EXCEPT !.role = "user", !.blocks = <<Leaf("text", <<"i">>)>>,
                         !.at = <<2023, 12, 31, 86399, 0>>],
           [Blank EXCEPT !.role = "tool", !.blocks = <<Leaf("text", <<"h">>)>>,
                         !.at = <<1709165000>>] >> >>]

\* A generic export of seconds, which are read as milliseconds, in January
\* 1970; its last line is bad.
JsonlHistory ==
    [agent |-> "jsonl", files |-> <<
        << [Blank EXCEPT !.blocks = <<Leaf("text", <<"x", "y", "z">>)>>, !.at = <<1700000>>],
           [Blank EXCEPT !.type = "broken"] >> >>]

MCHistories ==
    <<ClaudeHistory, CodexHistory, OpencodeHistory, HermesHistory, JsonlHistory>>

=============================================================================
