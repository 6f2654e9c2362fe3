--------------------------- MODULE MCHooksAndHttp ---------------------------
(* Instances of AgentSetup and Http for TLC: the two ways agents reach     *)
(* memoryd besides MCP. They share nothing the models keep: a behaviour is *)
(* one of the runs of integrate and their hooks, or one of the threads of  *)
(* the server, while the other stays as it begins.                         *)
EXTENDS AgentSetup, Http, TLC

VARIABLE way    \* the way of this behaviour

\* Which agents share a machine, and two names of one database.
MCMachines == {{"claude"}, {"opencode"}, {"codex", "hermes"}}
MCOpens == ("default" :> "home") @@ ("d" :> "home")

HooksInit ==
    /\ way = "hooks"
    /\ SetupInit
    /\ Init /\ ~token

HttpInit ==
    /\ way = "http"
    /\ SetupInit /\ machine = {"claude"} /\ home = {"claude"} /\ \A f \in ConfigFiles : ~file[f].exists
    /\ Init

WayInit == HooksInit \/ HttpInit

WayNext ==
    \/ way = "hooks" /\ SetupNext /\ UNCHANGED <<way, vars>>
    \/ way = "http" /\ Next /\ UNCHANGED <<way, setupVars>>

WaySpec == WayInit /\ [][WayNext]_<<way, setupVars, vars>>

=============================================================================
