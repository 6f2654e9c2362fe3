----------------------------- MODULE MCProvider -----------------------------
(* Instances of Provider for TLC. The environments are those of a shell    *)
(* that may already export something and sources what `setup` wrote; the   *)
(* jobs are alike.                                                         *)
EXTENDS Provider, TLC

JobSymmetry == Permutations(Jobs)

LocalAnswers ==
    [adapter |-> "local", baseUrl |-> "https", apiKeyFile |-> Unset, embedModel |-> "remote-embed",
     chatModel |-> "remote-chat", usdPer1k |-> 0, spendCap |-> 1, retainRawDays |-> 0]
RemoteAnswers == [LocalAnswers EXCEPT !.adapter = "openai_compat", !.usdPer1k = 1]

MCAnswers ==
    {LocalAnswers, RemoteAnswers,
     [RemoteAnswers EXCEPT !.spendCap = 0],
     [RemoteAnswers EXCEPT !.spendCap = -1],
     [RemoteAnswers EXCEPT !.apiKeyFile = {"blank"}],
     [RemoteAnswers EXCEPT !.baseUrl = "no URL"],
     [LocalAnswers EXCEPT !.retainRawDays = MaxRetainDays + 1]}

MCShells ==
    {NoVariable,
     [NoVariable EXCEPT !.EMBED_ADAPTER = {"openai_compat"}],
     [NoVariable EXCEPT !.EMBED_ADAPTER = {"null"}]}

MCEnvironments ==
    MCShells \cup {Sourced(shell, SetupEnv(answers)) : shell \in MCShells, answers \in MCAnswers}

Flags == [bind |-> "loopback", token |-> Unset, adapter |-> Unset]

MCCommandLines ==
    {Flags, [Flags EXCEPT !.adapter = {"openai_compat"}],
     [Flags EXCEPT !.bind = "remote", !.token = {"short"}]}

=============================================================================
