------------------------------- MODULE Config -------------------------------
(***************************************************************************)
(* The configuration of memoryd: the answers of `memoryd setup`, the       *)
(* environment file they become, what a shell that sources it exports, the *)
(* settings read from it, and the validation every command starts with     *)
(* (main.rs, config.rs).                                                   *)
(*                                                                         *)
(* A setting that may be absent is a set of at most one value. A number    *)
(* the code cannot parse, or does not accept, is a value outside Nat. Of a *)
(* text only what a check tells apart remains: whether a URL is an http    *)
(* one, whether a key or a token is blank, and how long a token is.        *)
(***************************************************************************)
EXTENDS Integers

CONSTANT MaxRetainDays  \* MAX_RETAIN_DAYS

ASSUME RetainAssumption == MaxRetainDays \in Nat

Unset == {}
Given(setting, default) ==
    IF setting = Unset THEN default ELSE CHOOSE value \in setting : TRUE

-----------------------------------------------------------------------------
(* An environment: the MEMORYD_ variables, by name.                        *)
NoVariable ==
    [ADAPTER |-> Unset, EMBED_ADAPTER |-> Unset, AUTO_APPROVE |-> Unset,
     SPEND_CAP_USD |-> Unset, BASE_URL |-> Unset, API_KEY |-> Unset,
     API_KEY_FILE |-> Unset, RETAIN_RAW_DAYS |-> Unset,
     RETAIN_RAW_EMBED_DAYS |-> Unset, EMBED_MODEL |-> Unset,
     CHAT_MODEL |-> Unset, USD_PER_1K |-> Unset]

(* The file that `setup` writes. An empty answer leaves its variable out;  *)
(* a local adapter is asked only for the retention.                        *)
SetupEnv(answers) ==
    LET remote == answers.adapter = "openai_compat"
        Asked(answer) == IF remote THEN answer ELSE Unset
    IN  [NoVariable EXCEPT
            !.ADAPTER = {answers.adapter},
            !.BASE_URL = Asked({answers.baseUrl}),
            !.API_KEY_FILE = Asked(answers.apiKeyFile),
            !.EMBED_MODEL = Asked({answers.embedModel}),
            !.CHAT_MODEL = Asked({answers.chatModel}),
            !.USD_PER_1K = Asked({answers.usdPer1k}),
            !.SPEND_CAP_USD = Asked({answers.spendCap}),
            !.RETAIN_RAW_DAYS = {answers.retainRawDays} \ {0}]

(* set -a; source <file>: what the file does not name keeps its value.     *)
Sourced(shell, file) ==
    [name \in DOMAIN shell |-> IF file[name] = Unset THEN shell[name] ELSE file[name]]

-----------------------------------------------------------------------------
Defaults ==
    [bind |-> "loopback", token |-> Unset, adapter |-> "local", embedAdapter |-> Unset,
     autoApprove |-> TRUE, spendCap |-> 0, baseUrl |-> "https", apiKey |-> Unset,
     embedModel |-> "text-embedding-3-small", chatModel |-> "gpt-4o-mini",
     usdPer1k |-> 0, retainRaw |-> 0, retainEmbeddings |-> 0]

(* A key file is named by what is in it.                                   *)
EnvIsRead(env) ==
    /\ env.SPEND_CAP_USD \subseteq Nat
    /\ env.USD_PER_1K \subseteq Nat
    /\ env.RETAIN_RAW_DAYS \cup env.RETAIN_RAW_EMBED_DAYS \subseteq 0..MaxRetainDays
    /\ "unreadable" \notin env.API_KEY_FILE

ApplyEnv(config, env) ==
    [config EXCEPT
        !.adapter = Given(env.ADAPTER, @),
        !.embedAdapter = IF env.EMBED_ADAPTER = Unset THEN @ ELSE env.EMBED_ADAPTER,
        !.autoApprove = IF env.AUTO_APPROVE = Unset THEN @
                        ELSE env.AUTO_APPROVE \subseteq {"1", "true", "yes", "on"},
        !.spendCap = Given(env.SPEND_CAP_USD, @),
        !.baseUrl = Given(env.BASE_URL, @),
        !.apiKey = IF env.API_KEY_FILE # Unset THEN env.API_KEY_FILE
                   ELSE IF env.API_KEY # Unset THEN env.API_KEY ELSE @,
        !.retainRaw = Given(env.RETAIN_RAW_DAYS, @),
        !.retainEmbeddings = Given(env.RETAIN_RAW_EMBED_DAYS, @),
        !.embedModel = Given(env.EMBED_MODEL, @),
        !.chatModel = Given(env.CHAT_MODEL, @),
        !.usdPer1k = Given(env.USD_PER_1K, @)]

(* A command line: the bind address, the token, --adapter.                 *)
CommandLine(env, flags) ==
    LET config == [Defaults EXCEPT !.bind = flags.bind, !.token = flags.token]
    IN  [ApplyEnv(config, env) EXCEPT !.adapter = Given(flags.adapter, @)]

-----------------------------------------------------------------------------
Adapters == {"null", "local", "openai_compat"}
InProcess == {"null", "local"}

BindIsGuarded(config) ==
    /\ "blank" \notin config.token
    /\ config.bind = "loopback" \/ "long" \in config.token

AdaptersAreKnown(config) == {config.adapter} \cup config.embedAdapter \subseteq Adapters

EndpointIsUsable(config) ==
    config.adapter = "openai_compat" =>
        config.baseUrl \in {"http", "https"} /\ "blank" \notin config.apiKey

\* Mutant of BudgetIsGiven: a remote adapter starts without a spend cap.
BudgetIsNotAsked(config) == config.spendCap >= 0

BudgetIsGiven(config) == config.adapter \in InProcess \/ config.spendCap # 0

Validate(config) ==
    /\ BindIsGuarded(config)
    /\ AdaptersAreKnown(config)
    /\ EndpointIsUsable(config)
    /\ BudgetIsGiven(config)

(* Every command but `setup` starts like this, or exits.                   *)
Starts(env, flags) == EnvIsRead(env) /\ Validate(CommandLine(env, flags))

EffectiveEmbedAdapter(config) ==
    Given(config.embedAdapter, IF config.adapter = "null" THEN "null" ELSE "local")

=============================================================================
