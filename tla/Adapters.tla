------------------------------ MODULE Adapters ------------------------------
(***************************************************************************)
(* The provider adapters behind the one trait: the deterministic null      *)
(* adapter, the in-process local one, the remote OpenAI-compatible one,    *)
(* and the split of one for the embeddings and one for the chat            *)
(* (adapters.rs, openaicompat.rs).                                         *)
(***************************************************************************)
EXTENDS Config

NoAdapter == [kind |-> "none", model |-> "none"]
NullAdapter == [kind |-> "null", model |-> "null-hash-32"]
LocalAdapter == [kind |-> "local", model |-> "bge-small"]
OpenAiCompat(config) ==
    [kind |-> "openai_compat", model |-> config.embedModel,
     chat |-> config.chatModel, price |-> config.usdPer1k]
Split(embed, chat) == [kind |-> "split", embed |-> embed, chat |-> chat]

Resolve(config, name) ==
    IF name = "openai_compat" THEN OpenAiCompat(config)
    ELSE IF name = "local" THEN LocalAdapter
    ELSE NullAdapter

FromProviderConfig(config) == Resolve(config, config.adapter)

EmbedFromProviderConfig(config) == Resolve(config, EffectiveEmbedAdapter(config))

-----------------------------------------------------------------------------
(* Which side of a split an operation goes to.                             *)
EmbedSide(adapter) == IF adapter.kind = "split" THEN adapter.embed ELSE adapter
ChatSide(adapter) == IF adapter.kind = "split" THEN adapter.chat ELSE adapter

Id(adapter) == ChatSide(adapter).kind
ModelId(adapter) == ChatSide(adapter).model

\* Mutant of EmbedModelId: a split adapter names its chat side.
EmbedModelOfChat(adapter) == ModelId(adapter)

EmbedModelId(adapter) == EmbedSide(adapter).model

(* The endpoint answers the probe with any status, or not at all.          *)
Reachable(adapter, endpoint) ==
    EmbedSide(adapter).kind = "openai_compat" => endpoint # "unreachable"

EmbedsSemantically(adapter) == EmbedSide(adapter).kind # "null"

(* Only a remote adapter has a chat model.                                 *)
Chats(adapter) == ChatSide(adapter).kind = "openai_compat"

(* Whether a call of the given side can be answered: the null adapter      *)
(* never fails, the remote one always fails unless its endpoint is up.     *)
MayAnswer(side, endpoint) == side.kind = "openai_compat" => endpoint = "up"
MayFail(side) == side.kind # "null"

Degraded(adapter, endpoint) == adapter.kind = "openai_compat" /\ ~Reachable(adapter, endpoint)

EffectiveForPass(adapter, endpoint) ==
    IF Degraded(adapter, endpoint) THEN LocalAdapter ELSE adapter

ForDream(embed, chat) ==
    IF Id(embed) = Id(chat) /\ ModelId(embed) = ModelId(chat) THEN chat
    ELSE Split(embed, chat)

=============================================================================
