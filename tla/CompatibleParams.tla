-------------------------- MODULE CompatibleParams --------------------------
(***************************************************************************)
(* The providers that declare how they differ from OpenAI: what they leave *)
(* out of its tables, what they add, and the model they send when the      *)
(* caller names none.                                                      *)
(*                                                                         *)
(* Source: open-ai-base/index.ts and open-ai-base/define.ts, and           *)
(* providers/<name>/index.ts, one definition for each provider.            *)
(***************************************************************************)
EXTENDS ChatParams, TaskParams

(* The default replaces OpenAI's own, which is no other provider's model.  *)
DefaultModel == <<Must(Word("model"))>>
NoDefaultModel == <<Must(Plain("model"))>>

chatCompleteParams(exclude, model, extra) ==
  Spread(Exclude(exclude,
                 Spread(OpenAIChatCompleteConfig, <<Made("messages")>> \o model)),
         extra)

completeParams(exclude, model, extra) ==
  Spread(Exclude(exclude,
           model
           \o <<Word("prompt"), Number("max_tokens", Unset, 0, Far),
                Number("temperature", Unset, 0, 200),
                Number("top_p", Unset, 0, 100), Number("n", 100, -Far, Far),
                Plain("stream"), Number("logprobs", Unset, -Far, 500),
                Word("echo"), Plain("stop"),
                Number("presence_penalty", Unset, -200, 200),
                Number("frequency_penalty", Unset, -200, 200)>>
           \o Same(<<"best_of", "logit_bias", "user", "seed", "suffix">>)),
         extra)

createModelResponseParams(extra) ==
  Spread(OpenAICreateModelResponseConfig, extra)

imageGenerateParams(model) == Spread(OpenAIImageGenerateConfig, model)

-----------------------------------------------------------------------------
AI21Config ==
  chatCompleteParams(
    {"audio", "frequency_penalty", "function_call", "functions", "logit_bias",
     "logprobs", "metadata", "modalities", "parallel_tool_calls", "prediction",
     "presence_penalty", "prompt_cache_key", "prompt_cache_retention",
     "reasoning_effort", "safety_identifier", "seed", "service_tier", "store",
     "stream_options", "tool_choice", "top_logprobs", "user", "verbosity",
     "web_search_options"},
    NoDefaultModel,
    <<Plain("documents"),
      To("max_tokens", Number("max_completion_tokens", Unset, 0, Far))>>)

AIBadgrConfig == chatCompleteParams({}, NoDefaultModel, <<>>)

CerebrasChat == chatCompleteParams({}, NoDefaultModel, <<>>)
CerebrasComplete ==
  completeParams({"frequency_penalty", "presence_penalty", "logit_bias",
                  "best_of", "n", "suffix"},
                 NoDefaultModel, <<Number("logprobs", Unset, 0, 2000)>>)

DashScopeConfig ==
  chatCompleteParams({}, DefaultModel,
    Same(<<"top_k", "repetition_penalty", "stop", "enable_search",
           "enable_thinking", "thinking_budget">>))

DatabricksChat ==
  chatCompleteParams({}, NoDefaultModel, Same(<<"thinking", "reasoning_effort">>))
DatabricksComplete == completeParams({}, NoDefaultModel, <<>>)

EmpirioLabsChat == chatCompleteParams({}, NoDefaultModel, <<>>)
EmpirioLabsComplete ==
  completeParams({"n", "logprobs", "echo", "presence_penalty",
                  "frequency_penalty", "best_of", "user", "seed", "suffix"},
                 NoDefaultModel, <<>>)
EmpirioLabsImage == imageGenerateParams(NoDefaultModel)

FeatherlessAIChat == chatCompleteParams({}, DefaultModel, <<>>)
FeatherlessAIComplete == completeParams({}, DefaultModel, <<>>)

GroqChat ==
  chatCompleteParams({"logprobs", "logit_bias", "top_logprobs"},
    NoDefaultModel, Same(<<"service_tier", "reasoning_effort">>))
GroqResponse == createModelResponseParams(<<>>)

HyperbolicSampling ==
  <<Number("top_k", -100, -Far, Far), Number("min_p", 0, 0, 100),
    Number("repetition_penalty", 100, -Far, Far)>>
HyperbolicChat == chatCompleteParams({}, NoDefaultModel, HyperbolicSampling)
HyperbolicComplete == completeParams({}, NoDefaultModel, HyperbolicSampling)

InferenceNetConfig == chatCompleteParams({}, DefaultModel, <<>>)

IOIntelligenceChat == chatCompleteParams({}, NoDefaultModel, <<>>)
IOIntelligenceResponse == createModelResponseParams(<<>>)

KlusterAIConfig ==
  chatCompleteParams({}, DefaultModel,
                     <<Plain("store"), Must(Plain("metadata"))>>)

KrutrimConfig == chatCompleteParams({}, DefaultModel, <<>>)

LambdaChat == chatCompleteParams({}, DefaultModel, <<>>)
LambdaComplete == completeParams({}, DefaultModel, <<>>)

LemonfoxAIConfig ==
  chatCompleteParams({"functions", "function_call", "n", "logit_bias", "user",
                      "seed", "tools", "tool_choice", "response_format",
                      "logprobs", "stream_options"}, DefaultModel, <<>>)

ModalConfig == chatCompleteParams({}, NoDefaultModel, <<>>)

NebiusChat == chatCompleteParams({}, NoDefaultModel, <<>>)
NebiusComplete == completeParams({}, NoDefaultModel, <<>>)

NextBitChat == chatCompleteParams({}, DefaultModel, <<>>)
NextBitComplete == completeParams({}, DefaultModel, <<>>)

NscaleChat ==
  chatCompleteParams({"functions", "function_call", "user", "seed", "tools",
                      "tool_choice", "stream_options"}, NoDefaultModel, <<>>)
NscaleComplete == completeParams({"user"}, NoDefaultModel, <<>>)

OVHcloudConfig == chatCompleteParams({}, DefaultModel, <<>>)

RequestyConfig == chatCompleteParams({}, DefaultModel, <<>>)

SaladCloudConfig ==
  chatCompleteParams(
    {"audio", "logit_bias", "logprobs", "metadata", "modalities",
     "parallel_tool_calls", "prediction", "prompt_cache_key",
     "prompt_cache_retention", "safety_identifier", "service_tier", "store",
     "top_logprobs", "verbosity", "web_search_options"},
    DefaultModel, Same(<<"top_k", "chat_template_kwargs">>))

SambaNovaChat ==
  chatCompleteParams({"functions", "function_call", "presence_penalty",
                      "frequency_penalty", "logit_bias", "user", "seed",
                      "tools", "tool_choice", "response_format", "logprobs"},
                     NoDefaultModel, <<>>)
SambaNovaComplete ==
  completeParams({"presence_penalty", "frequency_penalty", "user", "logprobs"},
                 NoDefaultModel, <<>>)

SCXAIConfig ==
  chatCompleteParams({"logprobs", "top_logprobs", "n", "logit_bias"},
                     NoDefaultModel, <<>>)

UpstageConfig == chatCompleteParams({}, DefaultModel, <<>>)

XAIChat == chatCompleteParams({}, DefaultModel, <<>>)
XAIComplete == completeParams({}, DefaultModel, <<>>)
XAIResponse == createModelResponseParams(<<>>)

ZAIConfig == chatCompleteParams({}, DefaultModel, <<>>)

(* Vertex's own endpoints, and Azure's responses.                          *)
VertexEndpointConfig ==
  chatCompleteParams({"model"}, NoDefaultModel, <<Made("model")>>)
AzureOpenAIResponse == createModelResponseParams(<<Made("model")>>)
=============================================================================
