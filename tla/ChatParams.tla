----------------------------- MODULE ChatParams ------------------------------
(*****************************************************************************)
(* The tables by which the providers with a dialect or a list of their own   *)
(* read a chat completion.                                                   *)
(*                                                                           *)
(* Source: providers/<name>/chatComplete.ts, one definition for each table.  *)
(*****************************************************************************)
EXTENDS ParamTables

(* What the transforms several rows share are made from.                   *)
MakeGeneration(p) ==
  [Makes({"temperature", "top_p", "top_k", "max_tokens", "max_completion_tokens",
          "stop", "response_format", "logprobs", "top_logprobs", "seed",
          "thinking", "modalities", "reasoning_effort", "image_config",
          "media_resolution"}, p)
     EXCEPT !.over = {<<"max_completion_tokens", "max_tokens">>}]

MakeOutput(p) == Makes({"response_format", "reasoning_effort"}, p)

MakeInference(p) ==
  [Makes({"max_tokens", "max_completion_tokens", "stop", "temperature",
          "top_p"}, p)
     EXCEPT !.truthy = {"max_tokens", "max_completion_tokens"},
            !.over = {<<"max_tokens", "max_completion_tokens">>}]

AdditionalFields ==
  {"additionalModelRequestFields", "additional_model_request_fields"}
FirstNamed ==
  {<<"additionalModelRequestFields", "additional_model_request_fields">>}
MakeAdditional(p) ==
  [Makes(AdditionalFields \union {"top_k", "response_format"}, p)
     EXCEPT !.over = FirstNamed]
MakeAnthropicAdditional(p) ==
  [Makes(AdditionalFields \union
         {"top_k", "anthropic_version", "user", "thinking", "response_format",
          "reasoning_effort", "anthropic_beta"}, p)
     EXCEPT !.over = FirstNamed]
MakeCohereAdditional(p) ==
  [MakesTruthy(AdditionalFields \union
               {"top_k", "n", "frequency_penalty", "presence_penalty",
                "logit_bias"}, p)
     EXCEPT !.over = FirstNamed]
MakeAI21Additional(p) ==
  [MakesTruthy(AdditionalFields \union
               {"top_k", "frequency_penalty", "presence_penalty",
                "frequencyPenalty", "presencePenalty", "countPenalty"}, p)
     EXCEPT !.over = FirstNamed \union
              {<<"frequencyPenalty", "frequency_penalty">>,
               <<"presencePenalty", "presence_penalty">>}]

-----------------------------------------------------------------------------
VertexGoogleChatCompleteConfig ==
  <<Must(Word("model")),
    To("contents", Makes({"messages", "model"}, "messages")),
    To("systemInstruction", Made("messages"))>>
  \o Together("generationConfig", <<"temperature", "top_p", "top_k",
                "max_tokens", "max_completion_tokens", "stop",
                "response_format", "logprobs",
                "top_logprobs">>, MakeGeneration)
  \o <<Plain("safety_settings"), Made("tools"),
       To("tool_config", MustMake({"tool_choice", "tools"}, "tool_choice")),
       Plain("labels")>>
  \o Together("generationConfig", <<"thinking", "seed", "modalities",
                "reasoning_effort", "image_config",
                "media_resolution">>, MakeGeneration)
  \o <<To("cachedContent", Plain("cached_content"))>>

GoogleChatCompleteConfig ==
  <<Must(Word("model")),
    To("contents", Makes({"messages", "model"}, "messages")),
    To("systemInstruction", Made("messages"))>>
  \o Together("generationConfig", <<"temperature", "top_p", "top_k",
                "max_tokens", "max_completion_tokens", "stop",
                "response_format", "logprobs",
                "top_logprobs">>, MakeGeneration)
  \o <<Made("tools"),
       To("tool_config", Makes({"tool_choice", "tools"}, "tool_choice"))>>
  \o Together("generationConfig", <<"thinking", "seed", "modalities",
                "reasoning_effort", "image_config",
                "media_resolution">>, MakeGeneration)
  \o <<To("cachedContent", Plain("cached_content"))>>

AnthropicChatCompleteConfig ==
  <<Must(Word("model")), Made("messages"), To("system", Made("messages")),
    Made("tools"), Made("tool_choice"),
    Must(Number("max_tokens", 6400000, -Far, Far)),
    To("max_tokens", Plain("max_completion_tokens")),
    Number("temperature", 100, 0, 100), Number("top_p", -100, -100, Far),
    Number("top_k", -100, -Far, Far), To("stop_sequences", Plain("stop")),
    Word("stream"), To("metadata.user_id", Plain("user")),
    Plain("thinking")>>
  \o Together("output_config", <<"response_format",
                "reasoning_effort">>, MakeOutput)
  \o Same(<<"cache_control">>)

(* { ...AnthropicChatCompleteConfig, service_tier }.                       *)
AnthropicChat == AnthropicChatCompleteConfig \o <<Made("service_tier")>>

OracleChatDetailsConfig ==
  <<To("frequencyPenalty", Number("frequency_penalty", Unset, -200, 200)),
    Made("messages"), To("maxTokens", Number("max_tokens", 10000, 0, Far)),
    To("maxTokens", Number("max_completion_tokens", 10000, 0, Far)),
    To("numGenerations", Plain("n")), Number("temperature", 100, 0, 200),
    To("toolChoice", Made("tool_choice")), Made("tools"),
    To("topP", Number("top_p", 100, 0, 100)),
    To("logitBias", Plain("logit_bias")), To("logProbs", Plain("logprobs")),
    To("presencePenalty", Number("presence_penalty", Unset, -200, 200)),
    Plain("seed"), To("isStream", Word("stream")), Plain("stop"),
    To("compartmentId", Plain("compartment_id")),
    To("servingMode", Plain("serving_mode")),
    Must(To("apiFormat", Word("api_format"))),
    To("isEcho", Plain("is_echo")), To("topK", Plain("top_k"))>>

BedrockConverseChatCompleteConfig ==
  <<Made("messages"), To("system", Made("messages")),
    To("toolConfig", Makes({"model", "tool_choice", "tools"}, "tools")),
    Plain("guardrailConfig"),
    To("guardrailConfig", Plain("guardrail_config")),
    Plain("additionalModelResponseFieldPaths"),
    To("additionalModelResponseFieldPaths",
       Plain("additional_model_response_field_paths"))>>
  \o Together("inferenceConfig", <<"max_tokens", "max_completion_tokens",
                "stop", "temperature", "top_p">>, MakeInference)
  \o Together("additionalModelRequestFields", <<
                "additionalModelRequestFields",
                "additional_model_request_fields">>, MakeAdditional)
  \o <<To("performanceConfig", Plain("performance_config"))>>

LeptonChatCompleteConfig ==
  <<Plain("model"), Plain("messages"), Number("temperature", 70, 0, 200),
    Number("top_p", 100, 0, 100), Number("n", 100, -Far, Far),
    Number("max_tokens", 25600, 0, Far), Plain("stop"), Word("stream"),
    Plain("stream_options"), Number("presence_penalty", 0, -200, 200),
    Number("frequency_penalty", 0, -200, 200)>>
  \o Same(<<"logit_bias", "user", "tools", "seed">>)
  \o <<Word("logprobs"), Number("top_logprobs", 0, -Far, Far),
       Plain("chat_template_kwargs"),
       Number("length_penalty", 100, -Far, Far),
       Number("repetition_penalty", 100, -Far, Far),
       Number("dry_multiplier", 0, -Far, Far),
       Number("dry_base", 175, -Far, Far),
       Number("dry_allowed_length", 200, -Far, Far),
       Word("do_early_stopping"), Number("beam_size", 100, -Far, Far),
       Number("top_k", 5000, -Far, Far), Number("min_p", 0, -Far, Far),
       Plain("id"), Word("require_audio"), Word("tts_preset_id"),
       Word("tts_audio_format"),
       Number("tts_audio_bitrate", 6400, -Far, Far),
       Plain("audio_history_b64"), Word("for_quant_calibration")>>

OpenAIChatCompleteConfig ==
  <<Must(Word("model")), Word("messages"), Plain("functions"),
    Plain("function_call"), Number("max_tokens", 10000, 0, Far),
    Number("temperature", 100, 0, 200), Number("top_p", 100, 0, 100),
    Number("n", 100, -Far, Far), Word("stream"), Plain("stop"),
    Number("presence_penalty", Unset, -200, 200),
    Number("frequency_penalty", Unset, -200, 200)>>
  \o Same(<<"logit_bias", "user", "seed", "tools", "tool_choice",
            "response_format">>)
  \o <<Word("logprobs")>>
  \o Same(<<"top_logprobs", "stream_options", "service_tier",
            "parallel_tool_calls", "max_completion_tokens", "store",
            "metadata", "modalities", "audio", "prediction",
            "reasoning_effort", "web_search_options", "prompt_cache_key",
            "prompt_cache_retention", "safety_identifier", "verbosity">>)

AzureOpenAIChatCompleteConfig ==
  <<Made("model"), Word("messages"), Plain("functions"),
    Plain("function_call"), Number("max_tokens", 10000, 0, Far),
    Number("max_completion_tokens", 10000, 0, Far),
    Number("temperature", 100, 0, 200), Number("top_p", 100, 0, 100),
    Number("n", 100, -Far, Far), Word("stream"), Plain("stop"),
    Number("presence_penalty", Unset, -200, 200),
    Number("frequency_penalty", Unset, -200, 200)>>
  \o Same(<<"logit_bias", "user", "tools", "tool_choice", "response_format",
            "store", "metadata", "modalities", "audio", "seed", "prediction",
            "reasoning_effort", "stream_options">>)
  \o <<Word("logprobs")>>
  \o Same(<<"top_logprobs", "web_search_options", "prompt_cache_key",
            "prompt_cache_retention", "safety_identifier", "verbosity">>)

AzureAIInferenceChatCompleteConfig ==
  <<Plain("model"), Made("messages"), Number("max_tokens", 10000, 0, Far),
    Number("max_completion_tokens", 10000, 0, Far),
    Number("temperature", 100, 0, 200), Number("top_p", 100, 0, 100),
    Word("stream"), Plain("stop"),
    Number("presence_penalty", Unset, -200, 200),
    Number("frequency_penalty", Unset, -200, 200)>>
  \o Same(<<"user", "tools", "tool_choice", "response_format">>)
  \o <<Number("n", 100, -Far, Far), Word("logprobs")>>
  \o Same(<<"top_logprobs", "logit_bias", "store", "metadata", "modalities",
            "audio", "seed", "prediction", "reasoning_effort",
            "stream_options", "web_search_options", "prompt_cache_key",
            "prompt_cache_retention", "safety_identifier", "verbosity">>)

RekaAIChatCompleteConfig ==
  <<Must(To("model_name", Word("model"))),
    To("conversation_history", Made("messages")),
    To("request_output_len", Plain("max_tokens")),
    To("request_output_len", Plain("max_completion_tokens")),
    Plain("temperature"), To("runtime_top_p", Plain("top_p")),
    To("stop_words", Plain("stop")), To("random_seed", Plain("seed")),
    Plain("frequency_penalty"), Plain("presence_penalty"),
    To("runtime_top_k", Plain("top_k"))>>
  \o Same(<<"length_penalty", "retrieval_dataset", "use_search_engine">>)

CohereChatCompleteConfig ==
  <<Word("stream"), Plain("model"), Made("messages"), Plain("max_tokens"),
    To("stop_sequences", Plain("stop"))>>
  \o Same(<<"temperature", "seed", "frequency_penalty", "presence_penalty",
            "response_format">>)
  \o <<To("strict_tools", Made("response_format")), To("p", Plain("top_p")),
       Plain("tools"), Made("tool_choice")>>
  \o Same(<<"documents", "citation_options", "safety_mode", "k",
            "thinking">>)

MistralAIChatCompleteConfig ==
  <<MustMake({"model"}, "model"), Made("messages"),
    Number("temperature", 70, 0, 100), Number("top_p", 100, 0, 100),
    Number("max_tokens", Unset, 100, Far),
    To("max_tokens", Number("max_completion_tokens", Unset, 100, Far)),
    Word("stream"), To("random_seed", Word("seed")), Word("safe_prompt"),
    To("safe_prompt", Word("safe_mode")), Word("prompt"), Word("suffix"),
    Word("tools"), Made("tool_choice"), Word("parallel_tool_calls"),
    Made("response_format")>>

DeepbricksChatCompleteConfig ==
  <<Must(Word("model")), Made("messages"), Plain("functions"),
    Plain("function_call"), Number("max_tokens", 10000, 0, Far),
    To("max_tokens", Number("max_completion_tokens", 10000, 0, Far)),
    Number("temperature", 100, 0, 200), Number("top_p", 100, 0, 100),
    Number("n", 100, -Far, Far), Word("stream"), Plain("stop"),
    Number("presence_penalty", Unset, -200, 200),
    Number("frequency_penalty", Unset, -200, 200)>>
  \o Same(<<"logit_bias", "user", "seed", "tools", "tool_choice",
            "response_format">>)
  \o <<Word("logprobs"), Plain("top_logprobs"), Plain("stream_options")>>

FireworksAIChatCompleteConfig ==
  <<Plain("model"), MustMake({"messages"}, "messages"), Plain("tools"),
    Number("max_tokens", 20000, 100, Far),
    To("max_tokens", Number("max_completion_tokens", 20000, 100, Far)),
    Number("prompt_truncate_len", 150000, -Far, Far),
    Number("temperature", 100, 0, 200), Number("top_p", 100, 0, 100),
    Number("top_k", Unset, 100, 12800),
    Number("frequency_penalty", Unset, -200, 200),
    Number("presence_penalty", Unset, -200, 200),
    Number("n", 100, 100, 12800), Plain("stop"), Plain("response_format"),
    Word("stream")>>
  \o Same(<<"context_length_exceeded_behavior", "user", "logprobs",
            "top_logprobs", "prompt_cache_max_len">>)

OpenrouterChatCompleteConfig ==
  <<Must(Word("model")), Made("messages"),
    Number("max_tokens", 10000, 0, Far),
    To("max_tokens", Number("max_completion_tokens", 10000, 0, Far)),
    Number("temperature", 100, 0, 200), Plain("modalities"),
    Makes({"reasoning", "reasoning_effort"}, "reasoning"),
    To("reasoning", Makes({"reasoning", "reasoning_effort"}, "reasoning_effort")),
    Number("top_p", 100, 0, 100)>>
  \o Same(<<"tools", "tool_choice", "transforms", "provider", "models">>)
  \o <<Makes({"usage", "stream_options"}, "usage"), Word("stream"),
       To("usage", Makes({"usage", "stream_options"}, "stream_options")),
       Plain("response_format")>>

AnyscaleChatCompleteConfig ==
  <<Must(Word("model")), Made("messages"), Plain("functions"),
    Plain("function_call"), Number("max_tokens", 10000, 0, Far),
    To("max_tokens", Number("max_completion_tokens", 10000, 0, Far)),
    Number("temperature", 100, 0, 200), Number("top_p", 100, 0, 100),
    Number("n", 100, -Far, Far), Word("stream"), Plain("stop"),
    Number("presence_penalty", Unset, -200, 200),
    Number("frequency_penalty", Unset, -200, 200)>>
  \o Same(<<"logit_bias", "user", "tools", "tool_choice",
            "response_format">>)
  \o <<Word("logprobs"), Plain("top_logprobs")>>

DeepSeekChatCompleteConfig ==
  <<Must(Word("model")), Made("messages"), Word("response_format"),
    Number("max_tokens", 10000, 0, Far),
    To("max_tokens", Number("max_completion_tokens", 10000, 0, Far)),
    Number("temperature", 100, 0, 200), Number("top_p", 100, 0, 100),
    Word("stream"), Plain("stream_options"),
    Number("frequency_penalty", 0, -200, 200),
    Number("presence_penalty", 0, -200, 200), Word("stop"), Word("logprobs"),
    Number("top_logprobs", 0, 0, 2000)>>
  \o Same(<<"tools", "tool_choice", "thinking">>)

PredibaseChatCompleteConfig ==
  <<Made("model"), MustMake({"messages"}, "messages"),
    Number("max_tokens", 409600, 0, Far),
    To("max_tokens", Number("max_completion_tokens", 409600, 0, Far)),
    Number("temperature", 10, 0, 100), Number("top_p", 100, 0, 100),
    Plain("response_format"), Word("stream"), Number("n", 100, 100, 100),
    Plain("stop"), Number("top_k", -100, -Far, Far), Plain("best_of")>>

HuggingfaceChatCompleteConfig ==
  <<Plain("model"), Made("messages"), Plain("functions"),
    Plain("function_call"), Number("max_tokens", 10000, 0, Far),
    To("max_tokens", Number("max_completion_tokens", 10000, 0, Far)),
    Number("temperature", 100, 0, 200), Number("top_p", 100, 0, 100),
    Number("n", 100, -Far, Far), Word("stream"), Plain("stop"),
    Number("presence_penalty", Unset, -200, 200),
    Number("frequency_penalty", Unset, -200, 200)>>
  \o Same(<<"logit_bias", "user", "tools", "tool_choice",
            "response_format">>)

BedrockCohereChatCompleteConfig ==
  <<To("prompt", Made("messages")), Number("max_tokens", 2000, 100, Far),
    To("max_tokens", Number("max_completion_tokens", 2000, 100, Far)),
    Number("temperature", 75, 0, 500), To("p", Number("top_p", 75, 0, 100)),
    To("k", Number("top_k", 0, -Far, 50000)),
    Number("frequency_penalty", 0, 0, 100),
    Number("presence_penalty", 0, 0, 100), Plain("logit_bias"),
    To("num_generations", Number("n", 100, 100, 500)),
    To("end_sequences", Plain("stop")), Plain("stream")>>

PerplexityAIChatCompleteConfig ==
  <<Must(Word("model")), MustMake({"messages"}, "messages"),
    Number("max_tokens", Unset, 100, Far),
    To("max_tokens", Number("max_completion_tokens", Unset, 100, Far)),
    Number("temperature", Unset, 0, 200), Number("top_p", Unset, 0, 100),
    Plain("search_domain_filter"), Number("top_k", Unset, 0, 204800),
    Word("stream"), Number("presence_penalty", Unset, -200, 200),
    To("repetition_penalty", Plain("frequency_penalty")),
    Number("n", Unset, 100, 100)>>
  \o Same(<<"web_search_options", "response_format",
            "search_recency_filter">>)

NCompassChatCompleteConfig ==
  <<Must(Word("model")), MustMake({"messages"}, "messages"),
    Number("frequency_penalty", 0, -200, 200),
    Number("max_tokens", 10000, 100, Far),
    To("max_tokens", Number("max_completion_tokens", 10000, 100, Far)),
    Number("n", 100, 100, 100), Number("presence_penalty", 0, -200, 200),
    Number("temperature", 100, 0, 200), Number("top_p", 100, 0, 100),
    Word("stop"), Word("stream")>>
  \o Same(<<"tools", "tool_choice", "parallel_tool_calls">>)

LatitudeChatCompleteConfig ==
  <<Must(Word("model")), Made("messages"), Word("response_format"),
    Number("max_tokens", 10000, 0, Far),
    To("max_tokens", Number("max_completion_tokens", 10000, 0, Far)),
    Number("temperature", 100, 0, 200), Number("top_p", 100, 0, 100),
    Word("stream"), Number("frequency_penalty", 0, -200, 200),
    Number("presence_penalty", 0, -200, 200), Word("stop"), Word("seed"),
    Word("tools"), Word("tool_choice")>>

DeepInfraChatCompleteConfig ==
  <<Must(Word("model")), MustMake({"messages"}, "messages"),
    Number("frequency_penalty", 0, -200, 200),
    Number("max_tokens", 10000, 100, Far),
    To("max_tokens", Number("max_completion_tokens", 10000, 100, Far)),
    Number("n", 100, 100, 100), Number("presence_penalty", 0, -200, 200),
    Number("temperature", 100, 0, 200), Number("top_p", 100, 0, 100),
    Word("stop"), Word("stream")>>
  \o Same(<<"tools", "tool_choice", "parallel_tool_calls">>)

OllamaChatCompleteConfig ==
  <<Must(Word("model")), Made("messages"),
    Number("frequency_penalty", Unset, -200, 200),
    Number("presence_penalty", Unset, -200, 200)>>
  \o Same(<<"response_format", "seed", "stop">>)
  \o <<Word("stream"), Number("temperature", 100, 0, 200),
       Number("top_p", 100, 0, 100), Number("max_tokens", 10000, 0, Far),
       To("max_tokens", Number("max_completion_tokens", 10000, 0, Far)),
       Plain("tools"), To("think", Made("thinking"))>>

WorkersAiChatCompleteConfig ==
  <<Plain("model"), Made("messages"), Word("stream"),
    Plain("stream_options"), Plain("max_tokens"),
    To("max_tokens", Plain("max_completion_tokens"))>>
  \o Same(<<"temperature", "top_p", "frequency_penalty", "presence_penalty",
            "seed", "stop", "n", "response_format", "tools", "tool_choice">>)

BedrockAI21ChatCompleteConfig ==
  <<To("prompt", Made("messages")),
    To("maxTokens", Number("max_tokens", 20000, -Far, Far)),
    To("maxTokens", Number("max_completion_tokens", 20000, -Far, Far)),
    Number("temperature", 70, 0, 100),
    To("topP", Number("top_p", 100, -Far, Far)),
    To("stopSequences", Plain("stop")),
    To("presencePenalty", Made("presence_penalty")),
    To("frequencyPenalty", Made("frequency_penalty"))>>
  \o Same(<<"countPenalty", "frequencyPenalty", "presencePenalty">>)

NovitaAIChatCompleteConfig ==
  <<Must(Word("model")), MustMake({"messages"}, "messages"),
    Must(Number("max_tokens", 12800, 100, Far)),
    To("max_tokens", Number("max_completion_tokens", 12800, 100, Far))>>
  \o Same(<<"stop", "temperature", "top_p", "n", "top_k">>)
  \o <<Number("presence_penalty", Unset, -200, 200),
       Number("frequency_penalty", Unset, -200, 200), Word("stream")>>
  \o Same(<<"logprobs", "tools", "tool_choice", "response_format">>)

TogetherAIChatCompleteConfig ==
  <<Must(Word("model")), MustMake({"messages"}, "messages"),
    Must(Number("max_tokens", 12800, 100, Far)),
    To("max_tokens", Number("max_completion_tokens", 12800, 100, Far))>>
  \o Same(<<"stop", "temperature", "top_p", "top_k">>)
  \o <<To("repetition_penalty", Plain("frequency_penalty")), Word("stream")>>
  \o Same(<<"logprobs", "tools", "tool_choice", "response_format",
            "reasoning_effort">>)

PalmChatCompleteConfig ==
  <<Must(Word("model")), To("prompt", Makes({"messages", "examples", "context"}, "messages")),
    Number("temperature", 100, 0, 100),
    To("topP", Number("top_p", 100, 0, 100)),
    To("topK", Number("top_k", 100, 0, 100)),
    To("candidateCount", Number("n", 100, 100, 800)),
    To("maxOutputTokens", Number("max_tokens", 10000, 100, Far)),
    To("maxOutputTokens", Number("max_completion_tokens", 10000, 100, Far)),
    To("stopSequences", Plain("stop"))>>

SiliconFlowChatCompleteConfig ==
  <<Must(Word("model")), Made("messages"),
    Number("max_tokens", 10000, 0, Far),
    To("max_tokens", Number("max_completion_tokens", 10000, 0, Far)),
    Number("temperature", 100, 0, 200), Number("top_p", 100, 0, 100),
    Number("n", 100, -Far, Far), Word("stream"), Plain("stop"),
    Number("presence_penalty", Unset, -200, 200),
    Number("frequency_penalty", Unset, -200, 200)>>

AI302ChatCompleteConfig ==
  <<Must(Word("model")), Word("messages"),
    Number("max_tokens", 10000, 0, Far), Number("temperature", 100, 0, 200),
    Number("top_p", 100, 0, 100), Word("stream"),
    Number("frequency_penalty", 0, -200, 200),
    Number("presence_penalty", 0, -200, 200), Word("stop")>>
  \o Same(<<"tools", "tool_choice", "parallel_tool_calls">>)

MoonshotChatCompleteConfig ==
  <<Must(Word("model")), Made("messages"),
    Number("max_tokens", 10000, 0, Far),
    To("max_tokens", Number("max_completion_tokens", 10000, 0, Far)),
    Number("temperature", 100, 0, 200), Number("top_p", 100, 0, 100),
    Word("stream")>>
  \o Same(<<"tools", "tool_choice", "parallel_tool_calls">>)

LingyiChatCompleteConfig ==
  <<Must(Word("model")), Made("messages"),
    Number("max_tokens", 10000, 0, Far),
    To("max_tokens", Number("max_completion_tokens", 10000, 0, Far)),
    Number("temperature", 100, 0, 200), Number("top_p", 100, 0, 100),
    Word("stream")>>
  \o Same(<<"tools", "tool_choice", "parallel_tool_calls">>)

VertexLlamaChatCompleteConfig ==
  <<MustMake({"model"}, "model"), Must(Word("messages")),
    Number("max_tokens", 51200, 100, 204800),
    To("max_tokens", Number("max_completion_tokens", 51200, 100, 204800)),
    Number("temperature", 50, 0, 100), Number("top_p", 90, 0, 100),
    Number("top_k", 0, 0, 204800), Word("stream")>>

ZhipuChatCompleteConfig ==
  <<Must(Word("model")), Made("messages"),
    Number("max_tokens", 10000, 0, Far), Number("temperature", 100, 0, 200),
    Number("top_p", 100, 0, 100), Word("stream")>>
  \o Same(<<"tools", "tool_choice", "parallel_tool_calls">>)

MonsterAPIChatCompleteConfig ==
  <<Number("top_k", Unset, 100, 2000), Number("top_p", Unset, 0, 100),
    Number("temperature", Unset, 0, 100),
    Number("max_length", Unset, 100, 204800),
    Number("repetition_penalty", Unset, 0, Far),
    Number("beam_size", Unset, 100, Far), Must(Word("model")),
    MustMake({"messages"}, "messages")>>

OracleChatCompleteConfig ==
  <<To("chatRequest",
       [Makes(Params(OracleChatDetailsConfig) \union {"model"}, "model")
          EXCEPT !.over = {<<"max_completion_tokens", "max_tokens">>}]),
    To("compartmentId", Makes({"oracleCompartmentId"}, "model")),
    To("servingMode", MustMake({"model", "oracleServingMode"}, "model"))>>

BytezInferenceChatCompleteConfig ==
  <<Plain("messages"),
    To("params.max_new_tokens", Number("max_tokens", 10000, 0, Far)),
    To("params.temperature", Number("temperature", 100, 0, 200)),
    To("params.top_p", Number("top_p", 100, 0, 100)), Word("stream")>>

BedrockConverseAnthropicChatCompleteConfig ==
  Spread(BedrockConverseChatCompleteConfig,
    Together("additionalModelRequestFields", <<"additionalModelRequestFields",
               "additional_model_request_fields", "top_k", "anthropic_version",
               "user", "thinking", "anthropic_beta", "reasoning_effort",
               "response_format">>, MakeAnthropicAdditional))

BedrockConverseAI21ChatCompleteConfig ==
  Spread(BedrockConverseChatCompleteConfig,
    Together("additionalModelRequestFields", <<"additionalModelRequestFields",
               "additional_model_request_fields", "top_k", "frequency_penalty",
               "presence_penalty", "frequencyPenalty", "presencePenalty",
               "countPenalty">>, MakeAI21Additional))

BedrockConverseCohereChatCompleteConfig ==
  Spread(BedrockConverseChatCompleteConfig,
    Together("additionalModelRequestFields", <<"additionalModelRequestFields",
               "additional_model_request_fields", "top_k", "frequency_penalty",
               "presence_penalty", "logit_bias", "n">>, MakeCohereAdditional))

(* Its model is named in the path: the row makes it undefined, which no    *)
(* body carries.                                                           *)
VertexAnthropicChatCompleteConfig ==
  Exclude({"model"},
    Spread(AnthropicChatCompleteConfig,
           <<MustMake({"anthropic_version"}, "anthropic_version")>>))

MatterAIChatCompleteConfig ==
  Spread(OpenAIChatCompleteConfig, <<Must(Word("model"))>>)

CometAPIChatCompleteConfig ==
  Spread(OpenAIChatCompleteConfig, <<Must(Word("model"))>>)
==============================================================================
