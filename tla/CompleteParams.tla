--------------------------- MODULE CompleteParams ----------------------------
(*****************************************************************************)
(* The tables by which the same providers read a text completion.            *)
(*                                                                           *)
(* Source: providers/<name>/complete.ts, one definition for each table.      *)
(*****************************************************************************)
EXTENDS ParamTables

MakeTitan(p) ==
  MakesTruthy({"temperature", "top_p", "max_tokens", "stop"}, p)

LeptonCompleteConfig ==
  Same(<<"model", "prompt", "suffix">>)
  \o <<Number("temperature", 70, 0, 200), Number("n", 100, -Far, Far),
       Number("max_tokens", 25600, 0, Far), Plain("stop"), Word("stream"),
       Plain("stream_options"), Number("top_p", 100, 0, 100),
       Plain("logprobs"), Word("echo"),
       Number("presence_penalty", 0, -200, 200),
       Number("frequency_penalty", 0, -200, 200)>>
  \o Same(<<"logit_bias", "user", "seed">>)
  \o <<Number("length_penalty", 100, -Far, Far),
       Number("repetition_penalty", 100, -Far, Far),
       Number("dry_multiplier", 0, -Far, Far),
       Number("dry_base", 175, -Far, Far),
       Number("dry_allowed_length", 200, -Far, Far),
       Word("do_early_stopping"), Number("beam_size", 100, -Far, Far),
       Number("top_k", 5000, -Far, Far), Number("min_p", 0, -Far, Far),
       Plain("id"), Word("require_audio"), Word("tts_preset_id"),
       Word("tts_audio_format"),
       Number("tts_audio_bitrate", 6400, -Far, Far),
       Plain("audio_history_b64"), Word("for_quant_calibration")>>

OpenAICompleteConfig ==
  <<Must(Word("model")), Word("prompt"), Number("max_tokens", 10000, 0, Far),
    Number("temperature", 100, 0, 200), Number("top_p", 100, 0, 100),
    Number("n", 100, -Far, Far), Word("stream"),
    Number("logprobs", Unset, -Far, 500), Word("echo"), Plain("stop"),
    Number("presence_penalty", Unset, -200, 200),
    Number("frequency_penalty", Unset, -200, 200)>>
  \o Same(<<"best_of", "logit_bias", "user", "seed", "suffix",
            "stream_options">>)

FireworksAICompleteConfig ==
  <<Plain("model"), Plain("prompt"), Number("max_tokens", 1600, 0, Far),
    Number("logprobs", Unset, 0, 500), Plain("echo"),
    Number("temperature", 100, 0, 200), Number("top_p", 100, 0, 100),
    Number("top_k", Unset, 100, 12800),
    Number("frequency_penalty", Unset, -200, 200),
    Number("presence_penalty", Unset, -200, 200),
    Number("n", 100, 100, 12800), Plain("stop"), Plain("response_format"),
    Word("stream"), Plain("context_length_exceeded_behavior"),
    Plain("user")>>

AnyscaleCompleteConfig ==
  <<Must(Word("model")), Word("prompt"), Number("max_tokens", 10000, 0, Far),
    Number("temperature", 100, 0, 200), Number("top_p", 100, 0, 100),
    Number("n", 100, -Far, Far), Word("stream"),
    Number("logprobs", Unset, -Far, 500), Word("echo"), Plain("stop"),
    Number("presence_penalty", Unset, -200, 200),
    Number("frequency_penalty", Unset, -200, 200)>>
  \o Same(<<"best_of", "logit_bias", "user">>)

HuggingfaceCompleteConfig ==
  <<Plain("model"), Word("prompt"), Number("max_tokens", 10000, 0, Far),
    Number("temperature", 100, 0, 200), Number("top_p", 100, 0, 100),
    Number("n", 100, -Far, Far), Word("stream"),
    Number("logprobs", Unset, -Far, 500), Word("echo"), Plain("stop"),
    Number("presence_penalty", Unset, -200, 200),
    Number("frequency_penalty", Unset, -200, 200)>>
  \o Same(<<"best_of", "logit_bias", "user">>)

AzureOpenAICompleteConfig ==
  <<Plain("model"), Word("prompt"), Number("max_tokens", 10000, 0, Far),
    Number("temperature", 100, 0, 200), Number("top_p", 100, 0, 100),
    Number("n", 100, -Far, Far), Word("stream"),
    Number("logprobs", Unset, -Far, 500), Word("echo"), Plain("stop"),
    Number("presence_penalty", Unset, -200, 200),
    Number("frequency_penalty", Unset, -200, 200)>>
  \o Same(<<"best_of", "logit_bias", "user">>)

CohereCompleteConfig ==
  <<Must(Word("model")), Plain("prompt"),
    Number("max_tokens", 2000, 100, Far), Number("temperature", 75, 0, 500),
    To("p", Number("top_p", 75, 0, 100)),
    To("k", Number("top_k", 0, -Far, 50000)),
    Number("frequency_penalty", 0, 0, 100),
    Number("presence_penalty", 0, 0, 100), Plain("logit_bias"),
    To("num_generations", Number("n", 100, 100, 500)),
    To("end_sequences", Plain("stop")), Word("stream")>>

BedrockCohereCompleteConfig ==
  <<Plain("prompt"), Number("max_tokens", 2000, 100, Far),
    Number("temperature", 75, 0, 500), To("p", Number("top_p", 75, 0, 100)),
    To("k", Number("top_k", 0, -Far, 50000)),
    Number("frequency_penalty", 0, 0, 100),
    Number("presence_penalty", 0, 0, 100), Plain("logit_bias"),
    To("num_generations", Number("n", 100, 100, 500)),
    To("end_sequences", Plain("stop")), Plain("stream")>>

PalmCompleteConfig ==
  <<Must(Word("model")), Made("prompt"), Number("temperature", 100, 0, 100),
    To("topP", Number("top_p", 100, 0, 100)),
    To("topK", Number("top_k", 100, 0, 100)),
    To("candidateCount", Number("n", 100, 100, 800)),
    To("maxOutputTokens", Number("max_tokens", 10000, 100, Far)),
    To("stopSequences", Plain("stop"))>>

BedrockAI21CompleteConfig ==
  <<Plain("prompt"), To("maxTokens", Number("max_tokens", 20000, -Far, Far)),
    Number("temperature", 70, 0, 100),
    To("topP", Number("top_p", 100, -Far, Far)),
    To("stopSequences", Plain("stop")),
    To("presencePenalty", Made("presence_penalty")),
    To("frequencyPenalty", Made("frequency_penalty"))>>
  \o Same(<<"countPenalty", "frequencyPenalty", "presencePenalty">>)

AzureAIInferenceCompleteConfig ==
  <<Plain("model"), Word("prompt"), Number("max_tokens", 10000, 0, Far),
    Number("temperature", 100, 0, 200), Number("top_p", 100, 0, 100),
    Word("stream"), Plain("stop"),
    Number("presence_penalty", Unset, -200, 200),
    Number("frequency_penalty", Unset, -200, 200), Plain("user")>>

AnthropicCompleteConfig ==
  <<Must(Word("model")), Made("prompt"),
    To("max_tokens_to_sample", Plain("max_tokens")),
    Number("temperature", 100, 0, 100), Number("top_p", -100, -100, Far),
    Number("top_k", -100, -Far, Far), To("stop_sequences", Made("stop")),
    Word("stream"), To("metadata.user_id", Plain("user"))>>

TogetherAICompleteConfig ==
  <<Must(Word("model")), Must(Word("prompt")),
    Must(Number("max_tokens", 12800, 100, Far))>>
  \o Same(<<"stop", "temperature", "top_p", "top_k">>)
  \o <<To("repetition_penalty", Plain("frequency_penalty")), Word("stream"),
       Plain("logprobs")>>

NovitaAICompleteConfig ==
  <<Must(Word("model")), Must(Word("prompt")),
    Must(Number("max_tokens", 12800, 100, Far))>>
  \o Same(<<"stop", "temperature", "top_p", "top_k">>)
  \o <<To("repetition_penalty", Plain("frequency_penalty")), Word("stream"),
       Plain("logprobs")>>

BedrockAnthropicCompleteConfig ==
  <<Made("prompt"), To("max_tokens_to_sample", Plain("max_tokens")),
    Number("temperature", 100, 0, 100), Number("top_p", -100, -100, Far),
    Number("top_k", -100, -Far, Far), To("stop_sequences", Made("stop")),
    To("metadata.user_id", Plain("user"))>>

TritonCompleteConfig ==
  <<To("text_input", Plain("prompt")),
    Must(Number("max_tokens", 10000, -Far, Far)),
    Must(Number("temperature", 70, 0, 100)),
    Must(Number("top_p", 70, -Far, Far)),
    Must(Number("top_k", 5000, -Far, Far)), To("stop_words", Plain("stop")),
    Plain("bad_words")>>

BedrockMistralCompleteConfig ==
  <<Plain("prompt"), Number("max_tokens", 2000, 100, Far),
    Number("temperature", 75, 0, 500), Number("top_p", 75, 0, 100),
    Number("top_k", 0, -Far, Far), Plain("stop")>>

BedrockLLamaCompleteConfig ==
  <<Plain("prompt"),
    To("max_gen_len", Number("max_tokens", 51200, 100, 204800)),
    Number("temperature", 50, 0, 100), Number("top_p", 90, 0, 100)>>

BedrockTitanCompleteConfig ==
  <<To("inputText", Plain("prompt"))>>
  \o Together("textGenerationConfig", <<"temperature", "max_tokens",
                "top_p">>, MakeTitan)

WorkersAiCompleteConfig ==
  <<Made("prompt"), Word("stream"), Plain("raw"), Plain("max_tokens")>>
==============================================================================
