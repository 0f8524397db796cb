----------------------------- MODULE TaskParams ------------------------------
(*****************************************************************************)
(* The tables by which providers read a request for an image, and for a      *)
(* response.                                                                 *)
(*                                                                           *)
(* Source: providers/<name>/imageGenerate.ts and                             *)
(* open-ai-base/createModelResponse.ts, one definition for each table.       *)
(*****************************************************************************)
EXTENDS ParamTables

MakeImage(p) ==
  MakesTruthy({"n", "quality", "style", "aspectRatio", "seed",
               "negativePrompt", "personGeneration", "safetySetting",
               "addWatermark", "mimeType"}, p)

(* One side of a size, "1024x768": a number a bound applies to.  What does *)
(* not name one is no number, and keeps to no bound and to no default.     *)
Side(p, lo, hi) == Number(p, Unset, lo, hi)

SegmindImageGenerateConfig ==
  <<Plain("prompt"), To("samples", Number("n", 100, 100, 1000)),
    To("img_height", Side("size", -Far, Far)),
    To("img_width", Side("size", -Far, Far)), Word("style"),
    Must(To("num_inference_steps", Number("steps", 2000, -Far, Far))),
    Word("negative_prompt"), Word("scheduler"),
    Number("guidance_scale", 750, -Far, Far), Word("seed"),
    Number("strength", 75, -Far, Far), Word("refiner"),
    Number("high_noise_fraction", 80, -Far, Far),
    MustMake({"base64"}, "base64"), Number("control_scale", 180, -Far, Far),
    Number("control_start", 19, -Far, Far),
    Number("control_end", 100, -Far, Far), Word("qr_text"), Word("invert"),
    To("size", Number("qr_size", 76800, -Far, Far))>>

FireworksAIImageGenerateConfig ==
  <<To("text_prompts", Made("prompt")), Must(Word("model")),
    To("height", Side("size", 51200, 102400)),
    To("width", Side("size", 51200, 102400)),
    Number("cfg_scale", 700, -Far, Far), Plain("sampler"),
    To("samples", Number("n", 100, 100, 1000)),
    Number("seed", Unset, 0, Far), Number("steps", 5000, 1000, 15000)>>
  \o Same(<<"safety_check", "lora_adapter_name", "lora_weight_filename">>)

GoogleImageGenConfig ==
  <<To("instances", Made("prompt"))>>
  \o Together("parameters", <<"n", "quality", "style", "aspectRatio", "seed",
                "negativePrompt", "personGeneration", "safetySetting",
                "addWatermark", "mimeType">>, MakeImage)

OpenAIImageGenerateConfig ==
  <<Plain("prompt"), Must(Word("model")), Number("n", Unset, 100, 1000)>>
  \o Same(<<"quality", "response_format", "size", "style", "user",
            "moderation", "output_format">>)
  \o <<Number("output_compression", Unset, 0, 10000), Plain("background"),
       Number("partial_images", Unset, 0, 300), Plain("stream")>>

AzureOpenAIImageGenerateConfig ==
  <<Plain("prompt"), Must(Word("model")), Number("n", Unset, 100, 1000)>>
  \o Same(<<"quality", "response_format", "size", "style", "user",
            "moderation", "output_format">>)
  \o <<Number("output_compression", Unset, 0, 10000), Plain("background"),
       Number("partial_images", Unset, 0, 300), Plain("stream")>>

StabilityAIImageGenerateV1Config ==
  <<To("text_prompts", Made("prompt")),
    To("samples", Number("n", Unset, 100, 1000)),
    To("height", Side("size", 32000, Far)),
    To("width", Side("size", 32000, Far)),
    To("style_preset", Plain("style"))>>
  \o Same(<<"cfg_scale", "clip_guidance_preset", "sampler", "seed", "steps",
            "extras">>)

OpenrouterImageGenerateConfig ==
  <<Plain("prompt"), Plain("model"), Number("n", Unset, 100, 1000)>>
  \o Same(<<"size", "quality", "output_format", "seed", "aspect_ratio",
            "resolution", "input_references", "stream">>)

RecraftAIImageGenerateConfig ==
  <<Plain("prompt"), Word("style"), Plain("style_id"),
    Number("n", 100, 100, 200), Word("size"), Word("response_format")>>
  \o Same(<<"controls", "model", "artistic_level", "substyle">>)

StabilityAIImageGenerateV2Config ==
  Same(<<"prompt", "negative_prompt", "aspect_ratio", "seed", "style_preset",
         "mode", "output_format", "image", "strength">>)
BedrockStabilityAIImageGenerateV2Config == StabilityAIImageGenerateV2Config

BedrockStabilityAIImageGenerateV1Config ==
  <<To("text_prompts", Made("prompt")),
    To("samples", Number("n", Unset, 100, 1000)),
    To("height", Side("size", 32000, Far)),
    To("width", Side("size", 32000, Far)),
    To("style_preset", Plain("style"))>>

DeepbricksImageGenerateConfig ==
  <<Plain("prompt"), Must(Word("model")), Number("n", Unset, 100, 1000)>>
  \o Same(<<"quality", "response_format", "size", "style", "user">>)

WorkersAiImageGenerateConfig ==
  <<Plain("prompt"), Plain("negative_prompt"),
    To("num_steps", Plain("steps")), Plain("steps"),
    To("height", Side("size", -Far, Far)),
    To("width", Side("size", -Far, Far)), Plain("seed")>>

ZAIImageGenerateConfig ==
  <<Plain("prompt"), Must(Word("model")), Number("n", Unset, 100, 1000),
    Plain("size"), Plain("response_format"), To("user_id", Plain("user"))>>

SiliconFlowImageGenerateConfig ==
  <<Plain("prompt"), To("image_size", Word("size")),
    Number("num_inference_steps", 2000, -Far, Far),
    Number("batch_size", 100, -Far, Far),
    Number("guidance_scale", 750, -Far, Far)>>

LemonfoxAIImageGenerateConfig ==
  <<Plain("prompt"), Plain("negative_prompt"), Number("n", 100, 100, 800),
    Word("response_format"), Plain("size")>>

HyperbolicImageGenerateConfig ==
  Same(<<"model", "prompt", "height", "width", "backend">>)

NscaleImageGenerateConfig ==
  Same(<<"prompt", "model", "n", "size">>)

OpenAICreateModelResponseConfig ==
  Same(<<"background", "conversation", "input", "model", "include",
         "instructions", "max_output_tokens", "max_tool_calls", "metadata",
         "modalities", "parallel_tool_calls", "previous_response_id",
         "prompt", "prompt_cache_key", "prompt_cache_retention", "reasoning",
         "safety_identifier", "service_tier", "store", "stream",
         "stream_options", "temperature", "text", "tool_choice", "tools",
         "top_logprobs", "top_p", "truncation", "user", "verbosity">>)
==============================================================================
