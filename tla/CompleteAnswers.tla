--------------------------- MODULE CompleteAnswers ---------------------------
(***************************************************************************)
(* The response transforms of the text completions and of the image        *)
(* generations, whose answer is their text here.                           *)
(*                                                                         *)
(* Source: providers/<name>/complete.ts and providers/<name>/              *)
(* imageGenerate.ts.                                                       *)
(***************************************************************************)
EXTENDS AnswerTables

TextWhole == Reading("text", Whole({"text", "usage"}))
TextStream == Reading("text", Stream({"text", "usage"}))
TextOnly(row) == [row EXCEPT !.keeps = {"text"}]

AnyscaleCompleteResponseTransform == TextWhole
AnyscaleCompleteStreamChunkTransform == TextOnly(TextStream)

AzureAIInferenceCompleteResponseTransform == Refusing(Unchecked, TextWhole)
AzureOpenAICompleteResponseTransform == Refusing(Unchecked, TextWhole)

(* FireworksAIErrorResponseTransform finds nothing to read without an      *)
(* error.                                                                  *)
FireworksAIErrorResponseTransform ==
  Taken(ErrorOnly("refusal", "trips"), AllOf("unreadable"))
FireworksAICompleteResponseTransform ==
  Refusing(FireworksAIErrorResponseTransform, TextWhole)
FireworksAICompleteStreamChunkTransform == TextStream

HuggingfaceCompleteResponseTransform == TextWhole
HuggingfaceCompleteStreamChunkTransform == TextStream

LeptonCompleteResponseTransform == Refusing(Unchecked, TextWhole)
LeptonCompleteStreamChunkTransform == TextOnly(TextStream)

NovitaAICompleteResponseTransform == TextWhole
NovitaAICompleteStreamChunkTransform == Finishing("none", TextOnly(TextStream))

OpenAICompleteResponseTransform == Refusing(Unchecked, TextWhole)

SambaNovaCompleteStreamChunkTransform == TextStream

TogetherAICompleteResponseTransform == TextWhole
TogetherAICompleteStreamChunkTransform == Finishing("none", TextOnly(TextStream))

TritonCompleteResponseTransform ==
  Reading("triton", Finishing("stop", TextOnly(TextWhole)))

-----------------------------------------------------------------------------
AnthropicCompleteResponseTransform ==
  Reading("claude", Finishing("mapped", TextOnly(TextWhole)))
AnthropicCompleteStreamChunkTransform ==
  Reading("claude", Finishing("mapped", TextOnly(TextStream)))

CohereCompleteResponseTransform ==
  Reading("generate",
    Refusing(Taken(AllOf("refusal"), AllOf("trips")),
             Finishing("length", TextOnly(TextWhole))))
(* The last chunk repeats the whole answer and is dropped, reason and all. *)
CohereCompleteStreamChunkTransform ==
  Reading("generate", Finishing("none", TextOnly(TextStream)))

PalmCompleteResponseTransform ==
  Reading("palmText", Finishing("length", TextOnly(TextWhole)))

WorkersAiCompleteResponseTransform ==
  Reading("run", Finishing("none", TextOnly(TextWhole)))
WorkersAiCompleteStreamChunkTransform ==
  Reading("run", Finishing("none", TextOnly(TextStream)))

(* Bedrock's models count their tokens in the chunk that ends the answer,  *)
(* and the transforms tell [DONE] after it.                                *)
Invoke(dialect) == Reading(dialect, Done("finish", TextStream))

BedrockLlamaCompleteResponseTransform == Reading("llama", TextWhole)
BedrockLlamaCompleteStreamChunkTransform == Invoke("llama")

BedrockTitanCompleteResponseTransform ==
  Reading("titan", Finishing("mapped", TextWhole))
(* The counts are read from every chunk, and [DONE] told after each.       *)
BedrockTitanCompleteStreamChunkTransform ==
  Finishing("mapped", Done("each", Invoke("titan")))

BedrockAI21CompleteResponseTransform == Reading("j2", TextWhole)

BedrockAnthropicCompleteResponseTransform == Reading("bedrockClaude", TextWhole)
BedrockAnthropicCompleteStreamChunkTransform == Invoke("bedrockClaude")

BedrockCohereCompleteResponseTransform == Reading("command", TextWhole)
BedrockCohereCompleteStreamChunkTransform == Invoke("command")

BedrockMistralCompleteResponseTransform == Reading("mistralText", TextWhole)
BedrockMistralCompleteStreamChunkTransform == Invoke("mistralText")

-----------------------------------------------------------------------------
(* Images.  None is streamed by a transform of its own.                    *)
Image == Reading("image", Finishing("none", Whole({"text"})))
PassedImage == Refusing(Unchecked, Image)

(* A page of text is unwrapped, and is the reason of a failure.            *)
OpenAIImageResponseTransform ==
  Refusing(Taken(<<"refusal", "passed", "refusal">>,
                 <<"passed", "passed", "refusal">>), Image)
AzureOpenAIImageGenerateResponseTransform == OpenAIImageResponseTransform
OpenAIImageGenerateResponseTransform == OpenAIImageResponseTransform
OpenrouterImageGenerateResponseTransform == OpenAIImageResponseTransform

AzureAIInferenceResponseTransform == PassedImage
DeepbricksImageGenerateResponseTransform == PassedImage
HyperbolicImageGenerateResponseTransform == PassedImage
LemonfoxImageGenerateResponseTransform == PassedImage
SiliconFlowImageGenerateResponseTransform == PassedImage
ZAIImageGenerateResponseTransform == PassedImage

FireworksAIImageGenerateResponseTransform ==
  Reading("flux", Refusing(FireworksAIErrorResponseTransform, Image))

(* The images are read whatever came, and there are none in a failure.     *)
NscaleImageGenerateResponseTransform ==
  Refusing(Taken(AllOf("trips"), AllOf("trips")), Image)

RecraftAIImageGenerateResponseTransform ==
  Refusing(Taken(AllOf("refusal"), ErrorOnly("refusal", "passed")), Image)

SegmindImageGenerateResponseTransform ==
  Reading("segmind",
    Refusing(Taken(<<"refusal", "unreadable", "refusal">>, AllOf("unreadable")),
             Image))

GoogleImageGenResponseTransform == Reading("imagen", Image)
StabilityAIImageGenerateV1ResponseTransform == Reading("artifacts", Image)
StabilityAIImageGenerateV2ResponseTransform == Reading("stable", Image)
BedrockStabilityAIImageGenerateV1ResponseTransform == Reading("artifacts", Image)
BedrockStabilityAIImageGenerateV2ResponseTransform == Reading("stableImages", Image)
WorkersAiImageGenerateResponseTransform == Reading("run", Image)
=============================================================================
