----------------------------- MODULE ChatAnswers -----------------------------
(***************************************************************************)
(* The response transforms of the chat completions, one row for each.      *)
(*                                                                         *)
(* Source: providers/<name>/chatComplete.ts.                               *)
(***************************************************************************)
EXTENDS AnswerTables

AllSaid == Whole(Everything)
AllMapped == Finishing("mapped", AllSaid)
TextSaid == Whole({"text", "usage"})
WithoutUsage == {"thought", "text", "calls"}

-----------------------------------------------------------------------------
(* Providers that speak OpenAI's dialect, or nearly.                       *)
AI302ChatCompleteResponseTransform == AllSaid
AI302ChatCompleteStreamChunkTransform == Stream(WithoutUsage)

AIBadgrChatCompleteStreamChunkTransform == PassedChunks

AnyscaleChatCompleteResponseTransform == AllSaid
AnyscaleChatCompleteStreamChunkTransform == Stream(WithoutUsage)

AzureAIInferenceChatCompleteResponseTransform == Refusing(Unchecked, AllSaid)
AzureOpenAIResponseTransform == Refusing(Unchecked, AllSaid)

(* An error whatever the status; what is not one is the message, even when *)
(* there is none, and it has stopped.                                      *)
BytezChatComplete ==
  Refusing(Taken(ErrorOnly("refusal", "answer"), ErrorOnly("refusal", "answer")),
           Finishing("stop", Whole(WithoutUsage)))

CometAPIChatCompleteStreamChunkTransform == PassedChunks
DeepbricksChatCompleteResponseTransform == Refusing(Unchecked, AllSaid)

DeepInfraChatCompleteResponseTransform == AllSaid
DeepInfraChatCompleteStreamChunkTransform == Alone("breaks", PassedChunks)

DeepSeekChatCompleteResponseTransform == AllMapped
DeepSeekChatCompleteStreamChunkTransform ==
  Finishing("mapped", Alone("breaks", PassedChunks))

GroqChatCompleteStreamChunkTransform == Stream({"text", "calls", "usage"})

HuggingfaceChatCompleteResponseTransform == AllSaid
HuggingfaceChatCompleteStreamChunkTransform == PassedChunks

(* A chunk without usage cannot be read and is passed on as it came.       *)
HyperbolicChatCompleteStreamChunkTransform == PassedChunks

(* A failure told in text is a refusal; one told in JSON passes.           *)
KrutrimChatCompleteResponseTransform ==
  Refusing(Taken(<<"passed", "passed", "refusal">>, AllOf("passed")), AllSaid)

LatitudeChatCompleteResponseTransform == AllMapped
LatitudeChatCompleteStreamChunkTransform ==
  Finishing("mapped", Alone("breaks", PassedChunks))

LemonfoxAIChatCompleteStreamChunkTransform ==
  Alone("breaks", Stream(WithoutUsage))

LeptonChatCompleteResponseTransform == Refusing(Unchecked, AllSaid)
(* A chunk without choices cannot be read and is passed on as it came.     *)
LeptonChatCompleteStreamChunkTransform == Alone("raw", Stream(WithoutUsage))

LingyiChatCompleteResponseTransform == AllSaid
LingyiChatCompleteStreamChunkTransform == Alone("breaks", Stream(WithoutUsage))

GetMistralAIChatCompleteResponseTransform == AllMapped
GetMistralAIChatCompleteStreamChunkTransform ==
  Finishing("mapped", Alone("breaks", PassedChunks))

MonsterAPIChatCompleteResponseTransform == Refusing(CheckedAlways, AllSaid)

MoonshotChatCompleteResponseTransform == AllSaid
MoonshotChatCompleteStreamChunkTransform == Alone("breaks", Stream(WithoutUsage))

NCompassChatCompleteResponseTransform == AllSaid
NCompassChatCompleteStreamChunkTransform == Alone("breaks", Stream(WithoutUsage))

NovitaAIChatCompleteResponseTransform == AllSaid
NovitaAIChatCompleteStreamChunkTransform == PassedChunks

OllamaChatCompleteResponseTransform == AllSaid
OllamaChatCompleteStreamChunkTransform == Stream(WithoutUsage)

OpenrouterChatCompleteResponseTransform ==
  Whole({"blocks", "text", "calls", "usage"})
OpenrouterChatCompleteStreamChunkTransform == PassedChunks

OVHcloudChatCompleteStreamChunkTransform == PassedChunks

PerplexityAIChatCompleteResponseTransform ==
  Refusing(CheckedAlways, Finishing("mapped", Whole({"thought", "text", "usage"})))
PerplexityAIChatCompleteStreamChunkTransform ==
  Done("finish", Alone("dropped", Stream({"thought", "text", "usage"})))

PredibaseChatCompleteResponseTransform == AllSaid
PredibaseChatCompleteStreamChunkTransform == Alone("breaks", PassedChunks)

RequestyChatCompleteResponseTransform == AllSaid

(* Left to the reader when it failed, and passed on without its choices.   *)
SambaNovaChatTransformer == Refusing(ReadThenPassed, AllSaid)
LemonfoxAIChatTransformer == Refusing(ReadThenPassed, AllSaid)
(* The chunk that carries usage finishes as stop, whatever was said.       *)
SambaNovaChatCompleteStreamChunkTransform ==
  [Stream({"text", "usage"}) EXCEPT !.tells = "finishAndUsage"]

SiliconFlowChatCompleteResponseTransform == Refusing(Unchecked, AllSaid)

TogetherAIChatCompleteResponseTransform == AllMapped
TogetherAIChatCompleteStreamChunkTransform ==
  Finishing("mapped", Stream({"thought", "text"}))

VertexLlamaChatCompleteResponseTransform == AllSaid
(* Every chunk is parsed, the [DONE] that cannot be among them.            *)
VertexLlamaChatCompleteStreamChunkTransform == Done("breaks", PassedChunks)

WorkersAiChatCompleteResponseTransform == AllSaid
WorkersAiChatCompleteStreamChunkTransform == PassedChunks

(* An error in any shape, and what is not one passes.                      *)
xAIResponseTransform ==
  Refusing(Taken(ErrorOnly("refusal", "passed"), ErrorOnly("refusal", "passed")),
           AllSaid)

ZhipuChatCompleteResponseTransform == AllSaid
ZhipuChatCompleteStreamChunkTransform == Alone("breaks", Stream(WithoutUsage))

-----------------------------------------------------------------------------
(* Providers with a dialect of their own.                                  *)
getAnthropicChatCompleteResponseTransform == Reading("anthropic", AllMapped)
getAnthropicStreamChunkTransform ==
  Reading("anthropic",
          Numbering("byBlock", Finishing("mapped", Stream(Everything))))

(* Texts are joined with a line break, which no chunk brings.              *)
BedrockChatCompleteResponseTransform ==
  [Reading("converse", AllMapped) EXCEPT !.joins = "lines"]
(* The reason is kept until the usage that comes after it.                 *)
BedrockChatCompleteStreamChunkTransform ==
  Reading("converse",
          Done("usage", Numbering("latest",
            [Finishing("mapped", Stream(Everything)) EXCEPT !.tells = "usage"])))

BedrockAI21ChatCompleteResponseTransform == Reading("j2", TextSaid)
BedrockCohereChatCompleteResponseTransform == Reading("command", TextSaid)
BedrockCohereChatCompleteStreamChunkTransform ==
  Reading("command", Done("finish", Stream({"text", "usage"})))

CohereChatCompleteResponseTransform ==
  Reading("cohere", Finishing("mapped", Whole({"text", "calls", "usage"})))
(* The delta of a call is an object where a client reads a list.  The      *)
(* number of a chunk's block becomes the choice, to the end of the stream. *)
CohereChatCompleteStreamChunkTransform ==
  Reading("cohere",
          Done("finish", [Finishing("mapped", Stream({"text", "usage"}))
                            EXCEPT !.choice = "asNumbered"]))

GeminiWhole == Finishing("called", Whole({"blocks", "text", "calls", "usage"}))
GeminiStream ==
  Numbering("byBlock",
            Finishing("called", Stream({"blocks", "text", "calls", "usage"})))
GoogleChatCompleteResponseTransform == Reading("gemini", GeminiWhole)
GoogleChatCompleteStreamChunkTransform == Reading("gemini", GeminiStream)
VertexGoogleChatCompleteResponseTransform == Reading("gemini", GeminiWhole)
VertexGoogleChatCompleteStreamChunkTransform == Reading("gemini", GeminiStream)

OracleChatCompleteResponseTransform == Reading("oracle", TextSaid)
OracleChatCompleteStreamChunkTransform ==
  Reading("oracle", Done("finish", Stream({"text"})))

PalmChatCompleteResponseTransform ==
  Reading("palmChat", Finishing("length", Whole({"text"})))

RekaAIChatCompleteResponseTransform ==
  Reading("reka", Refusing(CheckedAlways, TextSaid))
=============================================================================
