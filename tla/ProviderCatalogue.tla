-------------------------- MODULE ProviderCatalogue --------------------------
(***************************************************************************)
(* Who serves what: for each provider, each function a route reaches and   *)
(* each kind of model that makes a difference, the table its request is    *)
(* written by, the address it is sent to, and the transforms that read the *)
(* answer.                                                                 *)
(*                                                                         *)
(* Source: providers/<name>/index.ts (<Name>Provider), the getEndpoint of  *)
(* providers/<name>/api.ts (<Name>API), and providers/index.ts.            *)
(***************************************************************************)
EXTENDS ChatAnswers, CompleteAnswers, TLC

(* An address: the dialect spoken there, and what it streams for: the body *)
(* that says so, a path of its own, or a path whose stream is labelled     *)
(* application/json.                                                       *)
Speaks(dialect) == [speaks |-> dialect, streams |-> "body"]
ByPath(dialect) == [speaks |-> dialect, streams |-> "path"]
AsJson(dialect) == [speaks |-> dialect, streams |-> "json"]
Nowhere == Speaks("nothing")

OpenAIDialect ==
  [chatComplete |-> "chat", complete |-> "text", imageGenerate |-> "image",
   createModelResponse |-> "responses"]
Paths(fns) == [fn \in fns |-> Speaks(OpenAIDialect[fn])]
ChatPath == Paths({"chatComplete"})
TextPaths == Paths({"chatComplete", "complete"})

(* The tables that write another dialect than OpenAI's for their function. *)
OwnDialect ==
  [AnthropicChat |-> "anthropic", AnthropicChatCompleteConfig |-> "anthropic",
   VertexAnthropicChatCompleteConfig |-> "anthropic",
   AnthropicCompleteConfig |-> "claude",
   CohereChatCompleteConfig |-> "cohere", CohereCompleteConfig |-> "generate",
   GoogleChatCompleteConfig |-> "gemini",
   VertexGoogleChatCompleteConfig |-> "gemini", GoogleImageGenConfig |-> "imagen",
   OracleChatCompleteConfig |-> "oracle", RekaAIChatCompleteConfig |-> "reka",
   PalmChatCompleteConfig |-> "palmChat", PalmCompleteConfig |-> "palmText",
   SegmindImageGenerateConfig |-> "segmind", FireworksAIImageGenerateConfig |-> "flux",
   StabilityAIImageGenerateV1Config |-> "artifacts",
   StabilityAIImageGenerateV2Config |-> "stable", TritonCompleteConfig |-> "triton",
   WorkersAiCompleteConfig |-> "run", WorkersAiImageGenerateConfig |-> "run",
   BedrockConverseChatCompleteConfig |-> "converse",
   BedrockConverseAnthropicChatCompleteConfig |-> "converse",
   BedrockConverseCohereChatCompleteConfig |-> "converse",
   BedrockConverseAI21ChatCompleteConfig |-> "converse",
   BedrockAnthropicCompleteConfig |-> "bedrockClaude",
   BedrockCohereChatCompleteConfig |-> "command",
   BedrockCohereCompleteConfig |-> "command",
   BedrockLLamaCompleteConfig |-> "llama",
   BedrockMistralCompleteConfig |-> "mistralText",
   BedrockTitanCompleteConfig |-> "titan",
   BedrockAI21ChatCompleteConfig |-> "j2", BedrockAI21CompleteConfig |-> "j2",
   BedrockStabilityAIImageGenerateV1Config |-> "artifacts",
   BedrockStabilityAIImageGenerateV2Config |-> "stableImages"]
Written(table, fn) ==
  IF table \in DOMAIN OwnDialect THEN OwnDialect[table] ELSE OpenAIDialect[fn]

(* says    the dialect the table writes                                    *)
(* whole   responseTransforms[fn]                                          *)
(* chunks  responseTransforms[`stream-${fn}`]                              *)
Serves(fn, table, whole, chunks) ==
  [provider |-> "", model |-> "any", prefix |-> "none", fn |-> fn,
   table |-> table, says |-> Written(table, fn), at |-> Nowhere,
   whole |-> whole, chunks |-> chunks]

(* No transform: chunks of whatever dialect go through.                    *)
Untouched(dialect) == Reading(dialect, PassedChunks)
TextPassed == Untouched("text")

Chat(table, whole, chunks) == Serves("chatComplete", table, whole, chunks)
Complete(table, whole, chunks) == Serves("complete", table, whole, chunks)
Draws(table, whole) ==
  Serves("imageGenerate", table, whole, Untouched(whole.reads))
Responds(table, whole) ==
  Serves("createModelResponse", table, whole, Untouched("responses"))

ForModel(model, entries) == {[e EXCEPT !.model = model] : e \in entries}


(* A provider at its address; a function the address has no path for is    *)
(* sent to none.                                                           *)
Provider(name, api, entries) ==
  {[e EXCEPT !.provider = name,
             !.at = IF e.fn \in DOMAIN api THEN api[e.fn] ELSE Nowhere]
   : e \in entries}

OpenAICreateModelResponseTransformer ==
  Reading("responses", Refusing(ReadThenPassed, Whole(Everything)))

-----------------------------------------------------------------------------
(* defineOpenAICompatibleProvider reads every answer by the upstream       *)
(* transformer and lets every chunk through.                               *)
UpstreamText == Reading("text", upstreamTransformer)
ByDeclaration(name, fns, entries) == Provider(name, Paths(fns), entries)

DeclaresChat(name, table) ==
  ByDeclaration(name, {"chatComplete"},
                {Chat(table, upstreamTransformer, PassedChunks)})
DeclaresBoth(name, chat, complete) ==
  ByDeclaration(name, {"chatComplete", "complete"},
                {Chat(chat, upstreamTransformer, PassedChunks),
                 Complete(complete, UpstreamText, TextPassed)})
(* The declared paths, a table and a stream transform put in their place.  *)
DeclaresStream(name, table, chunks) ==
  ByDeclaration(name, {"chatComplete"}, {Chat(table, upstreamTransformer, chunks)})

DeclaredProviders ==
  UNION {DeclaresChat("ai21", "AI21Config"),
         DeclaresBoth("cerebras", "CerebrasChat", "CerebrasComplete"),
         DeclaresChat("dashscope", "DashScopeConfig"),
         DeclaresBoth("databricks", "DatabricksChat", "DatabricksComplete"),
         DeclaresBoth("featherless-ai", "FeatherlessAIChat", "FeatherlessAIComplete"),
         DeclaresChat("inference-net", "InferenceNetConfig"),
         DeclaresChat("iointelligence", "IOIntelligenceChat"),
         DeclaresChat("kluster-ai", "KlusterAIConfig"),
         DeclaresBoth("lambda", "LambdaChat", "LambdaComplete"),
         DeclaresChat("modal", "ModalConfig"),
         DeclaresBoth("nebius", "NebiusChat", "NebiusComplete"),
         DeclaresBoth("nextbit", "NextBitChat", "NextBitComplete"),
         DeclaresChat("saladcloud", "SaladCloudConfig"),
         DeclaresChat("scx-ai", "SCXAIConfig"),
         DeclaresChat("upstage", "UpstageConfig"),
         DeclaresStream("aibadgr", "AIBadgrConfig",
                        AIBadgrChatCompleteStreamChunkTransform),
         DeclaresStream("ovhcloud", "OVHcloudConfig",
                        OVHcloudChatCompleteStreamChunkTransform)}

EmpirioLabsProvider ==
  DeclaresBoth("empiriolabs", "EmpirioLabsChat", "EmpirioLabsComplete") \union
  ByDeclaration("empiriolabs", {"imageGenerate"},
                {Draws("EmpirioLabsImage", OpenAIImageResponseTransform)})

GroqProvider ==
  DeclaresStream("groq", "GroqChat", GroqChatCompleteStreamChunkTransform) \union
  ByDeclaration("groq", {"createModelResponse"},
                {Responds("GroqResponse", OpenAICreateModelResponseTransformer)})

HyperbolicProvider ==
  ByDeclaration("hyperbolic", {"chatComplete", "complete", "imageGenerate"},
    {Chat("HyperbolicChat", upstreamTransformer,
          HyperbolicChatCompleteStreamChunkTransform),
     Complete("HyperbolicComplete", UpstreamText, TextPassed),
     Draws("HyperbolicImageGenerateConfig", HyperbolicImageGenerateResponseTransform)})

(* The transforms are put in the place of all those declared.              *)
KrutrimProvider ==
  ByDeclaration("krutrim", {"chatComplete"},
    {Chat("KrutrimConfig", KrutrimChatCompleteResponseTransform, PassedChunks)})
RequestyProvider ==
  ByDeclaration("requesty", {"chatComplete"},
    {Chat("RequestyConfig", RequestyChatCompleteResponseTransform, PassedChunks)})

LemonfoxAIProvider ==
  ByDeclaration("lemonfox-ai", {"chatComplete", "imageGenerate"},
    {Chat("LemonfoxAIConfig", LemonfoxAIChatTransformer,
          LemonfoxAIChatCompleteStreamChunkTransform),
     Draws("LemonfoxAIImageGenerateConfig", LemonfoxImageGenerateResponseTransform)})

NscaleProvider ==
  DeclaresBoth("nscale", "NscaleChat", "NscaleComplete") \union
  ByDeclaration("nscale", {"imageGenerate"},
    {Draws("NscaleImageGenerateConfig", NscaleImageGenerateResponseTransform)})

SambaNovaProvider ==
  ByDeclaration("sambanova", {"chatComplete", "complete"},
    {Chat("SambaNovaChat", SambaNovaChatTransformer,
          SambaNovaChatCompleteStreamChunkTransform),
     Complete("SambaNovaComplete", UpstreamText,
              SambaNovaCompleteStreamChunkTransform)})

XAIProvider ==
  ByDeclaration("x-ai", {"chatComplete", "complete", "createModelResponse"},
    {Chat("XAIChat", xAIResponseTransform, PassedChunks),
     Complete("XAIComplete", Reading("text", xAIResponseTransform), TextPassed),
     Responds("XAIResponse", Reading("responses", Passed))})

ZAIProvider ==
  ByDeclaration("z-ai", {"chatComplete", "imageGenerate"},
    {Chat("ZAIConfig", upstreamTransformer, PassedChunks),
     Draws("ZAIImageGenerateConfig", ZAIImageGenerateResponseTransform)})

-----------------------------------------------------------------------------
(* Providers assembled one by one, that speak OpenAI's dialect.            *)
AI302API == ChatPath
AI302Provider ==
  Provider("302ai", AI302API,
    {Chat("AI302ChatCompleteConfig", AI302ChatCompleteResponseTransform,
          AI302ChatCompleteStreamChunkTransform)})

AnyscaleAPI == TextPaths
AnyscaleProvider ==
  Provider("anyscale", AnyscaleAPI,
    {Chat("AnyscaleChatCompleteConfig", AnyscaleChatCompleteResponseTransform,
          AnyscaleChatCompleteStreamChunkTransform),
     Complete("AnyscaleCompleteConfig", AnyscaleCompleteResponseTransform,
              AnyscaleCompleteStreamChunkTransform)})

AzureOpenAIAPI ==
  Paths({"chatComplete", "complete", "imageGenerate", "createModelResponse"})
AzureOpenAIProvider ==
  Provider("azure-openai", AzureOpenAIAPI,
    {Chat("AzureOpenAIChatCompleteConfig", AzureOpenAIResponseTransform,
          PassedChunks),
     Complete("AzureOpenAICompleteConfig", AzureOpenAICompleteResponseTransform,
              TextPassed),
     Draws("AzureOpenAIImageGenerateConfig", AzureOpenAIImageGenerateResponseTransform),
     Responds("AzureOpenAIResponse", OpenAICreateModelResponseTransformer)})

BytezAPI == ChatPath
BytezProvider ==
  Provider("bytez", BytezAPI,
    {Chat("BytezInferenceChatCompleteConfig", BytezChatComplete, PassedChunks)})

CometAPIAPI == ChatPath
CometAPIProvider ==
  Provider("cometapi", CometAPIAPI,
    {Chat("CometAPIChatCompleteConfig", upstreamTransformer,
          CometAPIChatCompleteStreamChunkTransform)})

DeepbricksAPI == Paths({"chatComplete", "imageGenerate"})
DeepbricksProvider ==
  Provider("deepbricks", DeepbricksAPI,
    {Chat("DeepbricksChatCompleteConfig", DeepbricksChatCompleteResponseTransform,
          PassedChunks),
     Draws("DeepbricksImageGenerateConfig", DeepbricksImageGenerateResponseTransform)})

DeepInfraAPI == ChatPath
DeepInfraProvider ==
  Provider("deepinfra", DeepInfraAPI,
    {Chat("DeepInfraChatCompleteConfig", DeepInfraChatCompleteResponseTransform,
          DeepInfraChatCompleteStreamChunkTransform)})

DeepSeekAPI == ChatPath
DeepSeekProvider ==
  Provider("deepseek", DeepSeekAPI,
    {Chat("DeepSeekChatCompleteConfig", DeepSeekChatCompleteResponseTransform,
          DeepSeekChatCompleteStreamChunkTransform)})

(* Mutant: images have the path they have at OpenAI's.                     *)
DrawsAsOpenAI == Paths({"chatComplete", "complete", "imageGenerate"})

(* No transform reads what it says in a chat.                              *)
FireworksAIAPI ==
  TextPaths @@ [imageGenerate |-> Speaks("flux")]
FireworksAIProvider ==
  Provider("fireworks-ai", FireworksAIAPI,
    {Chat("FireworksAIChatCompleteConfig", Passed, PassedChunks),
     Complete("FireworksAICompleteConfig", FireworksAICompleteResponseTransform,
              FireworksAICompleteStreamChunkTransform),
     Draws("FireworksAIImageGenerateConfig",
           FireworksAIImageGenerateResponseTransform)})

HuggingfaceAPI == TextPaths
HuggingfaceProvider ==
  Provider("huggingface", HuggingfaceAPI,
    {Chat("HuggingfaceChatCompleteConfig", HuggingfaceChatCompleteResponseTransform,
          HuggingfaceChatCompleteStreamChunkTransform),
     Complete("HuggingfaceCompleteConfig", HuggingfaceCompleteResponseTransform,
              HuggingfaceCompleteStreamChunkTransform)})

LatitudeAPI == ChatPath
LatitudeProvider ==
  Provider("latitude", LatitudeAPI,
    {Chat("LatitudeChatCompleteConfig", LatitudeChatCompleteResponseTransform,
          LatitudeChatCompleteStreamChunkTransform)})

LeptonAPI == TextPaths
LeptonProvider ==
  Provider("lepton", LeptonAPI,
    {Chat("LeptonChatCompleteConfig", LeptonChatCompleteResponseTransform,
          LeptonChatCompleteStreamChunkTransform),
     Complete("LeptonCompleteConfig", LeptonCompleteResponseTransform,
              LeptonCompleteStreamChunkTransform)})

LingYiAPI == ChatPath
LingYiProvider ==
  Provider("lingyi", LingYiAPI,
    {Chat("LingyiChatCompleteConfig", LingyiChatCompleteResponseTransform,
          LingyiChatCompleteStreamChunkTransform)})

(* Its stream transform is registered under a name nobody looks up.        *)
MatterAIAPI == ChatPath
MatterAIProvider ==
  Provider("matterai", MatterAIAPI,
    {Chat("MatterAIChatCompleteConfig", Passed, PassedChunks)})

MistralAIAPI == ChatPath
MistralChat ==
  Chat("MistralAIChatCompleteConfig", GetMistralAIChatCompleteResponseTransform,
       GetMistralAIChatCompleteStreamChunkTransform)
MistralAIProvider == Provider("mistral-ai", MistralAIAPI, {MistralChat})

MonsterAPIAPI == ChatPath
MonsterAPIProvider ==
  Provider("monsterapi", MonsterAPIAPI,
    {Chat("MonsterAPIChatCompleteConfig", MonsterAPIChatCompleteResponseTransform,
          PassedChunks)})

MoonshotAPI == ChatPath
MoonshotProvider ==
  Provider("moonshot", MoonshotAPI,
    {Chat("MoonshotChatCompleteConfig", MoonshotChatCompleteResponseTransform,
          MoonshotChatCompleteStreamChunkTransform)})

NCompassAPI == ChatPath
NCompassProvider ==
  Provider("ncompass", NCompassAPI,
    {Chat("NCompassChatCompleteConfig", NCompassChatCompleteResponseTransform,
          NCompassChatCompleteStreamChunkTransform)})

NovitaAIAPI == TextPaths
NovitaAIProvider ==
  Provider("novita-ai", NovitaAIAPI,
    {Chat("NovitaAIChatCompleteConfig", NovitaAIChatCompleteResponseTransform,
          NovitaAIChatCompleteStreamChunkTransform),
     Complete("NovitaAICompleteConfig", NovitaAICompleteResponseTransform,
              NovitaAICompleteStreamChunkTransform)})

OllamaAPI == ChatPath
OllamaProvider ==
  Provider("ollama", OllamaAPI,
    {Chat("OllamaChatCompleteConfig", OllamaChatCompleteResponseTransform,
          OllamaChatCompleteStreamChunkTransform)})

(* A chat's answer is what the others are made to look like.               *)
OpenAIAPI ==
  Paths({"chatComplete", "complete", "imageGenerate", "createModelResponse"})
OpenAIProvider ==
  Provider("openai", OpenAIAPI,
    {Chat("OpenAIChatCompleteConfig", Passed, PassedChunks),
     Complete("OpenAICompleteConfig", OpenAICompleteResponseTransform, TextPassed),
     Draws("OpenAIImageGenerateConfig", OpenAIImageGenerateResponseTransform),
     Responds("OpenAICreateModelResponseConfig",
              OpenAICreateModelResponseTransformer)})

OpenrouterAPI == Paths({"chatComplete", "imageGenerate", "createModelResponse"})
OpenrouterProvider ==
  Provider("openrouter", OpenrouterAPI,
    {Chat("OpenrouterChatCompleteConfig", OpenrouterChatCompleteResponseTransform,
          OpenrouterChatCompleteStreamChunkTransform),
     Draws("OpenrouterImageGenerateConfig", OpenrouterImageGenerateResponseTransform),
     Responds("OpenAICreateModelResponseConfig", Reading("responses", Passed))})

PerplexityAIAPI == ChatPath
PerplexityAIProvider ==
  Provider("perplexity-ai", PerplexityAIAPI,
    {Chat("PerplexityAIChatCompleteConfig",
          PerplexityAIChatCompleteResponseTransform,
          PerplexityAIChatCompleteStreamChunkTransform)})

PredibaseAPI == ChatPath
PredibaseProvider ==
  Provider("predibase", PredibaseAPI,
    {Chat("PredibaseChatCompleteConfig", PredibaseChatCompleteResponseTransform,
          PredibaseChatCompleteStreamChunkTransform)})

RecraftAIAPI == Paths({"imageGenerate"})
RecraftAIProvider ==
  Provider("recraft-ai", RecraftAIAPI,
    {Draws("RecraftAIImageGenerateConfig", RecraftAIImageGenerateResponseTransform)})

SiliconFlowAPI == Paths({"chatComplete", "imageGenerate"})
SiliconFlowProvider ==
  Provider("siliconflow", SiliconFlowAPI,
    {Chat("SiliconFlowChatCompleteConfig", SiliconFlowChatCompleteResponseTransform,
          PassedChunks),
     Draws("SiliconFlowImageGenerateConfig", SiliconFlowImageGenerateResponseTransform)})

TogetherAIAPI == TextPaths
TogetherAIProvider ==
  Provider("together-ai", TogetherAIAPI,
    {Chat("TogetherAIChatCompleteConfig", TogetherAIChatCompleteResponseTransform,
          TogetherAIChatCompleteStreamChunkTransform),
     Complete("TogetherAICompleteConfig", TogetherAICompleteResponseTransform,
              TogetherAICompleteStreamChunkTransform)})

ZhipuAPI == ChatPath
ZhipuProvider ==
  Provider("zhipu", ZhipuAPI,
    {Chat("ZhipuChatCompleteConfig", ZhipuChatCompleteResponseTransform,
          ZhipuChatCompleteStreamChunkTransform)})

-----------------------------------------------------------------------------
(* Providers with a dialect of their own.                                  *)
AnthropicAPI ==
  [chatComplete |-> Speaks("anthropic"), complete |-> Speaks("claude")]
ReadAsAnthropic(table) ==
  Chat(table, getAnthropicChatCompleteResponseTransform,
       getAnthropicStreamChunkTransform)
AnthropicProvider ==
  Provider("anthropic", AnthropicAPI,
    {ReadAsAnthropic("AnthropicChat"),
     Complete("AnthropicCompleteConfig",
              AnthropicCompleteResponseTransform,
              AnthropicCompleteStreamChunkTransform)})

CohereAPI == [chatComplete |-> Speaks("cohere"), complete |-> Speaks("generate")]
CohereProvider ==
  Provider("cohere", CohereAPI,
    {Chat("CohereChatCompleteConfig", CohereChatCompleteResponseTransform,
          CohereChatCompleteStreamChunkTransform),
     Complete("CohereCompleteConfig", CohereCompleteResponseTransform,
              CohereCompleteStreamChunkTransform)})

(* The path that streams does not ask for server-sent events.              *)
GoogleAPI == [chatComplete |-> AsJson("gemini")]
GoogleProvider ==
  Provider("google", GoogleAPI,
    {Chat("GoogleChatCompleteConfig", GoogleChatCompleteResponseTransform,
          GoogleChatCompleteStreamChunkTransform)})

OracleAPI == [chatComplete |-> Speaks("oracle")]
OracleProvider ==
  Provider("oracle", OracleAPI,
    {Chat("OracleChatCompleteConfig", OracleChatCompleteResponseTransform,
          OracleChatCompleteStreamChunkTransform)})

PalmAPI ==
  [chatComplete |-> Speaks("palmChat"), complete |-> Speaks("palmText")]
PalmProvider ==
  Provider("palm", PalmAPI,
    {Chat("PalmChatCompleteConfig", PalmChatCompleteResponseTransform,
          Untouched("palmChat")),
     Complete("PalmCompleteConfig", PalmCompleteResponseTransform,
              Untouched("palmText"))})

RekaAIAPI == [chatComplete |-> Speaks("reka")]
RekaAIProvider ==
  Provider("reka-ai", RekaAIAPI,
    {Chat("RekaAIChatCompleteConfig", RekaAIChatCompleteResponseTransform,
          Untouched("reka"))})

SegmindAPI == [imageGenerate |-> Speaks("segmind")]
SegmindProvider ==
  Provider("segmind", SegmindAPI,
    {Draws("SegmindImageGenerateConfig",
           SegmindImageGenerateResponseTransform)})

StabilityAIAPI(model) ==
  [imageGenerate |-> Speaks(IF model = "v1" THEN "artifacts" ELSE "stable")]
StabilityAIProvider ==
  Provider("stability-ai", StabilityAIAPI("v1"),
    ForModel("v1",
      {Draws("StabilityAIImageGenerateV1Config",
             StabilityAIImageGenerateV1ResponseTransform)})) \union
  Provider("stability-ai", StabilityAIAPI("v2"),
    ForModel("v2",
      {Draws("StabilityAIImageGenerateV2Config",
             StabilityAIImageGenerateV2ResponseTransform)}))

TritonAPI == [complete |-> Speaks("triton")]
TritonProvider ==
  Provider("triton", TritonAPI,
    {Complete("TritonCompleteConfig", TritonCompleteResponseTransform,
              Untouched("triton"))})

(* Chats go to an address that speaks OpenAI's dialect.                    *)
WorkersAiAPI ==
  ChatPath @@ [fn \in {"complete", "imageGenerate"} |-> Speaks("run")]
WorkersAiProvider ==
  Provider("workers-ai", WorkersAiAPI,
    {Chat("WorkersAiChatCompleteConfig", WorkersAiChatCompleteResponseTransform,
          WorkersAiChatCompleteStreamChunkTransform),
     Complete("WorkersAiCompleteConfig", WorkersAiCompleteResponseTransform,
              WorkersAiCompleteStreamChunkTransform),
     Draws("WorkersAiImageGenerateConfig",
           WorkersAiImageGenerateResponseTransform)})

-----------------------------------------------------------------------------
(* Providers that serve the models of others.                              *)

(* A foundry whose URL names anthropic serves Anthropic's messages.        *)
AzureAIInferenceAPI(model) ==
  Paths({"complete", "imageGenerate"}) @@
  [chatComplete |-> Speaks(IF model = "anthropic" THEN "anthropic" ELSE "chat")]
AzureAIInferenceEntries ==
  {Chat("AzureAIInferenceChatCompleteConfig",
        AzureAIInferenceChatCompleteResponseTransform, PassedChunks),
   Complete("AzureAIInferenceCompleteConfig",
            AzureAIInferenceCompleteResponseTransform, TextPassed)}
AzureAIInferenceProvider ==
  Provider("azure-ai", AzureAIInferenceAPI("anthropic"),
    ForModel("anthropic", {ReadAsAnthropic("AnthropicChatCompleteConfig")})) \union
  Provider("azure-ai", AzureAIInferenceAPI("any"),
    AzureAIInferenceEntries \union
      {Draws("AzureOpenAIImageGenerateConfig", AzureAIInferenceResponseTransform)})
GithubProvider ==
  Provider("github", AzureAIInferenceAPI("any"), AzureAIInferenceEntries)

(* Models go by their publisher.                                           *)
VertexAPI(publisher) ==
  CASE publisher = "google" ->
         [chatComplete |-> ByPath("gemini"), imageGenerate |-> ByPath("imagen")]
    [] publisher = "anthropic" -> [chatComplete |-> ByPath("anthropic")]
    [] publisher = "mistralai" -> [chatComplete |-> ByPath("chat")]
    [] publisher \in {"meta", "endpoints"} -> ChatPath

VertexModels ==
  [google |->
     {Chat("VertexGoogleChatCompleteConfig",
           VertexGoogleChatCompleteResponseTransform,
           VertexGoogleChatCompleteStreamChunkTransform),
      Draws("GoogleImageGenConfig", GoogleImageGenResponseTransform)},
   anthropic |-> {ReadAsAnthropic("VertexAnthropicChatCompleteConfig")},
   meta |->
     {Chat("VertexLlamaChatCompleteConfig", VertexLlamaChatCompleteResponseTransform,
           VertexLlamaChatCompleteStreamChunkTransform)},
   endpoints |-> {Chat("VertexEndpointConfig", upstreamTransformer, PassedChunks)},
   mistralai |-> {MistralChat}]
VertexProvider ==
  UNION {Provider("vertex-ai", VertexAPI(p), ForModel(p, VertexModels[p]))
         : p \in DOMAIN VertexModels}

(* What each of Bedrock's models speaks when it is invoked by itself.      *)
InvokeDialect ==
  [claude |-> "bedrockClaude", commandR |-> "command", commandText |-> "command",
   llama |-> "llama", mistral |-> "mistralText", titan |-> "titan",
   jamba |-> "j2", j2 |-> "j2", sdxl |-> "artifacts", stableImage |-> "stableImages",
   deepseek |-> "nothing"]
bedrockInvokeModels == {"commandText", "j2"}

(* The path of a chat is chosen by the model's id as the caller wrote it,  *)
(* with the region or the ARN in front of it; the configuration by the     *)
(* model that is meant.                                                    *)
BedrockAPI(model, prefix) ==
  [fn \in {"chatComplete", "complete", "imageGenerate"} |->
     ByPath(IF fn = "chatComplete" /\
               (prefix # "none" \/ model \notin bedrockInvokeModels)
            THEN "converse" ELSE InvokeDialect[model])]

Converses(table) ==
  Chat(table, BedrockChatCompleteResponseTransform,
       BedrockChatCompleteStreamChunkTransform)
BedrockCommand ==
  Complete("BedrockCohereCompleteConfig",
          BedrockCohereCompleteResponseTransform,
          BedrockCohereCompleteStreamChunkTransform)
BedrockJ2 ==
  Complete("BedrockAI21CompleteConfig", BedrockAI21CompleteResponseTransform,
          Untouched("j2"))

BedrockModels ==
  [claude |->
     {Converses("BedrockConverseAnthropicChatCompleteConfig"),
      Complete("BedrockAnthropicCompleteConfig",
              BedrockAnthropicCompleteResponseTransform,
              BedrockAnthropicCompleteStreamChunkTransform)},
   commandR |-> {Converses("BedrockConverseCohereChatCompleteConfig"), BedrockCommand},
   commandText |->
     {Chat("BedrockCohereChatCompleteConfig",
           BedrockCohereChatCompleteResponseTransform,
           BedrockCohereChatCompleteStreamChunkTransform),
      BedrockCommand},
   llama |->
     {Converses("BedrockConverseChatCompleteConfig"),
      Complete("BedrockLLamaCompleteConfig",
              BedrockLlamaCompleteResponseTransform,
              BedrockLlamaCompleteStreamChunkTransform)},
   mistral |->
     {Converses("BedrockConverseChatCompleteConfig"),
      Complete("BedrockMistralCompleteConfig",
              BedrockMistralCompleteResponseTransform,
              BedrockMistralCompleteStreamChunkTransform)},
   titan |->
     {Converses("BedrockConverseChatCompleteConfig"),
      Complete("BedrockTitanCompleteConfig",
              BedrockTitanCompleteResponseTransform,
              BedrockTitanCompleteStreamChunkTransform)},
   jamba |-> {Converses("BedrockConverseAI21ChatCompleteConfig"), BedrockJ2},
   j2 |->
     {Chat("BedrockAI21ChatCompleteConfig",
           BedrockAI21ChatCompleteResponseTransform,
           BedrockChatCompleteStreamChunkTransform),
      BedrockJ2},
   sdxl |->
     {Draws("BedrockStabilityAIImageGenerateV1Config",
            BedrockStabilityAIImageGenerateV1ResponseTransform)},
   stableImage |->
     {Draws("BedrockStabilityAIImageGenerateV2Config",
            BedrockStabilityAIImageGenerateV2ResponseTransform)},
   deepseek |-> {Converses("BedrockConverseChatCompleteConfig")}]
BedrockProvider ==
  UNION {Provider("bedrock", BedrockAPI(m, p),
                  {[e EXCEPT !.prefix = p] : e \in ForModel(m, BedrockModels[m])})
         : m \in DOMAIN BedrockModels, p \in {"none", "region", "arn"}}

-----------------------------------------------------------------------------
Providers ==
  DeclaredProviders \union
  UNION {EmpirioLabsProvider, GroqProvider, HyperbolicProvider, KrutrimProvider,
         RequestyProvider, LemonfoxAIProvider, NscaleProvider, SambaNovaProvider,
         XAIProvider, ZAIProvider, AI302Provider, AnyscaleProvider,
         AzureOpenAIProvider, BytezProvider, CometAPIProvider, DeepbricksProvider,
         DeepInfraProvider, DeepSeekProvider, FireworksAIProvider,
         HuggingfaceProvider, LatitudeProvider, LeptonProvider, LingYiProvider,
         MatterAIProvider, MistralAIProvider, MonsterAPIProvider, MoonshotProvider,
         NCompassProvider, NovitaAIProvider, OllamaProvider, OpenAIProvider,
         OpenrouterProvider, PerplexityAIProvider, PredibaseProvider,
         RecraftAIProvider, SiliconFlowProvider, TogetherAIProvider, ZhipuProvider,
         AnthropicProvider, CohereProvider, GoogleProvider, OracleProvider,
         PalmProvider, RekaAIProvider, SegmindProvider, StabilityAIProvider,
         TritonProvider, WorkersAiProvider, AzureAIInferenceProvider,
         GithubProvider, VertexProvider, BedrockProvider}
=============================================================================
