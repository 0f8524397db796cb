-------------------------- MODULE MCProviderExchange -------------------------
EXTENDS ProviderExchange, ProviderCatalogue, CompleteParams, CompatibleParams, TLC

ChatTables ==
  [VertexGoogleChatCompleteConfig |-> VertexGoogleChatCompleteConfig,
   GoogleChatCompleteConfig |-> GoogleChatCompleteConfig,
   AnthropicChat |-> AnthropicChat,
   AnthropicChatCompleteConfig |-> AnthropicChatCompleteConfig,
   OracleChatDetailsConfig |-> OracleChatDetailsConfig,
   BedrockConverseChatCompleteConfig |-> BedrockConverseChatCompleteConfig,
   LeptonChatCompleteConfig |-> LeptonChatCompleteConfig,
   OpenAIChatCompleteConfig |-> OpenAIChatCompleteConfig,
   AzureOpenAIChatCompleteConfig |-> AzureOpenAIChatCompleteConfig,
   AzureAIInferenceChatCompleteConfig |-> AzureAIInferenceChatCompleteConfig,
   RekaAIChatCompleteConfig |-> RekaAIChatCompleteConfig,
   CohereChatCompleteConfig |-> CohereChatCompleteConfig,
   MistralAIChatCompleteConfig |-> MistralAIChatCompleteConfig,
   DeepbricksChatCompleteConfig |-> DeepbricksChatCompleteConfig,
   FireworksAIChatCompleteConfig |-> FireworksAIChatCompleteConfig,
   OpenrouterChatCompleteConfig |-> OpenrouterChatCompleteConfig,
   AnyscaleChatCompleteConfig |-> AnyscaleChatCompleteConfig,
   DeepSeekChatCompleteConfig |-> DeepSeekChatCompleteConfig,
   PredibaseChatCompleteConfig |-> PredibaseChatCompleteConfig,
   HuggingfaceChatCompleteConfig |-> HuggingfaceChatCompleteConfig,
   BedrockCohereChatCompleteConfig |-> BedrockCohereChatCompleteConfig,
   PerplexityAIChatCompleteConfig |-> PerplexityAIChatCompleteConfig,
   NCompassChatCompleteConfig |-> NCompassChatCompleteConfig,
   LatitudeChatCompleteConfig |-> LatitudeChatCompleteConfig,
   DeepInfraChatCompleteConfig |-> DeepInfraChatCompleteConfig,
   OllamaChatCompleteConfig |-> OllamaChatCompleteConfig,
   WorkersAiChatCompleteConfig |-> WorkersAiChatCompleteConfig,
   BedrockAI21ChatCompleteConfig |-> BedrockAI21ChatCompleteConfig,
   NovitaAIChatCompleteConfig |-> NovitaAIChatCompleteConfig,
   TogetherAIChatCompleteConfig |-> TogetherAIChatCompleteConfig,
   PalmChatCompleteConfig |-> PalmChatCompleteConfig,
   SiliconFlowChatCompleteConfig |-> SiliconFlowChatCompleteConfig,
   AI302ChatCompleteConfig |-> AI302ChatCompleteConfig,
   MoonshotChatCompleteConfig |-> MoonshotChatCompleteConfig,
   LingyiChatCompleteConfig |-> LingyiChatCompleteConfig,
   VertexLlamaChatCompleteConfig |-> VertexLlamaChatCompleteConfig,
   ZhipuChatCompleteConfig |-> ZhipuChatCompleteConfig,
   MonsterAPIChatCompleteConfig |-> MonsterAPIChatCompleteConfig,
   OracleChatCompleteConfig |-> OracleChatCompleteConfig,
   BytezInferenceChatCompleteConfig |-> BytezInferenceChatCompleteConfig,
   BedrockConverseAnthropicChatCompleteConfig |-> BedrockConverseAnthropicChatCompleteConfig,
   BedrockConverseAI21ChatCompleteConfig |-> BedrockConverseAI21ChatCompleteConfig,
   BedrockConverseCohereChatCompleteConfig |-> BedrockConverseCohereChatCompleteConfig,
   VertexAnthropicChatCompleteConfig |-> VertexAnthropicChatCompleteConfig,
   MatterAIChatCompleteConfig |-> MatterAIChatCompleteConfig,
   CometAPIChatCompleteConfig |-> CometAPIChatCompleteConfig]

CompleteTables ==
  [LeptonCompleteConfig |-> LeptonCompleteConfig,
   OpenAICompleteConfig |-> OpenAICompleteConfig,
   FireworksAICompleteConfig |-> FireworksAICompleteConfig,
   AnyscaleCompleteConfig |-> AnyscaleCompleteConfig,
   HuggingfaceCompleteConfig |-> HuggingfaceCompleteConfig,
   AzureOpenAICompleteConfig |-> AzureOpenAICompleteConfig,
   CohereCompleteConfig |-> CohereCompleteConfig,
   BedrockCohereCompleteConfig |-> BedrockCohereCompleteConfig,
   PalmCompleteConfig |-> PalmCompleteConfig,
   BedrockAI21CompleteConfig |-> BedrockAI21CompleteConfig,
   AzureAIInferenceCompleteConfig |-> AzureAIInferenceCompleteConfig,
   AnthropicCompleteConfig |-> AnthropicCompleteConfig,
   TogetherAICompleteConfig |-> TogetherAICompleteConfig,
   NovitaAICompleteConfig |-> NovitaAICompleteConfig,
   BedrockAnthropicCompleteConfig |-> BedrockAnthropicCompleteConfig,
   TritonCompleteConfig |-> TritonCompleteConfig,
   BedrockMistralCompleteConfig |-> BedrockMistralCompleteConfig,
   BedrockLLamaCompleteConfig |-> BedrockLLamaCompleteConfig,
   BedrockTitanCompleteConfig |-> BedrockTitanCompleteConfig,
   WorkersAiCompleteConfig |-> WorkersAiCompleteConfig]

TaskTables ==
  [SegmindImageGenerateConfig |-> SegmindImageGenerateConfig,
   FireworksAIImageGenerateConfig |-> FireworksAIImageGenerateConfig,
   GoogleImageGenConfig |-> GoogleImageGenConfig,
   OpenAIImageGenerateConfig |-> OpenAIImageGenerateConfig,
   AzureOpenAIImageGenerateConfig |-> AzureOpenAIImageGenerateConfig,
   StabilityAIImageGenerateV1Config |-> StabilityAIImageGenerateV1Config,
   OpenrouterImageGenerateConfig |-> OpenrouterImageGenerateConfig,
   RecraftAIImageGenerateConfig |-> RecraftAIImageGenerateConfig,
   StabilityAIImageGenerateV2Config |-> StabilityAIImageGenerateV2Config,
   BedrockStabilityAIImageGenerateV1Config |-> BedrockStabilityAIImageGenerateV1Config,
   BedrockStabilityAIImageGenerateV2Config |-> BedrockStabilityAIImageGenerateV2Config,
   DeepbricksImageGenerateConfig |-> DeepbricksImageGenerateConfig,
   WorkersAiImageGenerateConfig |-> WorkersAiImageGenerateConfig,
   ZAIImageGenerateConfig |-> ZAIImageGenerateConfig,
   SiliconFlowImageGenerateConfig |-> SiliconFlowImageGenerateConfig,
   LemonfoxAIImageGenerateConfig |-> LemonfoxAIImageGenerateConfig,
   HyperbolicImageGenerateConfig |-> HyperbolicImageGenerateConfig,
   NscaleImageGenerateConfig |-> NscaleImageGenerateConfig,
   OpenAICreateModelResponseConfig |-> OpenAICreateModelResponseConfig]

CompatibleTables ==
  [AI21Config |-> AI21Config,
   AIBadgrConfig |-> AIBadgrConfig,
   CerebrasChat |-> CerebrasChat,
   CerebrasComplete |-> CerebrasComplete,
   DashScopeConfig |-> DashScopeConfig,
   DatabricksChat |-> DatabricksChat,
   DatabricksComplete |-> DatabricksComplete,
   EmpirioLabsChat |-> EmpirioLabsChat,
   EmpirioLabsComplete |-> EmpirioLabsComplete,
   EmpirioLabsImage |-> EmpirioLabsImage,
   FeatherlessAIChat |-> FeatherlessAIChat,
   FeatherlessAIComplete |-> FeatherlessAIComplete,
   GroqChat |-> GroqChat,
   GroqResponse |-> GroqResponse,
   HyperbolicChat |-> HyperbolicChat,
   HyperbolicComplete |-> HyperbolicComplete,
   InferenceNetConfig |-> InferenceNetConfig,
   IOIntelligenceChat |-> IOIntelligenceChat,
   IOIntelligenceResponse |-> IOIntelligenceResponse,
   KlusterAIConfig |-> KlusterAIConfig,
   KrutrimConfig |-> KrutrimConfig,
   LambdaChat |-> LambdaChat,
   LambdaComplete |-> LambdaComplete,
   LemonfoxAIConfig |-> LemonfoxAIConfig,
   ModalConfig |-> ModalConfig,
   NebiusChat |-> NebiusChat,
   NebiusComplete |-> NebiusComplete,
   NextBitChat |-> NextBitChat,
   NextBitComplete |-> NextBitComplete,
   NscaleChat |-> NscaleChat,
   NscaleComplete |-> NscaleComplete,
   OVHcloudConfig |-> OVHcloudConfig,
   RequestyConfig |-> RequestyConfig,
   SaladCloudConfig |-> SaladCloudConfig,
   SambaNovaChat |-> SambaNovaChat,
   SambaNovaComplete |-> SambaNovaComplete,
   SCXAIConfig |-> SCXAIConfig,
   UpstageConfig |-> UpstageConfig,
   XAIChat |-> XAIChat,
   XAIComplete |-> XAIComplete,
   XAIResponse |-> XAIResponse,
   ZAIConfig |-> ZAIConfig,
   VertexEndpointConfig |-> VertexEndpointConfig,
   AzureOpenAIResponse |-> AzureOpenAIResponse]

(* TLC keeps the value of AllTables and would make MCTables anew each time *)
(* a constant that stands for it is read; so too AllSays.  Behind a LET it *)
(* counts the coverage of neither, which it would at each place anew.      *)
AllTables == ChatTables @@ CompleteTables @@ TaskTables @@ CompatibleTables
MCTables == LET tables == AllTables IN tables

MCFormSent == {"StabilityAIImageGenerateV2Config"}

Lost(t, names, without) == [table |-> t, params |-> names, without |-> without]
Converse ==
  {"BedrockConverseChatCompleteConfig",
   "BedrockConverseAnthropicChatCompleteConfig",
   "BedrockConverseCohereChatCompleteConfig",
   "BedrockConverseAI21ChatCompleteConfig"}
MCUnheard ==
  {Lost("OracleChatCompleteConfig",
        Params(OracleChatDetailsConfig) \union
          {"oracleCompartmentId", "oracleServingMode"}, {"model"}),
   Lost("PalmChatCompleteConfig", {"context", "examples"}, {"messages"}),
   Lost("BedrockTitanCompleteConfig", {"stop"},
        {"temperature", "max_tokens", "top_p"}),
   Lost("BedrockConverseChatCompleteConfig", {"top_k", "response_format"},
        AdditionalFields)}
  \union {Lost(t, {"model", "tool_choice"}, {"tools"}) : t \in Converse}

-----------------------------------------------------------------------------
(* What is asked.  A bounded parameter is asked below, at zero, within and *)
(* above its bounds; each alone, any two that make one field together, and *)
(* all of a table's at once; with a model and without.                     *)
A(n) == [is |-> "number", n |-> n]
Other(is) == [is |-> is, n |-> 0]

Reads(row) == {row.of} \union row.reads
Numeric(row) ==
  row.reads = {} /\ (row.lo # -Far \/ row.hi # Far \/ row.default.is = "number")

Names(config) ==
  {"model", "stream"} \union UNION {Reads(config[i]) : i \in DOMAIN config}
Counted(config) ==
  LET numbers == {config[i].to : i \in {i \in DOMAIN config : Numeric(config[i])}}
  IN  UNION {IF config[i].to \in numbers THEN {config[i].of}
             ELSE config[i].truthy : i \in DOMAIN config}

Few(p, numeric) ==
  IF p = "size" THEN {A(51200)} ELSE IF p = "stop" THEN {Text}
  ELSE IF p \in numeric THEN {A(0), A(70)} ELSE {Other("word")}
Many(p, numeric) ==
  IF p = "size" THEN {A(100), A(51200), A(90000000)}
  ELSE IF p = "stop" THEN {Text, List}
  ELSE {Other("lightport-default")} \union
       IF p \in numeric THEN {A(-100000), A(0), A(70), A(90000000)}
       ELSE {Other("word")}

OneField(config) ==
  UNION {LET together == UNION {Reads(config[i])
                                : i \in {i \in DOMAIN config : config[i].to = f}}
         IN  {<<p, q>> \in together \X together : p # q}
         : f \in Fields(config)}

Model == "model" :> Other("word")

Sayings(config) ==
  LET names == Names(config)
      numeric == Counted(config)
      one == UNION {{p :> v : v \in Many(p, numeric)} : p \in names}
      two == UNION {{p :> v @@ q :> w
                     : v \in Few(p, numeric), w \in Few(q, numeric)}
                    : <<p, q>> \in OneField(config)}
      every == [p \in names |-> CHOOSE v \in Few(p, numeric) : v # A(0)]
  IN  one \union {ask @@ Model : ask \in one \union two} \union {every}

AllSays ==
  [t \in DOMAIN AllTables |-> Sayings(AllTables[t])] @@ "none" :> {<<>>, Model}
MCSays == LET says == AllSays IN says

-----------------------------------------------------------------------------
MCCatalogue == LET providers == Providers IN providers

MCMessages ==
  {<<"text">>, <<"thought", "text", "call", "call">>, <<"text", "call">>,
   <<"thought", "call">>, <<"text", "thought", "text">>}

(* What is known of whom, for each function: what a stream does not tell   *)
(* as the whole answer does, how it ends otherwise, what becomes of a      *)
(* failure.  The README says of each why.                                  *)
Known ==
  [thought |-> [chatComplete |-> {"groq", "openrouter", "sambanova"}],
   strays |-> [chatComplete |-> {"cohere"}],
   parted |-> [chatComplete |-> {"bedrock"}],
   calls |-> [chatComplete |-> {"cohere", "sambanova", "together-ai"}],
   usage |->
     [chatComplete |->
        {"302ai", "anyscale", "bytez", "lemonfox-ai", "lepton", "lingyi", "moonshot",
         "ncompass", "ollama", "oracle", "together-ai", "zhipu"},
      complete |-> {"anyscale", "lepton", "novita-ai", "together-ai"}],
   finish |->
     [chatComplete |-> {"bytez", "perplexity-ai", "sambanova"},
      complete |-> {"cohere", "novita-ai", "together-ai"}],
   done |-> [complete |-> {"anthropic", "cohere"}],
   cut |-> [chatComplete |-> {"deepseek"}],
   misread |-> [chatComplete |-> {"google"}],
   answer |-> [chatComplete |-> {"bytez"}],
   trips |->
     [complete |-> {"cohere", "fireworks-ai"},
      imageGenerate |-> {"fireworks-ai", "nscale"}],
   passed |->
     [chatComplete |->
        {"azure-ai", "azure-openai", "deepbricks", "fireworks-ai", "github",
         "krutrim", "lemonfox-ai", "lepton", "matterai", "openai", "sambanova",
         "siliconflow", "x-ai"},
      complete |->
        {"azure-ai", "azure-openai", "github", "lepton", "openai", "x-ai"},
      imageGenerate |->
        {"azure-ai", "azure-openai", "deepbricks", "empiriolabs", "hyperbolic",
         "lemonfox-ai", "openai", "openrouter", "recraft-ai", "siliconflow",
         "z-ai"},
      createModelResponse |->
        {"azure-openai", "groq", "openai", "openrouter", "x-ai"}]]

(* The same of one kind of Bedrock's or Vertex's models, or of one that is *)
(* named with its region or by its ARN.                                    *)
Renamed == {"region", "arn"}
OfModel(e, facet) ==
  \/ /\ e.provider = "bedrock" /\ e.fn = "chatComplete"
     /\ \/ e.model = "commandText" /\ e.prefix \in Renamed
           /\ facet \in {"done", "dialect"}
        \/ e.model = "j2" /\ e.prefix \in Renamed /\ facet \in {"thought", "calls"}
        \/ e.model = "j2" /\ facet \in {"finish", "dialect"}
  \/ /\ e.provider = "bedrock" /\ e.fn = "complete"
     /\ e.model \in {"j2", "jamba", "titan"} /\ facet = "done"
  \/ /\ e.provider = "vertex-ai" /\ e.fn = "chatComplete"
     /\ <<e.model, facet>> \in {<<"google", "done">>, <<"meta", "cut">>}

MCExcepted(e, facet) ==
  \/ /\ facet \in DOMAIN Known /\ e.fn \in DOMAIN Known[facet]
     /\ e.provider \in Known[facet][e.fn]
  \/ OfModel(e, facet)
=============================================================================
