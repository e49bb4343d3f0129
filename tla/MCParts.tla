------------------------------ MODULE MCParts -------------------------------
(* Small instances of the parts of a node that calls go through: what an      *)
(* inference meets (executor, cache of models, model files, token loop), the  *)
(* chat, the paying proxy and its prices, the limits of the interactive       *)
(* channels, the tools on files, memories and skills, the offers of tools,    *)
(* the workspace, the payment channels.  They share no state in the code: a   *)
(* behaviour is one of one of them, chosen by component.  The token loop, the *)
(* executor, the cache and the distribution of models, the payment channels   *)
(* and the paying proxy are extended, not instantiated, so that their         *)
(* theorems speak of the same formulas.                                       *)
EXTENDS GgufGeneration, TaskExecutor, ModelCache, ModelDistribution, PaymentChannel,
        ProxyGate, Sequences

CONSTANTS
  Components,
  Inferences, WasmTasks,
  large,
  DefaultModel, Torn, MaxExchanges,
  Thread, max_connections, MaxTime,
  Reader, Overwriter, Appender, Offset, ReadLimit, Length, Buffer, MAX_READ_SIZE,
  Top, entry_d, entry_h, entry_e, entry_f, entry_g, entry_k, ListLimits,
  Writer, Searcher, searchLimit, Accepted, Wanted,
  Scanner, Version, skill_x, skill_y, file_x, file_y, NoSkill,
  Page, NoPage, Newline, max_file_size, MaxCalls,
  alice, bob, BobsTasks,
  Downloader, Remover, ModelFile, Whole, MaxFiles,
  MaxLength, LengthLimits, MaxSecrets,
  Adder, Creator, Deleter, PointRemover, Collection, Dim, DefaultDim, MaxMade,
  Tool, Registrar, WasmCall, NoTool, fuel_limit,
  letter_a, letter_b, tag_t, tag_u, MaxModels,
  ToolName, ToolPeer, ToolCaller, max_age, MaxToolTime,
  KnownSection, CustomSection, FieldValue, DefaultValue, ListItem, ItemWithColon,
  MaxIdentityLines, MaxSkills, word_a, word_b, word_c, word_d,
  thread_t, thread_u, thread_w, dimension

OfferTerms ==
  {[price |-> 2, reliability |-> 0], [price |-> 4, reliability |-> 1],
   [price |-> 3, reliability |-> 2]}
UserInputs == {<<word_a>>, <<word_b>>, <<word_a, word_b>>}
Skill(k, e, p, t, r, av, n) ==
  [keywords |-> k, exclude_keywords |-> e, patterns |-> p, tags |-> t,
   trust |-> r, available |-> av, length |-> n]
SkillShapes ==
  {Skill({word_a}, {}, {}, 0, "Network", TRUE, 9),
   Skill({word_b}, {word_a}, {}, 0, "Local", TRUE, 4),
   Skill({word_a}, {}, {{word_a, word_b}, {word_b}}, 0, "Installed", TRUE, 7),
   Skill({}, {}, {{word_b}}, 1, "Local", FALSE, 4),
   Skill({}, {}, {{word_b}}, 1, "Local", TRUE, 8)}
SelectLimits ==
  {[max_skills |-> 1, min_score |-> 3, max_tokens |-> 4],
   [max_skills |-> 2, min_score |-> 0, max_tokens |-> 2],
   [max_skills |-> 3, min_score |-> 2, max_tokens |-> 4]}
TextOf ==
  [t \in {thread_t, thread_u, thread_w} |->
    CASE t = thread_t -> <<word_c, word_d, word_c>>
      [] t = thread_u -> <<word_d, word_c, word_c>> [] OTHER -> <<>>]
HashOfWord ==
  [w \in {word_c, word_d} |-> IF w = word_c THEN <<1, 4, 2>> ELSE <<2, 1, 5>>]
KindsOf == [t \in Task |-> IF t \in Inferences THEN "inference"
                       ELSE IF t \in WasmTasks THEN "wasm" ELSE "web"]
SizesOf == [m \in Model |-> IF m = large THEN 2 ELSE 1]
ChatModel == {DefaultModel, large}
Limit == [minute |-> 1, hour |-> 2]
Period == [minute |-> 1, hour |-> 2]
SuppliesOf == [n \in Node |-> IF n = bob THEN 1 ELSE 2]
CallsOn == [t \in PayTask |-> IF t \in BobsTasks THEN bob ELSE alice]
TreeDirectory == {entry_d, entry_h, entry_e}
TreeEntry == TreeDirectory \cup {entry_f, entry_g, entry_k}
TreeParent == [e \in TreeEntry |-> CASE e \in {entry_d, entry_h, entry_k} -> Top
                                  [] e \in {entry_e, entry_f} -> entry_d [] e = entry_g -> entry_h]
OllamaName == {[base |-> <<letter_a>>, tag |-> tag_t],
                [base |-> <<letter_a, letter_b>>, tag |-> tag_t],
                [base |-> <<letter_a, letter_b>>, tag |-> tag_u],
                [base |-> <<letter_b>>, tag |-> tag_t]}
SkillFile == [n \in {skill_x, skill_y} |-> IF n = skill_x THEN file_x ELSE file_y]

VARIABLES
  component,
  saved, sessionSettings, mode, chatAt, sessionHistory, chatPrompt, cleared,
  shown, total_requests,
  time, count, last_reset, thread, connection_count, subscribed,
  file, fileAt, arg, size, left, background, got, spoilt,
  recursive, include_hidden, listLimit, present, stack, entries, directory,
  unreadEntries, listBatch, listAt,
  MEMORY_VECTOR_STORE, storesMade, memoryPoints, memoryAt, store, vectors,
  texts, written, results,
  skillDisk, local_skills, skillAt, job, unreadSkills, seen, steady,
  page, pageAt, mine, opened, calls, kept, outcome,
  dir, modelContent, created, pullAt, pullName, handle, copied, began,
  announced, leftFiles, recreated,
  output, max_output_length, leak_detection_enabled, policy_enabled,
  injection_defense_enabled, content, sorted_matches, patterns, safetyAt,
  verdict, warnings,
  collections, collectionsMade, dim, collectionPoints, vectorAt,
  collectionName, col, deleted, removed, overtaken,
  wasmFile, part, tornTools, registering, known, compiled, wasmAt, tool,
  module, fuel, steps, output_json, value, fuel_consumed, met,
  registry, models, use_ollama, ollamaAt, requestedModel, listed,
  ollama_model, model_id,
  network_tools, namedTools, registryTime, swept, offersSaid, toolCall,
  toolStats,
  identityLines, identitySection, agentIdentity,
  loadedSkills, userInput, selectLimits, selected, selectAt, usedSkills,
  tokens_used, promptLength,
  slashTyped, slashCompleted, understood,
  embeddersMade, globalEmbedder, embedAt, embedMine, vocab, vector

Chat == INSTANCE ChatSession WITH at <- chatAt, prompt <- chatPrompt, Model
    <- ChatModel, typed <- slashTyped, completed <- slashCompleted
Limiter == INSTANCE ChannelLimits WITH active <- subscribed
Files == INSTANCE FileTools WITH Limit <- ReadLimit, current <- directory,
    unread <- unreadEntries, batch <- listBatch, Entry <- TreeEntry, Limits <-
    ListLimits, Directory <- TreeDirectory, ParentOf <- TreeParent, Hidden <-
    {entry_h}
Vectors == INSTANCE VectorStore WITH limit <- searchLimit, name <-
    collectionName, Remover <- PointRemover, Name <- Collection, global <-
    globalEmbedder, mine <- embedMine, Thread <- {thread_t, thread_u, thread_w},
    Token <- {word_c, word_d}, Texts <- TextOf, HashOf <- HashOfWord
Skills == INSTANCE Skills WITH disk <- skillDisk, unread <- unreadSkills,
    Process <- Scanner, Name <- {skill_x, skill_y}, Path <- {file_x, file_y},
    FileOf <- SkillFile, skills <- loadedSkills, input <- userInput, limits <-
    selectLimits, used <- usedSkills, length <- promptLength, Word <- {word_a,
    word_b}, Part <- {<<word_a, word_b>>}, Inputs <- UserInputs, Shapes <-
    SkillShapes, Limits <- SelectLimits, Heading <- 2
Workspace == INSTANCE WorkspaceFiles WITH file <- page, Handle <- Page,
    NoFile <- NoPage, lines <- identityLines, section <- identitySection,
    identity <- agentIdentity, Known <- KnownSection, Custom <- CustomSection,
    Value <- FieldValue, Default <- DefaultValue, Item <- ListItem, WithColon <-
    ItemWithColon, MaxLines <- MaxIdentityLines
Models == INSTANCE LocalModels WITH content <- modelContent, name <-
    pullName, written <- copied, left <- leftFiles, Name <- ModelFile, model <-
    requestedModel, OllamaName <- OllamaName, Local <- {[base |-> <<letter_a,
    letter_b>>, tag |-> tag_u]}
Safety == INSTANCE SafetyLayer WITH at <- safetyAt, action <- verdict,
    Limits <- LengthLimits
Agent == INSTANCE AgentTools WITH file <- wasmFile, torn <- tornTools,
    WasmCall <- WasmCall, named <- namedTools, now <- registryTime, said <-
    offersSaid, call <- toolCall, stats <- toolStats, Name <- ToolName, Peer <-
    ToolPeer, Call <- ToolCaller, Terms <- OfferTerms, MaxTime <- MaxToolTime

ggufVars ==
  <<files, phase, path, prompt, max_tokens, kv, n_cur, token_count,
    text, streamed, finish_reason>>
chatVars ==
  <<saved, sessionSettings, mode, chatAt, sessionHistory, chatPrompt,
    cleared, shown, total_requests>>
limiterVars ==
  <<time, count, last_reset, thread, connection_count, subscribed>>
filesVars ==
  <<file, fileAt, arg, size, left, background, got, spoilt>>
listVars ==
  <<recursive, include_hidden, listLimit, present, stack, entries,
    directory, unreadEntries, listBatch, listAt>>
memoryVars ==
  <<MEMORY_VECTOR_STORE, storesMade, memoryPoints, memoryAt, store,
    vectors, texts, written, results>>
skillsVars ==
  <<skillDisk, local_skills, skillAt, job, unreadSkills, seen, steady>>
workspaceVars ==
  <<page, pageAt, mine, opened, calls, kept, outcome>>
pullVars ==
  <<dir, modelContent, created, pullAt, pullName, handle, copied, began,
    announced, leftFiles, recreated>>
safetyVars ==
  <<output, max_output_length, leak_detection_enabled, policy_enabled,
    injection_defense_enabled, content, sorted_matches, patterns,
    safetyAt, verdict, warnings>>
vectorVars ==
  <<collections, collectionsMade, dim, collectionPoints, vectorAt,
    collectionName, col, deleted, removed, overtaken>>
wasmVars ==
  <<wasmFile, part, tornTools, registering, known, compiled, wasmAt,
    tool, module, fuel, steps, output_json, value, fuel_consumed, met>>
ollamaVars ==
  <<registry, models, use_ollama, ollamaAt, requestedModel, listed,
    ollama_model, model_id>>
regVars ==
  <<network_tools, namedTools, registryTime, swept, offersSaid,
    toolCall, toolStats>>
identVars ==
  <<identityLines, identitySection, agentIdentity>>
selectVars ==
  <<loadedSkills, userInput, selectLimits, selected, selectAt,
    usedSkills, tokens_used, promptLength>>
slashVars ==
  <<slashTyped, slashCompleted, understood>>
embedVars ==
  <<embeddersMade, globalEmbedder, embedAt, embedMine, vocab, vector>>

partsVars == <<component, executorVars, cacheVars, distVars, ggufVars,
  chatVars, gateVars, patternVars, limiterVars, filesVars, listVars,
  memoryVars, skillsVars, workspaceVars, paymentVars, pullVars,
  safetyVars, vectorVars, wasmVars, ollamaVars, regVars, identVars,
  selectVars, slashVars, embedVars>>

PartsInit ==
  /\ component \in Components
  /\ ExecutorInit
  /\ CacheInit
  /\ DistInit
  /\ Init
  /\ component # "gguf" => files = {}
  /\ Chat!SessionInit
  /\ GateInit
  /\ PatternInit
  /\ component # "pricing" => pattern_parts = <<>> /\ path_parts = <<>>
  /\ Limiter!Init
  /\ Files!CallInit
  /\ Files!ListInit
  /\ component # "list" => ~recursive /\ ~include_hidden /\ listLimit = 0
  /\ Vectors!MemoryInit
  /\ Skills!StoreInit
  /\ component # "skills" => skillDisk = [f \in {file_x, file_y} |-> NoSkill]
  /\ Workspace!PageInit
  /\ component # "workspace" => page = NoPage
  /\ PaymentInit
  /\ Models!PullInit
  /\ Safety!Init
  /\ component # "safety" => max_output_length = CHOOSE l \in LengthLimits : TRUE
  /\ Vectors!VectorInit
  /\ Agent!WasmInit
  /\ Models!OllamaInit
  /\ Agent!RegistryInit
  /\ Workspace!IdentityInit
  /\ Skills!SelectInit
  /\ Chat!SlashInit
  /\ Vectors!EmbedInit

ExecAlone ==
  /\ component = "executor"
  /\ UNCHANGED <<component, cacheVars, distVars, ggufVars, chatVars,
                 gateVars, patternVars, limiterVars, filesVars, listVars, memoryVars,
                 skillsVars, workspaceVars, paymentVars, pullVars, safetyVars,
                 vectorVars, wasmVars, ollamaVars, regVars, identVars, selectVars,
                 slashVars, embedVars>>
ExecNext == ExecAlone /\ ExecutorNext
LoadAlone ==
  /\ component = "cache"
  /\ UNCHANGED <<component, executorVars, distVars, ggufVars, chatVars,
                 gateVars, patternVars, limiterVars, filesVars, listVars, memoryVars,
                 skillsVars, workspaceVars, paymentVars, pullVars, safetyVars,
                 vectorVars, wasmVars, ollamaVars, regVars, identVars, selectVars,
                 slashVars, embedVars>>
LoadNext == LoadAlone /\ CacheNext
DistAlone ==
  /\ component = "distribution"
  /\ UNCHANGED <<component, executorVars, cacheVars, ggufVars, chatVars,
                 gateVars, patternVars, limiterVars, filesVars, listVars, memoryVars,
                 skillsVars, workspaceVars, paymentVars, pullVars, safetyVars,
                 vectorVars, wasmVars, ollamaVars, regVars, identVars, selectVars,
                 slashVars, embedVars>>
DistNext == DistAlone /\ DistributionNext
GgufAlone ==
  /\ component = "gguf"
  /\ UNCHANGED <<component, executorVars, cacheVars, distVars, chatVars,
                 gateVars, patternVars, limiterVars, filesVars, listVars, memoryVars,
                 skillsVars, workspaceVars, paymentVars, pullVars, safetyVars,
                 vectorVars, wasmVars, ollamaVars, regVars, identVars, selectVars,
                 slashVars, embedVars>>
GgufNext == GgufAlone /\ Next
ChatAlone ==
  /\ component = "chat"
  /\ UNCHANGED <<component, executorVars, cacheVars, distVars, ggufVars,
                 gateVars, patternVars, limiterVars, filesVars, listVars, memoryVars,
                 skillsVars, workspaceVars, paymentVars, pullVars, safetyVars,
                 vectorVars, wasmVars, ollamaVars, regVars, identVars, selectVars,
                 slashVars, embedVars>>
ChatNext == ChatAlone /\ Chat!SessionNext
ProxyAlone ==
  /\ component = "proxy"
  /\ UNCHANGED <<component, executorVars, cacheVars, distVars, ggufVars,
                 chatVars, patternVars, limiterVars, filesVars, listVars, memoryVars,
                 skillsVars, workspaceVars, paymentVars, pullVars, safetyVars,
                 vectorVars, wasmVars, ollamaVars, regVars, identVars, selectVars,
                 slashVars, embedVars>>
PayingNext == ProxyAlone /\ GateNext
PricingAlone ==
  /\ component = "pricing"
  /\ UNCHANGED <<component, executorVars, cacheVars, distVars, ggufVars,
                 chatVars, gateVars, limiterVars, filesVars, listVars, memoryVars,
                 skillsVars, workspaceVars, paymentVars, pullVars, safetyVars,
                 vectorVars, wasmVars, ollamaVars, regVars, identVars, selectVars,
                 slashVars, embedVars>>
PricingNext == PricingAlone /\ PatternNext
LimiterAlone ==
  /\ component = "limits"
  /\ UNCHANGED <<component, executorVars, cacheVars, distVars, ggufVars,
                 chatVars, gateVars, patternVars, filesVars, listVars, memoryVars,
                 skillsVars, workspaceVars, paymentVars, pullVars, safetyVars,
                 vectorVars, wasmVars, ollamaVars, regVars, identVars, selectVars,
                 slashVars, embedVars>>
LimiterNext == LimiterAlone /\ Limiter!Next
FilesAlone ==
  /\ component = "files"
  /\ UNCHANGED <<component, executorVars, cacheVars, distVars, ggufVars,
                 chatVars, gateVars, patternVars, limiterVars, listVars, memoryVars,
                 skillsVars, workspaceVars, paymentVars, pullVars, safetyVars,
                 vectorVars, wasmVars, ollamaVars, regVars, identVars, selectVars,
                 slashVars, embedVars>>
FilesNext == FilesAlone /\ Files!CallNext
ListAlone ==
  /\ component = "list"
  /\ UNCHANGED <<component, executorVars, cacheVars, distVars, ggufVars,
                 chatVars, gateVars, patternVars, limiterVars, filesVars, memoryVars,
                 skillsVars, workspaceVars, paymentVars, pullVars, safetyVars,
                 vectorVars, wasmVars, ollamaVars, regVars, identVars, selectVars,
                 slashVars, embedVars>>
ListNext == ListAlone /\ Files!ListNext
MemoryAlone ==
  /\ component = "memory"
  /\ UNCHANGED <<component, executorVars, cacheVars, distVars, ggufVars,
                 chatVars, gateVars, patternVars, limiterVars, filesVars, listVars,
                 skillsVars, workspaceVars, paymentVars, pullVars, safetyVars,
                 vectorVars, wasmVars, ollamaVars, regVars, identVars, selectVars,
                 slashVars, embedVars>>
MemoryNext == MemoryAlone /\ Vectors!MemoryNext
SkillsAlone ==
  /\ component = "skills"
  /\ UNCHANGED <<component, executorVars, cacheVars, distVars, ggufVars,
                 chatVars, gateVars, patternVars, limiterVars, filesVars, listVars,
                 memoryVars, workspaceVars, paymentVars, pullVars, safetyVars,
                 vectorVars, wasmVars, ollamaVars, regVars, identVars, selectVars,
                 slashVars, embedVars>>
SkillsNext == SkillsAlone /\ Skills!StoreNext
WorkspaceAlone ==
  /\ component = "workspace"
  /\ UNCHANGED <<component, executorVars, cacheVars, distVars, ggufVars,
                 chatVars, gateVars, patternVars, limiterVars, filesVars, listVars,
                 memoryVars, skillsVars, paymentVars, pullVars, safetyVars, vectorVars,
                 wasmVars, ollamaVars, regVars, identVars, selectVars, slashVars,
                 embedVars>>
WorkspaceNext == WorkspaceAlone /\ Workspace!PageNext
PayAlone ==
  /\ component = "payments"
  /\ UNCHANGED <<component, executorVars, cacheVars, distVars, ggufVars,
                 chatVars, gateVars, patternVars, limiterVars, filesVars, listVars,
                 memoryVars, skillsVars, workspaceVars, pullVars, safetyVars, vectorVars,
                 wasmVars, ollamaVars, regVars, identVars, selectVars, slashVars,
                 embedVars>>
PayNext == PayAlone /\ PaymentNext
PullAlone ==
  /\ component = "modelfiles"
  /\ UNCHANGED <<component, executorVars, cacheVars, distVars, ggufVars,
                 chatVars, gateVars, patternVars, limiterVars, filesVars, listVars,
                 memoryVars, skillsVars, workspaceVars, paymentVars, safetyVars,
                 vectorVars, wasmVars, ollamaVars, regVars, identVars, selectVars,
                 slashVars, embedVars>>
PullNext == PullAlone /\ Models!PullNext
SafetyAlone ==
  /\ component = "safety"
  /\ UNCHANGED <<component, executorVars, cacheVars, distVars, ggufVars,
                 chatVars, gateVars, patternVars, limiterVars, filesVars, listVars,
                 memoryVars, skillsVars, workspaceVars, paymentVars, pullVars,
                 vectorVars, wasmVars, ollamaVars, regVars, identVars, selectVars,
                 slashVars, embedVars>>
SafetyNext == SafetyAlone /\ Safety!Next
VectorAlone ==
  /\ component = "collections"
  /\ UNCHANGED <<component, executorVars, cacheVars, distVars, ggufVars,
                 chatVars, gateVars, patternVars, limiterVars, filesVars, listVars,
                 memoryVars, skillsVars, workspaceVars, paymentVars, pullVars,
                 safetyVars, wasmVars, ollamaVars, regVars, identVars, selectVars,
                 slashVars, embedVars>>
VectorNext == VectorAlone /\ Vectors!VectorNext
WasmAlone ==
  /\ component = "wasm"
  /\ UNCHANGED <<component, executorVars, cacheVars, distVars, ggufVars,
                 chatVars, gateVars, patternVars, limiterVars, filesVars, listVars,
                 memoryVars, skillsVars, workspaceVars, paymentVars, pullVars,
                 safetyVars, vectorVars, ollamaVars, regVars, identVars, selectVars,
                 slashVars, embedVars>>
WasmNext == WasmAlone /\ Agent!WasmNext
OllamaAlone ==
  /\ component = "ollama"
  /\ UNCHANGED <<component, executorVars, cacheVars, distVars, ggufVars,
                 chatVars, gateVars, patternVars, limiterVars, filesVars, listVars,
                 memoryVars, skillsVars, workspaceVars, paymentVars, pullVars,
                 safetyVars, vectorVars, wasmVars, regVars, identVars, selectVars,
                 slashVars, embedVars>>
OllamaNext == OllamaAlone /\ Models!OllamaNext
RegAlone ==
  /\ component = "registry"
  /\ UNCHANGED <<component, executorVars, cacheVars, distVars, ggufVars,
                 chatVars, gateVars, patternVars, limiterVars, filesVars, listVars,
                 memoryVars, skillsVars, workspaceVars, paymentVars, pullVars,
                 safetyVars, vectorVars, wasmVars, ollamaVars, identVars, selectVars,
                 slashVars, embedVars>>
RegNext == RegAlone /\ Agent!RegistryNext
IdentAlone ==
  /\ component = "identity"
  /\ UNCHANGED <<component, executorVars, cacheVars, distVars, ggufVars,
                 chatVars, gateVars, patternVars, limiterVars, filesVars, listVars,
                 memoryVars, skillsVars, workspaceVars, paymentVars, pullVars,
                 safetyVars, vectorVars, wasmVars, ollamaVars, regVars, selectVars,
                 slashVars, embedVars>>
IdentNext == IdentAlone /\ Workspace!IdentityNext
SelectAlone ==
  /\ component = "selection"
  /\ UNCHANGED <<component, executorVars, cacheVars, distVars, ggufVars,
                 chatVars, gateVars, patternVars, limiterVars, filesVars, listVars,
                 memoryVars, skillsVars, workspaceVars, paymentVars, pullVars,
                 safetyVars, vectorVars, wasmVars, ollamaVars, regVars, identVars,
                 slashVars, embedVars>>
SelectNext == SelectAlone /\ Skills!SelectNext
SlashAlone ==
  /\ component = "slash"
  /\ UNCHANGED <<component, executorVars, cacheVars, distVars, ggufVars,
                 chatVars, gateVars, patternVars, limiterVars, filesVars, listVars,
                 memoryVars, skillsVars, workspaceVars, paymentVars, pullVars,
                 safetyVars, vectorVars, wasmVars, ollamaVars, regVars, identVars,
                 selectVars, embedVars>>
SlashNext == SlashAlone /\ Chat!SlashNext
EmbedAlone ==
  /\ component = "embedder"
  /\ UNCHANGED <<component, executorVars, cacheVars, distVars, ggufVars,
                 chatVars, gateVars, patternVars, limiterVars, filesVars, listVars,
                 memoryVars, skillsVars, workspaceVars, paymentVars, pullVars,
                 safetyVars, vectorVars, wasmVars, ollamaVars, regVars, identVars,
                 selectVars, slashVars>>
EmbedNext == EmbedAlone /\ Vectors!EmbedNext

PartsNext ==
  ExecNext \/ LoadNext \/ DistNext \/ GgufNext \/ ChatNext \/ PayingNext \/
  PricingNext \/ LimiterNext \/ FilesNext \/ ListNext \/ MemoryNext \/
  SkillsNext \/ WorkspaceNext \/ PayNext \/ PullNext \/ SafetyNext \/
  VectorNext \/ WasmNext \/ OllamaNext \/ RegNext \/ IdentNext \/ SelectNext
  \/ SlashNext \/ EmbedNext

PartsSpec == PartsInit /\ [][PartsNext]_partsVars

\* Each component that has liveness properties under its own fairness.
FairSpec ==
  /\ PartsSpec
  /\ \A t \in PayTask : WF_paymentVars(component = "payments" /\ Continue(t))

\* start_download does not exclude a second call; what happens then is not followed.
NoOverlap == ~overlapped

\* What follows an update that strayed is followed with one call at a time and
\* no nonce above one.
StraysFollowed ==
  component = "payments" /\ strays > 0 =>
    /\ \A t, u \in PayTask : t # u => "idle" \in {payAt[t], payAt[u]}
    /\ \A n \in Node : channel[n] # NoChannel => channel[n].nonce <= 1

\* Every component keeps its types.
PartsTypeOK ==
  /\ component = "executor" => ExecutorTypeOK
  /\ component = "cache" => CacheTypeOK
  /\ component = "distribution" => DistTypeOK
  /\ component = "gguf" => TypeOK
  /\ component = "chat" => Chat!SessionTypeOK
  /\ component = "proxy" => GateTypeOK
  /\ component = "pricing" => PatternTypeOK
  /\ component = "limits" => Limiter!TypeOK
  /\ component = "files" => Files!CallTypeOK
  /\ component = "list" => Files!ListTypeOK
  /\ component = "memory" => Vectors!MemoryTypeOK
  /\ component = "skills" => Skills!StoreTypeOK
  /\ component = "workspace" => Workspace!PageTypeOK
  /\ component = "payments" => PaymentTypeOK
  /\ component = "modelfiles" => Models!PullTypeOK
  /\ component = "safety" => Safety!TypeOK
  /\ component = "collections" => Vectors!VectorTypeOK
  /\ component = "wasm" => Agent!WasmTypeOK
  /\ component = "ollama" => Models!OllamaTypeOK
  /\ component = "registry" => Agent!RegistryTypeOK
  /\ component = "identity" => Workspace!IdentityTypeOK
  /\ component = "selection" => Skills!SelectTypeOK
  /\ component = "slash" => Chat!SlashTypeOK
  /\ component = "embedder" => Vectors!EmbedTypeOK

\* An exchange is in the history of the chat once and in order, however it
\* was compacted, the model is asked about the latest ones, and the chat
\* understands the commands it offers (cli/chat.rs); the limiter of the
\* interactive channels lets through what its window allows and those already
\* past the check, with every place accounted for (channels/channel.rs, sse.rs).
ConversationKept ==
  /\ component = "limits" => Limiter!AdmittedBounded
  /\ component = "limits" => Limiter!PlacesAccounted
  /\ component = "chat" => Chat!NothingForgotten
  /\ component = "chat" => Chat!PromptIsRecent
  /\ component = "slash" => Chat!CompletedIsUnderstood
  /\ component = "slash" => Chat!HelpedIsUnderstood


\* Calls on one file, by a tool or through the workspace, lose no text that
\* was appended and read what is there, a list of a tree is whole
\* (tools/builtin/file.rs, workspace/mod.rs), and IDENTITY.md is read as it
\* was written (workspace/identity.rs).
FilesKept ==
  /\ component = "files" => Files!WritesKept
  /\ component = "files" => Files!ReadsTrue
  /\ component = "list" => Files!ListWhole
  /\ component = "workspace" => Workspace!AppendsKept
  /\ component = "identity" => Workspace!ItemsRead
  /\ component = "identity" => Workspace!WrittenIsRead

\* A model reported as downloaded is whole (cli/models.rs), and an answer of
\* Ollama is from a model the name stands for on its list (inference/ollama.rs);
\* a memory that was stored is found, whichever call made the store, a scan
\* for skills tells what is on disk, whoever changes it meanwhile, and the
\* best of them are chosen, a point is in the collection it was added to, and
\* threads share one vocabulary (tools/builtin/memory.rs, skills/, vector/).
StoresTrue ==
  /\ component = "ollama" => Models!AnsweredByTheModelMeant
  /\ component = "ollama" => Models!ResolvedIffThere
  /\ component = "modelfiles" => Models!AnnouncedWhole
  /\ component = "modelfiles" => Models!PartialExplained
  /\ component = "selection" => Skills!BestSkillsChosen
  /\ component = "selection" => Skills!PromptBounded
  /\ component = "embedder" => Vectors!OneVocabulary
  /\ component = "embedder" => Vectors!VectorOfBag
  /\ component = "memory" => Vectors!MemoriesFound
  /\ component = "skills" => Skills!ScanTrue
  /\ component = "collections" => Vectors!PointsKept
  /\ component = "collections" => Vectors!CreationFailsOnlyIfRaced

\* What a comment of the chat says: the answers in the history have been
\* printed (cli/chat.rs:1194).
AnswersShown == component = "chat" => Chat!AnswersShown
=============================================================================
