------------------------------- MODULE MCNode -------------------------------
(* Small instances of the services of a node, which run tasks of their own,   *)
(* and of what its programs, its tools and its offers of work do.  They share *)
(* no state in the code: a behaviour is one of one of them, chosen by         *)
(* component.  The routine engine, the heartbeat, the messaging registry, the *)
(* batch aggregator, the programs of one directory and the offers of work are *)
(* extended, not instantiated, so that their theorems speak of the same       *)
(* formulas.                                                                  *)
EXTENDS RoutineEngine, Heartbeat, Messaging, BatchAggregator, NodePrograms,
        JobOffers

CONSTANTS
  Components,
  Peer, MaxConnections, MaxSwarmQueue, Chat, Submission, Unknown, ChannelSize,
  RemotePeer, Recorder, MaxJobs, max_action_history,
  InferencesOfOther, other, large,
  Caller, QueueSize, MaxId, MaxAnswers,
  SameName,
  PipeCapacity, Input, NoInput, Output, MAX_OUTPUT_SIZE,
  Words, EventCapacity,
  TypedLine, Quit, BlankLine, MaxLines, StreamSubscriber, StreamCapacity,
  MaxStreamEvents, MaxReaders,
  server_s, server_t, McpTool, Connector, Closer, NoClient, MaxClients,
  HiddenKind, MaxPieces, TextLengths, BodySize, MAX_RESPONSE_SIZE,
  NodeJob, DashboardPage, MaxCopies, CompletedShown,
  Post, Outgoing, outgoing_url, QueueCapacity, MaxConnects,
  InboxPeer

ModelsOf == [r \in Inference |-> IF r \in InferencesOfOther THEN other ELSE large]
NamesOf == [l \in Link |-> IF l \in SameName THEN "shared" ELSE l]
Only(f, v) == [g \in {"message", "text", "content"} |-> IF g = f THEN v ELSE "absent"]
PayloadShape ==
  {Only("message", "string"), Only("text", "string"), Only("content", "string"),
   Only("message", "other"), [Only("text", "string") EXCEPT !["message"] = "other"]}
BidsMade == RemoteTask \X {1, 2}
TasksOfBids == [b \in BidsMade |-> b[1]]
PricesOfBids == [b \in BidsMade |-> 1 + b[2]]
ScoresOfBids == [b \in BidsMade |-> b[2]]
Mail == InboxPeer \X {1, 2}
MailFrom == [m \in Mail |-> m[1]]
RateOf == [inference |-> 25, cpu |-> 20, image |-> 3]
UnitOf == [inference |-> 10, cpu |-> 36, image |-> 1]

VARIABLES
  component,
  connections, swarmQueue, connected_peers, cutOff, stage, current, webPeers,
  inference_rx, job_submit_rx, call, answer, jobs, interrupt,
  agents, peer_to_agent, bridge, recorder, stats, history,
  request_id, pending, queue, clientRunning, writer, reader, server, answers,
  caller,
  shellAt, todo, stdin, stdinOpen, alive, holders, pipe, written, got, result,
  stream, inferenceLoop, completionRequests, completion, completionAnswer,
  streamTask, eventChannel, client, received,
  typed, replEntered, replConnected, readers, replAt, replLine, replTold,
  threads, replQueue, replReceived, lost,
  eventsSent, joined, next, eventsGot, lagged, ended, open, keepalive,
  keepaliveLoops, stopped, late,
  chatChannels, entered, linesTaken, consoleRunning, consoleAt, line,
  consoleQueue, heard, unanswered, response_buffer, printed,
  pending_responses, fetched, ignored,
  mcpClients, mcpTools, mcpResources, offeredTools, connectAt, connectTodo,
  connectTarget, connectMine, leftEntries, baredClients,
  fetchedPage, max_length, fetchAt, declared, actual, pageText, pagePart,
  text_length, truncated,
  jobRequests, jobsActive, jobsCompleted, finished, dropped, copyAt, jobsRead,
  active_jobs, completed_jobs, job_list, pageAt, pageShown, copies, overlapped,
  hookConnected, hookClient, hookIncoming, postAt, payload, hookReceiving,
  sendAt, sendTold, hookServer, postsTaken, postsAccepted, hookConnects,
  blocked_peers, allowed_peers, accept_unknown_peers, inboxConnected,
  inboxConnects, inboxQueue, messageAt, sentDirectly, inboxStats,
  inboxReceiving

Serve == INSTANCE ServeNode
Swarm == INSTANCE SwarmManager
Mcp == INSTANCE Mcp WITH running <- clientRunning, Capacity <- QueueSize,
    clients <- mcpClients, tools <- mcpTools, resources <- mcpResources, offered
    <- offeredTools, todo <- connectTodo, target <- connectTarget, mine <-
    connectMine, left <- leftEntries, bared <- baredClients, Server <-
    {server_s, server_t}, Tool <- McpTool, Inner <- {<<server_s, server_t>>}
Tools == INSTANCE BuiltinTools WITH page <- fetchedPage, text <- pageText,
    part <- pagePart, Kind <- HiddenKind, Lengths <- TextLengths, Size <-
    BodySize
Completion == INSTANCE ChatCompletion WITH loop <- inferenceLoop, requests <-
    completionRequests, RequestCapacity <- ChannelSize, call <- completion,
    answer <- completionAnswer, task <- streamTask, channel <- eventChannel,
    Capacity <- EventCapacity
Platforms == INSTANCE MessagingPlatforms WITH entered <- replEntered, line
    <- replLine, queue <- replQueue, received <- replReceived, Line <-
    TypedLine, Blank <- BlankLine, client <- hookClient, post <- postAt, send <-
    sendAt, server <- hookServer, taken <- postsTaken, accepted <-
    postsAccepted, Shape <- PayloadShape, direct <- sentDirectly, stats <-
    inboxStats, MaxInboxConnects <- MaxConnects, Peer <- InboxPeer, Message <-
    Mail, SenderOf <- MailFrom
Channels == INSTANCE ChatChannels WITH sent <- eventsSent, got <- eventsGot,
    keepaliveOn <- keepalive, loops <- keepaliveLoops, Subscriber <-
    StreamSubscriber, Capacity <- StreamCapacity, MaxEvents <- MaxStreamEvents,
    channels <- chatChannels, taken <- linesTaken, at <- consoleAt, queue <-
    consoleQueue
Pages == INSTANCE StatusPages WITH requests <- jobRequests, active <-
    jobsActive, completed <- jobsCompleted, at <- copyAt, pending <- jobsRead,
    page <- pageAt, shown <- pageShown, Job <- NodeJob, Page <- DashboardPage

serveVars ==
  <<connections, swarmQueue, connected_peers, cutOff, stage, current, webPeers,
    inference_rx, job_submit_rx, call, answer, jobs, interrupt>>
swarmVars ==
  <<agents, peer_to_agent, bridge, recorder, stats, history>>
routinesVars ==
  <<routines, status, running, starting, starts, loops, listeners,
    events, runs>>
mcpVars ==
  <<request_id, pending, queue, clientRunning, writer, reader, server,
    answers, caller>>
shellVars ==
  <<shellAt, todo, stdin, stdinOpen, alive, holders, pipe, written, got,
    result>>
completionVars ==
  <<stream, inferenceLoop, completionRequests, completion, completionAnswer,
    streamTask, eventChannel, client, received>>
replVars ==
  <<typed, replEntered, replConnected, readers, replAt, replLine,
    replTold, threads, replQueue, replReceived, lost>>
streamVars ==
  <<eventsSent, joined, next, eventsGot, lagged, ended, open, keepalive,
    keepaliveLoops, stopped, late>>
consoleVars ==
  <<chatChannels, entered, linesTaken, consoleRunning, consoleAt, line,
    consoleQueue, heard, unanswered, response_buffer, printed,
    pending_responses, fetched, ignored>>
mgrVars ==
  <<mcpClients, mcpTools, mcpResources, offeredTools, connectAt,
    connectTodo, connectTarget, connectMine, leftEntries, baredClients>>
fetchVars ==
  <<fetchedPage, max_length, fetchAt, declared, actual, pageText,
    pagePart, text_length, truncated>>
pagesVars ==
  <<jobRequests, jobsActive, jobsCompleted, finished, dropped, copyAt,
    jobsRead, active_jobs, completed_jobs, job_list, pageAt, pageShown,
    copies, overlapped>>
hookVars ==
  <<hookConnected, hookClient, hookIncoming, postAt, payload,
    hookReceiving, sendAt, sendTold, hookServer, postsTaken,
    postsAccepted, hookConnects>>
inboxVars ==
  <<blocked_peers, allowed_peers, accept_unknown_peers, inboxConnected,
    inboxConnects, inboxQueue, messageAt, sentDirectly, inboxStats,
    inboxReceiving>>

nodeVars == <<component, serveVars, swarmVars, routinesVars,
  heartbeatVars, batchVars, mcpVars, messagingVars, shellVars,
  completionVars, setupVars, replVars, streamVars, consoleVars, mgrVars,
  fetchVars, pagesVars, hookVars, commandVars, priceVars, inboxVars,
  remoteVars>>

NodeInit ==
  /\ component \in Components
  /\ Serve!Init
  /\ Swarm!Init
  /\ Init
  /\ HeartbeatInit
  /\ BatchInit
  /\ Mcp!ClientInit
  /\ MessagingInit
  /\ Tools!ShellInit
  /\ Completion!Init
  /\ component # "completion" => stream = FALSE /\ inferenceLoop = "none"
  /\ SetupInit
  /\ component # "setup" => config = None
  /\ Platforms!ReplInit
  /\ Channels!StreamInit
  /\ Channels!ConsoleInit
  /\ Mcp!ManagerInit
  /\ Tools!FetchInit
  /\ Pages!Init
  /\ Platforms!HookInit
  /\ CommandInit
  /\ PriceInit
  /\ Platforms!InboxInit
  /\ component # "inbox" => blocked_peers = {} /\ allowed_peers = {} /\ ~accept_unknown_peers
  /\ RemoteInit

ServeAlone ==
  /\ component = "serve"
  /\ UNCHANGED <<component, swarmVars, routinesVars, heartbeatVars,
                 batchVars, mcpVars, messagingVars, shellVars, completionVars, setupVars,
                 replVars, streamVars, consoleVars, mgrVars, fetchVars, pagesVars,
                 hookVars, commandVars, priceVars, inboxVars, remoteVars>>
ServeNext == ServeAlone /\ Serve!Next
SwarmAlone ==
  /\ component = "swarm"
  /\ UNCHANGED <<component, serveVars, routinesVars, heartbeatVars,
                 batchVars, mcpVars, messagingVars, shellVars, completionVars, setupVars,
                 replVars, streamVars, consoleVars, mgrVars, fetchVars, pagesVars,
                 hookVars, commandVars, priceVars, inboxVars, remoteVars>>
SwarmNext == SwarmAlone /\ Swarm!Next
RoutinesAlone ==
  /\ component = "routines"
  /\ UNCHANGED <<component, serveVars, swarmVars, heartbeatVars, batchVars,
                 mcpVars, messagingVars, shellVars, completionVars, setupVars, replVars,
                 streamVars, consoleVars, mgrVars, fetchVars, pagesVars, hookVars,
                 commandVars, priceVars, inboxVars, remoteVars>>
RoutinesNext == RoutinesAlone /\ Next
HeartAlone ==
  /\ component = "heartbeat"
  /\ UNCHANGED <<component, serveVars, swarmVars, routinesVars, batchVars,
                 mcpVars, messagingVars, shellVars, completionVars, setupVars, replVars,
                 streamVars, consoleVars, mgrVars, fetchVars, pagesVars, hookVars,
                 commandVars, priceVars, inboxVars, remoteVars>>
HeartNext == HeartAlone /\ HeartbeatNext
BatchingAlone ==
  /\ component = "batch"
  /\ UNCHANGED <<component, serveVars, swarmVars, routinesVars,
                 heartbeatVars, mcpVars, messagingVars, shellVars, completionVars,
                 setupVars, replVars, streamVars, consoleVars, mgrVars, fetchVars,
                 pagesVars, hookVars, commandVars, priceVars, inboxVars, remoteVars>>
BatchingNext == BatchingAlone /\ BatchNext
McpAlone ==
  /\ component = "mcp"
  /\ UNCHANGED <<component, serveVars, swarmVars, routinesVars,
                 heartbeatVars, batchVars, messagingVars, shellVars, completionVars,
                 setupVars, replVars, streamVars, consoleVars, mgrVars, fetchVars,
                 pagesVars, hookVars, commandVars, priceVars, inboxVars, remoteVars>>
McpNext == McpAlone /\ Mcp!ClientNext
MsgAlone ==
  /\ component = "messaging"
  /\ UNCHANGED <<component, serveVars, swarmVars, routinesVars,
                 heartbeatVars, batchVars, mcpVars, shellVars, completionVars, setupVars,
                 replVars, streamVars, consoleVars, mgrVars, fetchVars, pagesVars,
                 hookVars, commandVars, priceVars, inboxVars, remoteVars>>
MsgNext == MsgAlone /\ MessagingNext
ShellAlone ==
  /\ component = "shell"
  /\ UNCHANGED <<component, serveVars, swarmVars, routinesVars,
                 heartbeatVars, batchVars, mcpVars, messagingVars, completionVars,
                 setupVars, replVars, streamVars, consoleVars, mgrVars, fetchVars,
                 pagesVars, hookVars, commandVars, priceVars, inboxVars, remoteVars>>
ShellNext == ShellAlone /\ Tools!ShellNext
CompletionAlone ==
  /\ component = "completion"
  /\ UNCHANGED <<component, serveVars, swarmVars, routinesVars,
                 heartbeatVars, batchVars, mcpVars, messagingVars, shellVars, setupVars,
                 replVars, streamVars, consoleVars, mgrVars, fetchVars, pagesVars,
                 hookVars, commandVars, priceVars, inboxVars, remoteVars>>
CompletionNext == CompletionAlone /\ Completion!Next
SetupAlone ==
  /\ component = "setup"
  /\ UNCHANGED <<component, serveVars, swarmVars, routinesVars,
                 heartbeatVars, batchVars, mcpVars, messagingVars, shellVars,
                 completionVars, replVars, streamVars, consoleVars, mgrVars, fetchVars,
                 pagesVars, hookVars, commandVars, priceVars, inboxVars, remoteVars>>
StartsNext == SetupAlone /\ SetupNext
ReplAlone ==
  /\ component = "repl"
  /\ UNCHANGED <<component, serveVars, swarmVars, routinesVars,
                 heartbeatVars, batchVars, mcpVars, messagingVars, shellVars,
                 completionVars, setupVars, streamVars, consoleVars, mgrVars, fetchVars,
                 pagesVars, hookVars, commandVars, priceVars, inboxVars, remoteVars>>
ReplNext == ReplAlone /\ Platforms!ReplNext
StreamAlone ==
  /\ component = "stream"
  /\ UNCHANGED <<component, serveVars, swarmVars, routinesVars,
                 heartbeatVars, batchVars, mcpVars, messagingVars, shellVars,
                 completionVars, setupVars, replVars, consoleVars, mgrVars, fetchVars,
                 pagesVars, hookVars, commandVars, priceVars, inboxVars, remoteVars>>
StreamNext == StreamAlone /\ Channels!StreamNext
ConsoleAlone ==
  /\ component = "console"
  /\ UNCHANGED <<component, serveVars, swarmVars, routinesVars,
                 heartbeatVars, batchVars, mcpVars, messagingVars, shellVars,
                 completionVars, setupVars, replVars, streamVars, mgrVars, fetchVars,
                 pagesVars, hookVars, commandVars, priceVars, inboxVars, remoteVars>>
ConsoleNext == ConsoleAlone /\ Channels!ConsoleNext
MgrAlone ==
  /\ component = "manager"
  /\ UNCHANGED <<component, serveVars, swarmVars, routinesVars,
                 heartbeatVars, batchVars, mcpVars, messagingVars, shellVars,
                 completionVars, setupVars, replVars, streamVars, consoleVars, fetchVars,
                 pagesVars, hookVars, commandVars, priceVars, inboxVars, remoteVars>>
MgrNext == MgrAlone /\ Mcp!ManagerNext
FetchAlone ==
  /\ component = "fetch"
  /\ UNCHANGED <<component, serveVars, swarmVars, routinesVars,
                 heartbeatVars, batchVars, mcpVars, messagingVars, shellVars,
                 completionVars, setupVars, replVars, streamVars, consoleVars, mgrVars,
                 pagesVars, hookVars, commandVars, priceVars, inboxVars, remoteVars>>
FetchNext == FetchAlone /\ Tools!FetchNext
PagesAlone ==
  /\ component = "pages"
  /\ UNCHANGED <<component, serveVars, swarmVars, routinesVars,
                 heartbeatVars, batchVars, mcpVars, messagingVars, shellVars,
                 completionVars, setupVars, replVars, streamVars, consoleVars, mgrVars,
                 fetchVars, hookVars, commandVars, priceVars, inboxVars, remoteVars>>
PagesNext == PagesAlone /\ Pages!Next
HookAlone ==
  /\ component = "webhook"
  /\ UNCHANGED <<component, serveVars, swarmVars, routinesVars,
                 heartbeatVars, batchVars, mcpVars, messagingVars, shellVars,
                 completionVars, setupVars, replVars, streamVars, consoleVars, mgrVars,
                 fetchVars, pagesVars, commandVars, priceVars, inboxVars, remoteVars>>
HookNext == HookAlone /\ Platforms!HookNext
CmdAlone ==
  /\ component = "commands"
  /\ UNCHANGED <<component, serveVars, swarmVars, routinesVars,
                 heartbeatVars, batchVars, mcpVars, messagingVars, shellVars,
                 completionVars, setupVars, replVars, streamVars, consoleVars, mgrVars,
                 fetchVars, pagesVars, hookVars, priceVars, inboxVars, remoteVars>>
CmdNext == CmdAlone /\ CommandNext
PriceAlone ==
  /\ component = "bids"
  /\ UNCHANGED <<component, serveVars, swarmVars, routinesVars,
                 heartbeatVars, batchVars, mcpVars, messagingVars, shellVars,
                 completionVars, setupVars, replVars, streamVars, consoleVars, mgrVars,
                 fetchVars, pagesVars, hookVars, commandVars, inboxVars, remoteVars>>
BidsNext == PriceAlone /\ PriceNext
InboxAlone ==
  /\ component = "inbox"
  /\ UNCHANGED <<component, serveVars, swarmVars, routinesVars,
                 heartbeatVars, batchVars, mcpVars, messagingVars, shellVars,
                 completionVars, setupVars, replVars, streamVars, consoleVars, mgrVars,
                 fetchVars, pagesVars, hookVars, commandVars, priceVars, remoteVars>>
InboxNext == InboxAlone /\ Platforms!InboxNext
RemoteAlone ==
  /\ component = "remote"
  /\ UNCHANGED <<component, serveVars, swarmVars, routinesVars,
                 heartbeatVars, batchVars, mcpVars, messagingVars, shellVars,
                 completionVars, setupVars, replVars, streamVars, consoleVars, mgrVars,
                 fetchVars, pagesVars, hookVars, commandVars, priceVars, inboxVars>>
TasksNext == RemoteAlone /\ RemoteNext

NodeNext ==
  ServeNext \/ SwarmNext \/ RoutinesNext \/ HeartNext \/ BatchingNext \/
  McpNext \/ MsgNext \/ ShellNext \/ CompletionNext \/ StartsNext \/ ReplNext
  \/ StreamNext \/ ConsoleNext \/ MgrNext \/ FetchNext \/ PagesNext \/
  HookNext \/ CmdNext \/ BidsNext \/ InboxNext \/ TasksNext

NodeSpec == NodeInit /\ [][NodeNext]_nodeVars

\* Each component that has liveness properties under its own fairness.
NodeFairSpec ==
  /\ NodeSpec
  /\ WF_serveVars(component = "serve" /\ Serve!Loop)
  /\ WF_swarmVars(component = "swarm" /\ Swarm!BridgeStepNext)
  /\ WF_routinesVars(component = "routines" /\ StartStep)
  /\ \A g \in 1..MaxStarts : WF_routinesVars(component = "routines" /\ ListenerStep(g))
  /\ \A r \in Timed, g \in 1..MaxStarts : WF_routinesVars(component = "routines" /\ LoopOf(r, g))
  /\ \A r \in Inference :
       /\ WF_batchVars(component = "batch" /\ SendRequest(r)) /\ WF_batchVars(component = "batch" /\ CountIn(r))
       /\ WF_batchVars(component = "batch" /\ ReceiveReply(r))
  /\ WF_batchVars(component = "batch" /\ RunProcessor)
  /\ WF_mcpVars(component = "mcp" /\ Mcp!Write) /\ WF_mcpVars(component = "mcp" /\ Mcp!Read)
  /\ WF_mcpVars(component = "mcp" /\ Mcp!ReadEof)
  /\ \A c \in Caller :
       /\ WF_mcpVars(component = "mcp" /\ Mcp!SendRequest(c))
       /\ WF_mcpVars(component = "mcp" /\ (Mcp!Timeout(c) \/ Mcp!Wake(c)))
       /\ WF_mcpVars(component = "mcp" /\ Mcp!Return(c))
  /\ \A u \in User : WF_messagingVars(component = "messaging" /\ Step(u))
  /\ \A l \in Link : WF_messagingVars(component = "messaging" /\ Drain(l))
  /\ WF_shellVars(component = "shell" /\ Tools!Execute) /\ WF_shellVars(component = "shell" /\ Tools!Timeout)
  /\ SF_completionVars(component = "completion" /\ Completion!Send)
  /\ WF_completionVars(component = "completion" /\ Completion!Settle)
  /\ WF_completionVars(component = "completion" /\ Completion!SendEvent)
  /\ WF_completionVars(component = "completion" /\ Completion!ClientReads)

\* Every component keeps its types.
NodeTypeOK ==
  /\ component = "serve" => Serve!TypeOK
  /\ component = "swarm" => Swarm!TypeOK
  /\ component = "routines" => TypeOK
  /\ component = "heartbeat" => HeartbeatTypeOK
  /\ component = "batch" => BatchTypeOK
  /\ component = "mcp" => Mcp!ClientTypeOK
  /\ component = "messaging" => MessagingTypeOK
  /\ component = "shell" => Tools!ShellTypeOK
  /\ component = "completion" => Completion!TypeOK
  /\ component = "setup" => SetupTypeOK
  /\ component = "repl" => Platforms!ReplTypeOK
  /\ component = "stream" => Channels!StreamTypeOK
  /\ component = "console" => Channels!ConsoleTypeOK
  /\ component = "manager" => Mcp!ManagerTypeOK
  /\ component = "fetch" => Tools!FetchTypeOK
  /\ component = "pages" => Pages!TypeOK
  /\ component = "webhook" => Platforms!HookTypeOK
  /\ component = "commands" => CommandTypeOK
  /\ component = "bids" => PriceTypeOK
  /\ component = "inbox" => Platforms!InboxTypeOK
  /\ component = "remote" => RemoteTypeOK

\* The set of connected peers follows the connections as far as the events
\* handled so far tell, but for a peer that lost one of several, which is out
\* until it connects again (p2p/mod.rs), and the list the web pages show follows
\* that set (cli/serve.rs); a peer has one agent however it came, the
\* counters of the actions agree with each other and with the trimmed
\* history, and the pages of the timeline make it up (swarm/manager.rs); a
\* dashboard shows the figures of one moment, and a job it listed stays
\* (cli/serve.rs, web/mod.rs); a submission of a web client makes one job at
\* most, and one reported as accepted did make it, whatever timed out
\* meanwhile (cli/serve.rs).
PeersAgree ==
  /\ component = "pages" => Pages!PageOfOneCopy
  /\ component = "pages" => Pages!ListedStays
  /\ component = "serve" => Serve!ConnectedButCutOff
  /\ component = "serve" => Serve!WebPeersAgree
  /\ component = "serve" => Serve!SubmissionsAccounted
  /\ component = "swarm" => Swarm!OneAgentPerPeer
  /\ component = "swarm" => Swarm!PagesMakeHistory
  /\ component = "swarm" => Swarm!FiguresAgree

\* A caller gets the whole of its own answer: a call of a tool server that to
\* its own request, with the table of pending calls true of those unanswered
\* (mcp/client.rs), a command all that was written (tools/builtin/shell.rs),
\* a client of the completion API its events in order (web/openai.rs), a
\* reader of a web page the text it shows (tools/builtin/http.rs), an agent
\* the tools that are there (mcp/mod.rs).
AnswersMatched ==
  /\ component = "manager" => Mcp!ListedIsServed
  /\ component = "manager" => Mcp!ServedIsListed
  /\ component = "fetch" => Tools!TextIsVisible
  /\ component = "fetch" => Tools!CutsTold
  /\ component = "mcp" => Mcp!OwnAnswer
  /\ component = "mcp" => Mcp!PendingAccounted
  /\ component = "shell" => Tools!OutputWhole
  /\ component = "completion" => Completion!AnswerInOrder

\* No message of a blocked peer comes in, and the counts of those that came
\* are right (messaging/platforms/p2p.rs); a line typed into a console comes
\* once and in order, or is lost for a reason (messaging/platforms/repl.rs,
\* channels/repl.rs); responses are given once (channels/manager.rs) and
\* events in order, but for those a subscriber was too slow for
\* (channels/sse.rs); a post to a webhook is received once, and a message
\* reported as sent was taken (messaging/platforms/webhook.rs).
MessagesAccounted ==
  /\ component = "webhook" => Platforms!PostedIsReceived
  /\ component = "webhook" => Platforms!SentIsTaken
  /\ component = "inbox" => Platforms!ListsObeyed
  /\ component = "inbox" => Platforms!InboxAccounted
  /\ component = "repl" => Platforms!LinesAccounted
  /\ component = "console" => Channels!LinesHeard
  /\ component = "console" => Channels!ResponsesOnce
  /\ component = "stream" => Channels!StreamInOrder
  /\ component = "stream" => Channels!StopQuietens

\* Every call comes back: those queued in the event loop, batched inferences,
\* calls of a tool server, calls of the messaging registry, commands whose
\* input fits the pipe, completions once they are in the channel, and before
\* that if the channel has room again and again, and their streams.
CallsReturn ==
  /\ Serve!EveryCallServed
  /\ EveryCallReturns
  /\ Mcp!EveryRequestReturns
  /\ EveryCallEnds
  /\ Tools!FittingCallReturns
  /\ Completion!RequestEnds

\* An event of the network gets through the locks of the swarm manager, except
\* the advertisement of a peer without an agent, for which the bridge waits for
\* itself for ever (swarm/manager.rs:309-312).
EventHandled == Swarm!EventHandled

\* What is told to stop stops: the loops and listeners of the routines and
\* the batch processor.
StopsEnd ==
  /\ StopEndsLoops
  /\ ShutdownEnds
=============================================================================
