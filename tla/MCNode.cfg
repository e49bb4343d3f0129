\* A peer with two connections, a chat and two job submissions; a routine of each
\* kind of trigger and two starts; four heartbeats into one place; three requests
\* in batches of two or three; three calls of two callers of a tool server.
SPECIFICATION NodeSpec
CONSTANTS
    Components = {"serve", "swarm", "routines", "heartbeat", "batch", "mcp",
        "messaging", "shell", "completion", "setup", "repl", "stream", "console",
        "manager", "fetch", "pages", "webhook", "commands", "bids", "inbox",
        "remote"}
    Peer = {p1}
    MaxConnections = 2
    MaxSwarmQueue = 1
    Chat = {c1}
    Submission = {s1, s2}
    Unknown = {s2}
    ChannelSize = 1
    RemotePeer = {p1}
    Recorder = {t1, t2}
    MaxJobs = 2
    max_action_history = 2
    Routine = {a, b, c}
    Startup = {a}
    Timed = {b}
    Evented = {c}
    MaxStarts = 2
    MaxEvents = 1
    Subscriber = {u1, u2}
    Capacity = 1
    MaxBeats = 4
    Inference = {ra, rb, rd}
    InferencesOfOther = {rd}
    Model = {large, other}
    ModelOf <- ModelsOf
    large = large
    other = other
    min_batch_size = 2
    max_batch_size = 3
    max_queue_depth = 2
    Caller = {k1, k2}
    QueueSize = 1
    MaxId = 3
    MaxAnswers = 1
    Link = {l1, l2, l3}
    NameOf <- NamesOf
    SameName = {l1, l2}
    User = {y1, y2}
    max_pending = 1
    MaxCalls = 4
    PipeCapacity = 1
    Input = {0, 1, 2}
    NoInput = NoInput
    Output = 4
    MAX_OUTPUT_SIZE = 3
    Words = {0, 1, 4}
    EventCapacity = 2
    Interactive = {z1}
    NodeProgram = {z4}
    Standalone = {z2}
    Peers = {z3}
    None = None
    Empty = Empty
    MaxProgramStarts = 3
    TypedLine = {n1}
    Quit = Quit
    BlankLine = BlankLine
    MaxLines = 3
    StreamSubscriber = {w1}
    StreamCapacity = 2
    MaxStreamEvents = 5
    MaxReaders = 2
    server_s = server_s
    server_t = server_t
    McpTool = {g1}
    Connector = {k3, k4}
    Closer = {k5}
    NoClient = NoClient
    MaxClients = 2
    HiddenKind = {"script", "comment"}
    MaxPieces = 4
    TextLengths = {4, 6}
    BodySize = {1, 2}
    MAX_RESPONSE_SIZE = 1
    NodeJob = {j1, j2}
    DashboardPage = {d1}
    MaxCopies = 3
    CompletedShown = 1
    Post = {x1, x2}
    Outgoing = {o1}
    outgoing_url = TRUE
    QueueCapacity = 1
    MaxConnects = 2
    NodeCommand = {e1, e2}
    NoCommand = NoCommand
    CreditOfRuntime = 2
    JobAmount = {1, 9, 10, 30}
    Budget = {20, 200}
    NodeLoad = {20, 95}
    NodeReputation = {50, 100}
    Resource = {"inference", "cpu", "image"}
    FloatPriced = {"cpu"}
    Rate <- RateOf
    Unit <- UnitOf
    TaskBid <- BidsMade
    TaskOf <- TasksOfBids
    TaskPrice <- PricesOfBids
    TaskScore <- ScoresOfBids
    TaskFunds = 4
    InboxPeer = {h1, h2}
    RemoteTask = {i1, i2}
INVARIANTS NodeTypeOK PeersAgree ProgramsApart OffersAccounted RoutinesApart
    BeatsAccounted BatchesAccounted AnswersMatched MessagesAccounted
PROPERTY LinksSound
CHECK_DEADLOCK FALSE
