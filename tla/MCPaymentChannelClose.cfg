\* One task closes while another pays the peer.
SPECIFICATION FairSpec
CONSTANTS
    Components = {"payments"}
    Task = {i1, w1, w2, st}
    Streamed = {st}
    Inferences = {i1, st}
    WasmTasks = {w1, w2}
    KindOf <- KindsOf
    allow_network_offload = TRUE
    max_concurrent_inference = 1
    max_concurrent_wasm = 1
    Model = {m1, m2, large}
    large = large
    SizeOf <- SizesOf
    CacheTask = {k1, k2}
    max_models = 1
    max_memory_mb = 3
    MaxUses = 1
    Caller = {d1, d2}
    Chunk = {e1, e2}
    Data = {x, y}
    DiskFile = {n1, n2}
    File = {g1, g2, g3}
    Empty = Empty
    Absent = Absent
    None = None
    Exact = {g1}
    Similar = {g1, g2}
    n_ctx = 5
    BatchCapacity = 3
    Prompts = {1, 3, 4}
    MaxTokens = {0, 1, 2, 3}
    DefaultModel = m1
    Torn = Torn
    MaxExchanges = 7
    Client = {u1}
    Connection = {q1, q2}
    rate_limit_per_minute = 1
    free_tier_requests_per_hour = 1
    free_tier_enabled = TRUE
    MaxMinute = 2
    MinutesPerHour = 2
    MaxRequests = 3
    Segment = {a, b}
    Star = Star
    DoubleStar = DoubleStar
    MaxPattern = 3
    MaxPath = 4
    Thread = {t1, t2}
    max_connections = 1
    MaxTime = 2
    Reader = {r1}
    Overwriter = {o1}
    Appender = {p1, p2}
    Offset = {1, 4}
    ReadLimit = {1, 3}
    Length = 3
    Buffer = 2
    MAX_READ_SIZE = 7
    Top = Top
    entry_d = entry_d
    entry_h = entry_h
    entry_e = entry_e
    entry_f = entry_f
    entry_g = entry_g
    entry_k = entry_k
    ListLimits = {0, 2, 5, 7}
    Writer = {v1, v2, v3, v4}
    Searcher = {z1}
    searchLimit = 1
    Accepted = {v1, v2, v3}
    Wanted = {v1, v2}
    Scanner = {s1}
    Version = {1, 2}
    skill_x = skill_x
    skill_y = skill_y
    file_x = file_x
    file_y = file_y
    NoSkill = NoSkill
    Page = {h1, h2}
    NoPage = NoPage
    Newline = Newline
    max_file_size = 3
    MaxCalls = 3
    alice = alice
    bob = bob
    Node = {alice, bob}
    PayTask = {a1, a2, b1}
    BobsTasks = {b1}
    NodeOf <- CallsOn
    Capacity = {1}
    Amount = {0}
    Supply <- SuppliesOf
    U64 = 2
    MaxOpens = 1
    MaxNonce = 3
    MaxStray = 1
    Downloader = {b1, b2}
    Remover = {b3}
    ModelFile = {q4}
    Whole = 2
    MaxFiles = 2
    MaxLength = 4
    LengthLimits = {3, 4}
    MaxSecrets = 2
    Adder = {h3, h4}
    Creator = {h5}
    Deleter = {h6}
    PointRemover = {h7}
    Collection = {h8}
    Dim = {1, 2}
    DefaultDim = 1
    MaxMade = 3
    Tool = {f5, f6}
    Registrar = {f7}
    WasmCall = {f8, f9}
    NoTool = NoTool
    fuel_limit = 2
    letter_a = letter_a
    letter_b = letter_b
    tag_t = tag_t
    tag_u = tag_u
    MaxModels = 2
    ToolName = {g2}
    ToolPeer = {p3, p4}
    ToolCaller = {k6, k7}
    max_age = 1
    MaxToolTime = 1
    KnownSection = {traits}
    CustomSection = {others}
    FieldValue = {v1}
    DefaultValue = DefaultValue
    ListItem = {plain, colon}
    ItemWithColon = {colon}
    MaxIdentityLines = 4
    MaxSkills = 3
    word_a = word_a
    word_b = word_b
    word_c = word_c
    word_d = word_d
    thread_t = thread_t
    thread_u = thread_u
    thread_w = thread_w
    dimension = 3
PROPERTIES CloseReturns
CHECK_DEADLOCK FALSE
