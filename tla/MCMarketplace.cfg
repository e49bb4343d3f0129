\* Three nodes, one job, lossy gossip, failing stores, a crash.
SPECIFICATION Spec
CONSTANTS
    p1 = p1
    p2 = p2
    p3 = p3
    Peer = {p1, p2, p3}
    Job = {j1}
    EscrowId = {e1, e2}
    Budget = {1, 2}
    MaxTime = 2
    MaxCrashes = 1
    Reliable = FALSE
    StoreFails = TRUE
    PriceOf <- MCPriceOf
    InitialCredit = 3
    CollectTime = 1
    BidValidity = 1
    JobTimeout = 1
    CompletedLimit = 1
    Hour = {30}
    TheHour = 30
    HoursPerDay = 24
    HourWindow = 24
    DayWindow = 30
    max_spend_per_tx = 3
    max_spend_per_hour = 3
    max_spend_per_day = 3
    reserve_balance = 1
    HistoryLimit = 10
SYMMETRY Symmetry
INVARIANTS TypeOK JobInOnePlace ActiveJobFunded PaidOnceForWorkDone ExecutedAtMostOnce WithinBudget
CHECK_DEADLOCK FALSE
