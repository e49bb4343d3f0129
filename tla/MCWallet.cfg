\* Two tasks, two escrows, three hours of two days, failing stores and crashes.
SPECIFICATION Spec
CONSTANTS
    EscrowId = {e1, e2}
    Task = {t1, t2}
    Amount = {1, 5}
    Hour = {3, 4, 5}
    FirstHour = 3
    HoursPerDay = 2
    HourWindow = 2
    DayWindow = 2
    max_spend_per_tx = 1
    max_spend_per_hour = 1
    max_spend_per_day = 2
    reserve_balance = 1
    HistoryLimit = 3
    MaxCredited = 5
    MaxOps = 5
SYMMETRY Symmetry
INVARIANTS TypeOK Conserved EscrowBacked Durable OvershootBounded
PROPERTIES LedgerSpec
CHECK_DEADLOCK FALSE
