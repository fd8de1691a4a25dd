SPECIFICATION Spec
CONSTANTS
    q1 = q1
    q2 = q2
    q3 = q3
    num_ranks_per_mc = 2
    num_banks_per_rank = 2
    num_bank_groups = 1
    Thread <- MCThread
    Page <- MCPage
    NoPage = NoPage
    Request <- MCRequest
    local_event <- TwoRanks
    Setups <- EachMode
    tRCD = 1
    tRR = 1
    tRP = 1
    tRAS = 2
    tRTP = 2
    tWTP = 2
    tCL = 1
    tBL = 1
    tBBL = 1
    tBBLW = 1
    tWRBUB = 0
    tRWBUB = 0
    tRRBUB = 1
    tWTR = 0
    tRTW = 1
    tRTRS = 1
    tRDBUB_same_group = 0
    tWRBUB_same_group = 0
    tM_OPEN_TO = 3
    tRFC_t = 5
    Service <- MCService
    refresh_interval = 16
    req_window_sz = 2
    threshold = 2
    clearing_interval = 8
    AsksAfter = 2
    Old = 3
    OldBus = 2
INVARIANTS BanksSound StallsRunOut
PROPERTY KeepsServing
