SPECIFICATION Spec
CONSTANTS
    c1 = c1
    c2 = c2
    Core <- MCCore
    First = c1
    NoCore = NoCore
    Program <- MCProgram
    NoAddr = NoAddr
    Blocks <- MCBlocks
    o3queue_max_size = 5
    o3rob_max_size = 6
    max_issue_width = 2
    max_commit_width = 2
    max_alu = 1
    max_ldst = 2
    max_ld = 1
    max_st = 1
    max_sse = 1
    lock_t = 2
    unlock_t = 2
    barrier_t = 1
    sse_t = 2
    branch_miss_penalty = 1
    mimick_inorder = FALSE
INVARIANTS
    NothingDropped
    DataFlow
    WaitsForOlder
    BarriersHold
PROPERTY EverythingCommits
