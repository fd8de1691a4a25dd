SPECIFICATION Spec
CONSTANTS
    r1 = r1
    r2 = r2
    r3 = r3
    Row <- MCRow
    GctIdx <- MCGctIdx
    IdxOf <- MCIdxOf
    RankOf <- MCRankOf
    RefreshOf <- MCRefreshOf
    hydra_gct_threshold = 1
    hydra_rct_threshold = 3
    hydra_rcc_num_entries = 1
    num_ranks_per_mc = 2
    num_refreshes = 3
INVARIANTS
    NeverUndercounts
    HammerBound
PROPERTY KeepsPromise
