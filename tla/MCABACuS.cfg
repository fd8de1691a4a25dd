SPECIFICATION Spec
CONSTANTS
    r0 = r0
    r1 = r1
    r2 = r2
    r3 = r3
    r4 = r4
    r5 = r5
    r6 = r6
    b1 = b1
    b2 = b2
    Bank <- MCBank
    Row <- MCRow
    RowZero = r0
    num_entries = 2
    prt = 4
    rct = 2
    num_refreshes = 2
    RefreshOf <- MCRefreshOf
    Watched <- MCWatched
SYMMETRY MCSymmetry
INVARIANTS
    NeverUndercounts
    BelowNRH
PROPERTIES
    KeepsPromise
    NothingDiscarded
