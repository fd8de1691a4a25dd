SPECIFICATION Spec
CONSTANTS
    r0 = r0
    r1 = r1
    r2 = r2
    r3 = r3
    r4 = r4
    r5 = r5
    r6 = r6
    b1 = b1
    b2 = b2
    Bank <- MCOneBank
    Row <- MCManyRows
    RowZero = r0
    num_entries = 6
    prt = 3
    rct = 1
    num_refreshes = 2
    RefreshOf <- MCAllAtOnce
    Watched <- MCWatchedZero
SYMMETRY MCRowSymmetry
INVARIANT EveryRowBelowNRH
