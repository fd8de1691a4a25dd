SPECIFICATION Spec
CONSTANTS
    r1 = r1
    r2 = r2
    r3 = r3
    r4 = r4
    Row <- MCRow
    NoRow = NoRow
    size = 3
    threshold = 3
    Groups = 4
    FlushTime <- MCFlushTime
    GroupOf <- MCGroupOf
    MaxActs = 8
INVARIANTS
    NeverUndercounts
    HammerBound
PROPERTY KeepsPromise
