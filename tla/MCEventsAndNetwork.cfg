SPECIFICATION MCSpec
CONSTANTS
    c1 = c1
    c2 = c2
    u1 = u1
    u2 = u2
    m1 = m1
    m2 = m2
    NoCore = NoCore
    Core <- MCCore
    First = c1
    Started <- MCStarted
    Unit <- MCUnit
    Message <- MCMessage
    Owner <- MCOwner
    Interval <- MCInterval
    Latency <- MCLatency
    MaxTime = 16
    MaxHops = 2
    MaxFills = 1
    Machines <- MCMachines
    Window = 2
    Replies = 1
INVARIANTS NothingStranded NeverWokenForNothing NoCoreForgotten NothingLost
PROPERTIES Answered KeepsOrder KeepsRank Arrives
