SPECIFICATION Spec
CONSTANTS
    m1 = m1
    m2 = m2
    c1 = c1
    b1 = b1
    h1 = h1
    o1 = o1
    d1 = d1
    MaxThreads = 3
    Mutex = {m1, m2}
    Cond = {c1}
    Barrier = {b1}
    Kind <- MCKind
    num_participants <- ThreeParticipants
    MaxUint = 7
    MaxDepth = 2
    MaxRounds = 2
    Programs <- MCPrograms
    PTHREAD_KEYS_MAX = 3
    Data = {d1, NULL}
    NULL = NULL
    Handler = {h1}
    Once = {o1}
    MaxKeys = 3
    MaxHandlers = 1
CHECK_DEADLOCK FALSE
INVARIANTS HoldersOwn BlockedIsQueued AbortMeansDeadlock WaitsAreOver ManagersAgree
