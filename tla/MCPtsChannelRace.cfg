SPECIFICATION Spec
CONSTANTS
    p0 = p0
    p1 = p1
    First = p0
    Program <- TwoPrograms
    instr_batch_size = 2
    MaxSlot = 3
    NumHthreads = 2
    MaxSent = 3
INVARIANT BatchAssertHolds
