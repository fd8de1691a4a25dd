------------------------------------ MODULE O3Core ------------------------------------
(* The out-of-order cores of McSim (PTSO3Core.cc): an instruction queue that is fed by  *)
(* the front end and loaded through the instruction cache, a reorder buffer whose       *)
(* entries wait for one another by index, and the barriers the cores meet at.  Time is  *)
(* counted in process intervals, and kept as what is left of it: an entry is ready, or  *)
(* an event due, when 0 intervals are left.  The memory answers when it likes; a        *)
(* request it refuses, or a translation, is sent on by the core.                        *)
EXTENDS Integers, Sequences, FiniteSets, FiniteSetsExt, SequencesExt

CONSTANTS
    Core,
    First,            \* the core whose thread the front end runs first
    NoCore,           \* num_hthreads: process_event() goes on
    Program,          \* Program[c]: the instructions of the thread of core c
    NoAddr,           \* address 0
    Blocks,           \* Blocks[c]: after how many instructions the thread of c may block
    o3queue_max_size, o3rob_max_size, max_issue_width, max_commit_width,
    max_alu, max_ldst, max_ld, max_st, max_sse,
    lock_t, unlock_t, barrier_t, sse_t, branch_miss_penalty,   \* in process intervals
    mimick_inorder

\* An instruction: the cache line it is in, the words it reads (two at most) and writes,
\* its kind, the registers it reads and writes, and a barrier's address and participants.
Instruction == UNION {{Program[c][i] : i \in 1..Len(Program[c])} : c \in Core}
Kinds == {"alu", "x87", "branch", "lock", "unlock", "prefetch", "notify", "waitfor",
          "barrier"}
Site == {ins.ip : ins \in Instruction}

ASSUME CoreAssumption ==
    /\ IsFiniteSet(Core) /\ First \in Core /\ NoCore \notin Core
    /\ \A c \in Core : Program[c] \in Seq(Instruction) /\ Blocks[c] \subseteq 1..Len(Program[c])
    /\ \A ins \in Instruction :
          /\ ins.type \in Kinds
          /\ ins.reads \in Seq(ToSet(ins.reads))
          /\ Len(ins.reads) <= 2 /\ NoAddr \notin ToSet(ins.reads)
          /\ ins.type = "prefetch" => ins.reads # <<>> /\ ins.write = NoAddr
          /\ ins.type \in {"notify", "waitfor", "barrier"} => ins.reads = <<>> /\ ins.write = NoAddr
    /\ {o3queue_max_size, o3rob_max_size, max_issue_width, max_commit_width, max_alu, max_ldst,
        max_ld, max_st, max_sse, lock_t, unlock_t, barrier_t, sse_t} \subseteq Nat \ {0}
    /\ o3queue_max_size > 4 /\ o3rob_max_size > 4
    /\ branch_miss_penalty \in Nat /\ mimick_inorder \in BOOLEAN

VARIABLES
    core,         \* the cores
    out,          \* out[c]: the requests of core c the memory has to answer
    shared,       \* wait_all, notify_all and is_migrate_ready, which all cores share
    returned,     \* the core whose thread the front end is to run, or NoCore
    reached       \* history: reached[c]: barriers core c has come to, and gone through

vars == <<core, out, shared, returned, reached>>

None == -1
Index == 0..o3rob_max_size-1
Slack == 4            \* the queue is that much longer than the front end is told

NoEntry == [state |-> "invalid", ready |-> 0, addr |-> NoAddr, isread |-> FALSE,
            branch_miss |-> FALSE, type |-> "alu", after |-> {}, instr_dep |-> None,
            rw |-> {}, ip |-> 0, memlen |-> 0, id |-> <<0, 0>>, needs |-> {}]

\* No thread but the first one has been created.
Init ==
    /\ core = [c \in Core |->
          [queue |-> <<>>, rob |-> [k \in Index |-> NoEntry], head |-> 0, size |-> 0,
           complete |-> {}, wake |-> {}, active |-> c = First, next |-> 1]]
    /\ out = [c \in Core |-> {}]
    /\ shared = [wait_all |-> [p \in Site |-> 0], notify_all |-> {}, migrate |-> {}]
    /\ returned = First
    /\ reached = [c \in Core |-> <<0, 0>>]

---------------------------------------------------------------------------------------
(* The reorder buffer; s is the state of a core. *)

At(s, i) == (s.head + i) % o3rob_max_size
Positions(s) == 0..s.size-1
InRob(s) == {At(s, i) : i \in Positions(s)}
Done(e) == e.state = "completed" /\ e.ready = 0
Writes(e, r) == r \in e.rw
SameWord(e, a) == a # NoAddr /\ e.addr = a

\* op applied in turn to base and to 1, 2, ..., n (FoldLeft, each step evaluated once).
Through(op(_, _), base, n) ==
    LET after[i \in 0..n] == IF i = 0 THEN base
                             ELSE CHOOSE r \in {op(before, i) : before \in {after[i-1]}} : TRUE
    IN  after[n]

\* The last entry of a set of positions that is not done, which the new one waits for.
LastOf(s, S) == LET left == {i \in S : ~Done(s.rob[At(s, i)])} IN
                IF left = {} THEN {} ELSE {At(s, Max(left))}

ForRegisters(s, ins) ==
    UNION {LastOf(s, {i \in Positions(s) : Writes(s.rob[At(s, i)], r)}) : r \in ins.rr}
ForBranch(s) == LastOf(s, {i \in Positions(s) : s.rob[At(s, i)].branch_miss})
ForMemory(s, a) == LastOf(s, {i \in Positions(s) : SameWord(s.rob[At(s, i)], a)})

\* History: what the new entry may not run before, whatever the buffer records.  The last
\* other instruction to write a register it reads, in all its parts; every access to its word;
\* every mispredicted branch; and, for a write, the reads of its own instruction.
Writer(s, r, pc) ==
    LET S == {i \in Positions(s) : Writes(s.rob[At(s, i)], r) /\ s.rob[At(s, i)].id[1] # pc} IN
    {i \in S : s.rob[At(s, i)].id[1] = s.rob[At(s, Max(S))].id[1]}
Needed(s, ins, pc, a, isread) ==
    LET before == UNION {Writer(s, r, pc) : r \in ins.rr}
        own(i) == ~isread /\ s.rob[At(s, i)].id[1] = pc
    IN  {s.rob[At(s, i)].id : i \in {j \in Positions(s) :
            \/ j \in before
            \/ SameWord(s.rob[At(s, j)], a)
            \/ s.rob[At(s, j)].branch_miss /\ s.rob[At(s, j)].id[1] # pc
            \/ own(j)}}

\* An instruction takes an entry for each of its accesses, or one if it has none.
Accesses(ins) ==
    LET reads == [i \in DOMAIN ins.reads |-> [addr |-> ins.reads[i], isread |-> TRUE]]
        all == IF ins.write = NoAddr THEN reads
               ELSE Append(reads, [addr |-> ins.write, isread |-> FALSE])
    IN  IF all = <<>> THEN <<[addr |-> NoAddr, isread |-> FALSE]>> ELSE all

\* The instruction at the head of the queue enters the buffer.  Each access waits for the
\* one before it in the same instruction.
Dispatch(s, pc, ins, miss) ==
    LET waits == ForRegisters(s, ins) \cup ForBranch(s)
        Enter(t, n) ==
            LET a == Accesses(ins)[n] IN
            [t EXCEPT !.size = @ + 1,
                      !.rob[At(t, t.size)] =
                [state |-> "issued", ready |-> 1, addr |-> a.addr, isread |-> a.isread,
                 branch_miss |-> miss /\ ins.type = "branch", type |-> ins.type,
                 after |-> waits \cup ForMemory(t, a.addr),
                 instr_dep |-> IF n = 1 THEN None ELSE At(t, t.size - 1),
                 rw |-> ins.rw, ip |-> ins.ip, memlen |-> ins.n,
                 id |-> <<pc, n>>, needs |-> Needed(t, ins, pc, a.addr, a.isread)]]
    IN  Through(Enter, [s EXCEPT !.queue = Tail(@), !.wake = @ \cup {1}], Len(Accesses(ins)))

CanDispatch(s) ==
    /\ s.queue # <<>> /\ s.size < o3rob_max_size - 3
    /\ Head(s.queue).state = "ready" /\ Head(s.queue).ready = 0

Issue(c, s, miss) ==
    Through(LAMBDA t, n : IF CanDispatch(t)
                           THEN Dispatch(t, Head(t.queue).pc, Program[c][Head(t.queue).pc], miss)
                           ELSE t,
             s, max_issue_width)

\* One line a turn is asked for, with every instruction of it that was not asked for yet.
Line(c, q) == Program[c][q.pc].line
NotInQueue(s) == {i \in DOMAIN s.queue : s.queue[i].state = "not_in_queue"}
FirstLine(c, s) == {Line(c, s.queue[i]) : i \in {j \in NotInQueue(s) : \A k \in NotInQueue(s) : j <= k}}
Load(c, s) ==
    [s EXCEPT !.queue = [i \in DOMAIN @ |->
        IF @[i].state = "not_in_queue" /\ Line(c, @[i]) \in FirstLine(c, s)
        THEN [@[i] EXCEPT !.state = "being_loaded"] ELSE @[i]]]
---------------------------------------------------------------------------------------
(* One pass over the buffer starts what can start.  a holds the state of the core, what *)
(* the cores share, the requests, the units in use, and whether the pass has stopped.   *)

Finishes(a, k, delay) ==
    [a EXCEPT !.s.rob[k].state = "completed", !.s.rob[k].ready = delay,
              !.s.complete = @ \cup {k}, !.s.wake = @ \cup {delay}]
ComesBack(a) == [a EXCEPT !.stop = TRUE, !.s.wake = @ \cup {1}]

\* The end of one thread on a core is waited for by the next one (is_migrate_ready).
Notify(a, i) ==
    LET k == At(a.s, i) IN
    IF i = 0 THEN [Finishes(a, k, barrier_t) EXCEPT !.sh.migrate = @ \cup a.s.rob[k].rw]
             ELSE ComesBack(a)
WaitFor(a, i) ==
    LET k == At(a.s, i) IN
    IF i = 0 /\ a.s.rob[k].rw \subseteq a.sh.migrate
    THEN [Finishes(a, k, 1) EXCEPT !.sh.migrate = @ \ a.s.rob[k].rw]
    ELSE ComesBack(a)

\* The last core to come to a barrier clears wait_all, which the others then see; a core
\* has come when it is in notify_all.
PassesUnasked(c, sh, e) ==           \* mutant: notify_all is not looked at
    sh.wait_all[e.ip] \in {0, e.memlen - 1}
PassesLate(c, sh, e) ==              \* mutant: waits for one core more
    \/ e.memlen = 1
    \/ c \notin sh.notify_all /\ sh.wait_all[e.ip] = e.memlen
    \/ c \in sh.notify_all /\ sh.wait_all[e.ip] = 0
Passes(c, sh, e) ==
    \/ e.memlen = 1
    \/ c \notin sh.notify_all /\ sh.wait_all[e.ip] > 0 /\ sh.wait_all[e.ip] = e.memlen - 1
    \/ c \in sh.notify_all /\ sh.wait_all[e.ip] = 0

GoneOn(c, sh, e) == [sh EXCEPT !.wait_all[e.ip] = 0, !.notify_all = @ \ {c}]

Barrier(c, a, i) ==
    LET k == At(a.s, i)
        e == a.s.rob[k]
    IN  IF i = 0 /\ Passes(c, a.sh, e)
        THEN [Finishes(a, k, barrier_t) EXCEPT
                 !.sh = GoneOn(c, @, e),
                 !.r = <<IF c \in a.sh.notify_all THEN @[1] ELSE @[1] + 1, @[2] + 1>>]
        ELSE IF i = 0 /\ c \notin a.sh.notify_all
        THEN [ComesBack(a) EXCEPT !.sh.notify_all = @ \cup {c}, !.sh.wait_all[e.ip] = @ + 1,
                                  !.r = <<@[1] + 1, @[2]>>]
        ELSE ComesBack(a)

\* What an instruction without a memory access takes.
Latency(e) ==
    CASE e.type = "lock" -> lock_t
      [] e.type = "unlock" -> unlock_t
      [] e.type = "x87" -> sse_t
      [] OTHER -> IF e.branch_miss THEN branch_miss_penalty + 1 ELSE 1

Compute(a, k) ==
    LET e == a.s.rob[k]
        sse == IF e.type = "x87" THEN 1 ELSE 0
    IN  IF a.alu < max_alu /\ (sse = 1 => a.sse < max_sse)
        THEN [Finishes(a, k, Latency(e)) EXCEPT !.alu = @ + 1, !.sse = @ + sse]
        ELSE a

\* A prefetch is complete when it is asked for.
Access(a, k) ==
    LET e == a.s.rob[k]
        b == [a EXCEPT !.ld = IF e.isread THEN @ + 1 ELSE @, !.st = IF e.isread THEN @ ELSE @ + 1]
    IN  IF a.ld + a.st < max_ldst /\ (IF e.isread THEN a.ld < max_ld ELSE a.st < max_st)
        THEN IF e.type = "prefetch"
             THEN [Finishes(b, k, 1) EXCEPT !.o = @ \cup {<<"prefetch", e.id>>}]
             ELSE [b EXCEPT !.s.rob[k].state = "executing", !.o = @ \cup {<<"data", k>>}]
        ELSE a

\* A read does not wait for the other read of its instruction.
Free(e) == e.after = {} /\ (e.instr_dep = None \/ e.isread)

Try(c, a, i) ==
    LET k == At(a.s, i)
        e == a.s.rob[k]
    IN  IF a.stop THEN a
        ELSE IF e.state = "issued" /\ e.ready = 0
        THEN CASE e.type = "notify" -> Notify(a, i)
               [] e.type = "waitfor" -> WaitFor(a, i)
               [] e.type = "barrier" -> Barrier(c, a, i)
               [] OTHER -> IF Free(e) THEN IF e.addr = NoAddr THEN Compute(a, k) ELSE Access(a, k)
                           ELSE IF mimick_inorder THEN ComesBack(a) ELSE a
        ELSE IF mimick_inorder THEN ComesBack(a) ELSE a

Execute(c, s) ==
    Through(LAMBDA a, n : Try(c, a, n - 1),
             [s |-> s, sh |-> shared, r |-> reached[c], o |-> out[c], stop |-> FALSE,
              alu |-> 0, ld |-> 0, st |-> 0, sse |-> 0],
             s.size)

\* The entries that are done let go those that wait for them: first those that wait for no
\* access of their own instruction, then the reads that waited for one of these.
Complete(s) == {k \in s.complete : s.rob[k].ready = 0}
AnyComplete(s) == Complete(s)        \* mutant of Resolving: instr_dep is not looked at
Resolving(s) ==
    LET first == {k \in Complete(s) : s.rob[k].instr_dep = None} IN
    first \cup {k \in Complete(s) : s.rob[k].isread /\ s.rob[k].instr_dep \in first}

ForgetsAll(s) == {}                  \* mutant of Unresolved: those not ready yet are lost
Unresolved(s) == s.complete \ Resolving(s)

Resolve(s) ==
    LET R == Resolving(s)
        awake == \E k \in InRob(s) : Done(s.rob[k]) /\ s.rob[k].instr_dep = None
        letgo(e) == IF e.state = "issued"
                    THEN [e EXCEPT !.after = @ \ R, !.instr_dep = IF @ \in R THEN None ELSE @]
                    ELSE [e EXCEPT !.instr_dep = IF e.isread /\ @ \in R THEN None ELSE @]
    IN  [s EXCEPT !.rob = [k \in Index |-> IF k \in InRob(s) THEN letgo(@[k]) ELSE @[k]],
                  !.complete = Unresolved(s),
                  !.wake = IF awake THEN @ \cup {1} ELSE @]

\* What is done leaves the buffer, in order.
Commit(s) ==
    LET whole == {n \in 0..s.size : \A i \in 0..n-1 : Done(s.rob[At(s, i)])}
        n == Min({Max(whole), max_commit_width})
        left == {At(s, i) : i \in 0..n-1}
    IN  [s EXCEPT !.rob = [k \in Index |-> IF k \in left THEN NoEntry
                                           ELSE @[k]],
                  !.head = At(s, n), !.size = @ - n,
                  !.wake = IF n < Max(whole) THEN @ \cup {1} ELSE @]
---------------------------------------------------------------------------------------
(* A turn of a core. *)

\* The core keeps its turn until its thread has run.
Fetches(s) == Len(s.queue) <= o3queue_max_size \div 2 /\ s.active

Fetch(c) ==
    /\ returned = NoCore /\ 0 \in core[c].wake
    /\ Fetches(core[c])
    /\ returned' = c
    /\ UNCHANGED <<core, out, shared, reached>>

Predicted(c) == IF \E q \in ToSet(core[c].queue) : Program[c][q.pc].type = "branch"
                THEN BOOLEAN ELSE {FALSE}

Run(c) ==
    /\ returned = NoCore /\ 0 \in core[c].wake
    /\ ~Fetches(core[c])
    /\ \E miss \in Predicted(c), s \in {[core[c] EXCEPT !.wake = @ \ {0}]} :
          \E issued \in {Issue(c, Load(c, s), miss)} :
          \E a \in {Execute(c, issued)} : \E resolved \in {Resolve(a.s)} :
              /\ core' = [core EXCEPT ![c] = Commit(resolved)]
              /\ out' = [out EXCEPT ![c] = a.o \cup {<<"line", l>> : l \in FirstLine(c, s)}]
              /\ shared' = a.sh
              /\ reached' = [reached EXCEPT ![c] = a.r]
    /\ UNCHANGED returned

\* McSim::add_instruction: n instructions of the thread of core c, as far as there is room.
\* A core with an empty queue is given a turn, unless it has just sent a request on that was
\* translated or refused (resume_time lies ahead): the answer will wake it.
NoSlack(s) == o3queue_max_size - Len(s.queue)              \* mutant: no slack is kept
Room(s) == o3queue_max_size - Slack - Len(s.queue)
Left(c) == Len(Program[c]) - core[c].next + 1
Longest(c) == Max({1, Min({Left(c), Room(core[c])})})
Taken(c, n, sent) ==
    LET s == core[c]
        all == s.queue \o [i \in 1..n |-> [pc |-> s.next + i - 1, state |-> "not_in_queue",
                                           ready |-> 0]]
    IN  [s EXCEPT !.queue = SubSeq(all, 1, Min({Len(all), o3queue_max_size})),
                  !.next = @ + n,
                  !.wake = IF s.queue = <<>> /\ ~sent THEN @ \cup {1} ELSE @]

\* The front end runs the thread of a core until it is told that the queue is full, or that
\* it shares memory and is to wait; the thread may block, or end.
Feed(c) ==
    /\ returned = c
    /\ \E n \in {1, Longest(c)}, on, sent \in BOOLEAN :
          LET last == core[c].next + n - 1 IN
          /\ sent => out[c] # {}
          /\ IF on THEN last < Len(Program[c]) ELSE last \in Blocks[c] \cup {Len(Program[c])}
          /\ core' = [core EXCEPT ![c] = [Taken(c, n, sent) EXCEPT !.active = on]]
    /\ returned' = NoCore
    /\ UNCHANGED <<out, shared, reached>>

\* A thread that the model leaves out creates or unblocks the thread of core c, which is
\* told of with an instruction.
Unblock(c) ==
    /\ ~core[c].active /\ Left(c) > 0
    /\ \E sent \in BOOLEAN :
          /\ sent => out[c] # {}
          /\ core' = [core EXCEPT ![c] = [Taken(c, 1, sent) EXCEPT !.active = Left(c) > 1]]
    /\ UNCHANGED <<out, shared, returned, reached>>

\* The instruction cache answers (add_req_event).
AnswerLine(c) ==
    \E o \in out[c] :
        /\ o[1] = "line"
        /\ core' = [core EXCEPT ![c].queue = [i \in DOMAIN @ |->
                        IF @[i].state = "being_loaded" /\ Line(c, @[i]) = o[2]
                        THEN [@[i] EXCEPT !.state = "ready", !.ready = 1] ELSE @[i]],
                                ![c].wake = @ \cup {1}]
        /\ out' = [out EXCEPT ![c] = @ \ {o}]
        /\ UNCHANGED <<shared, returned, reached>>

\* The data cache answers (add_rep_event).
AnswerData(c) ==
    \E o \in out[c] :
        /\ o[1] = "data"
        /\ LET e == core[c].rob[o[2]]
               ready == 1 + IF e.branch_miss THEN branch_miss_penalty ELSE 0
           IN  core' = [core EXCEPT ![c].rob[o[2]].state = "completed",
                                    ![c].rob[o[2]].ready = ready,
                                    ![c].complete = @ \cup {o[2]},
                                    ![c].wake = @ \cup {1, ready}]
        /\ out' = [out EXCEPT ![c] = @ \ {o}]
        /\ UNCHANGED <<shared, returned, reached>>

AnswerPrefetch(c) ==
    \E o \in out[c] :
        /\ o[1] = "prefetch"
        /\ core' = [core EXCEPT ![c].wake = @ \cup {1}]
        /\ out' = [out EXCEPT ![c] = @ \ {o}]
        /\ UNCHANGED <<shared, returned, reached>>

Memory(c) == AnswerLine(c) \/ AnswerData(c) \/ AnswerPrefetch(c)

Earlier(e) == [e EXCEPT !.ready = IF @ > 0 THEN @ - 1 ELSE 0]
Tick ==
    /\ returned = NoCore
    /\ \A c \in Core : 0 \notin core[c].wake
    /\ \E c \in Core : core[c].wake # {} \/ out[c] # {}
    /\ core' = [c \in Core |->
          [core[c] EXCEPT !.wake = {t - 1 : t \in @},
                          !.queue = [i \in DOMAIN @ |-> Earlier(@[i])],
                          !.rob = [k \in Index |-> Earlier(@[k])]]]
    /\ UNCHANGED <<out, shared, returned, reached>>

Finished == \A c \in Core : Left(c) = 0 /\ core[c].queue = <<>> /\ core[c].size = 0
Rest == Finished /\ UNCHANGED vars

Next ==
    \/ Tick \/ Rest
    \/ \E c \in Core :
          \/ Fetch(c) \/ Run(c) \/ Feed(c) \/ Unblock(c)
          \/ AnswerLine(c) \/ AnswerData(c) \/ AnswerPrefetch(c)

\* Simulated time goes on, the memory answers in the end, and a blocked thread is unblocked.
Spec ==
    /\ Init /\ [][Next]_vars
    /\ WF_vars(Tick)
    /\ \A c \in Core : /\ WF_vars(Fetch(c) \/ Run(c) \/ Feed(c))
                       /\ WF_vars(Memory(c)) /\ WF_vars(Unblock(c))
---------------------------------------------------------------------------------------
(* Properties *)

\* Data flow: no entry is started before everything it needs is done, however the indices
\* it waits for were reused, and whichever of two reads of an instruction is answered first
\* (PTSO3Core.cc:674-706).
DataFlow ==
    \A c \in Core : LET s == core[c] IN
        \A k \in InRob(s) : s.rob[k].state # "issued" =>
            \A j \in InRob(s) : s.rob[j].id \in s.rob[k].needs => Done(s.rob[j])

\* The buffer is a ring: an entry waits only for older ones that are still in it, never for
\* the one that took the place of another; and it forgets none that has yet to be told of.
WaitsForOlder ==
    \A c \in Core : LET s == core[c] IN
        \A i \in Positions(s) : LET e == s.rob[At(s, i)] IN
            \A d \in (e.after \cup {e.instr_dep}) \ {None} :
                /\ \E j \in 0..i-1 : At(s, j) = d
                /\ s.rob[d].state = "completed" => d \in s.complete

\* No instruction is dropped: the queue holds those that were fetched last, without a gap,
\* although a thread is told once how many it may fetch, and others add to its queue.
NothingDropped ==
    \A c \in Core : LET q == core[c].queue IN
        q # <<>> => /\ q[Len(q)].pc = core[c].next - 1
                    /\ \A i \in 1..Len(q)-1 : q[i+1].pc = q[i].pc + 1

\* Nobody goes through a barrier before all its participants have come to it, however soon
\* a core that was let through comes to the next one (PTSO3Core.cc:533-582).
BarriersHold ==
    \A c, d \in Core : reached[c][2] <= reached[d][1]

\* No wake-up is lost: every instruction of every thread is committed.
EverythingCommits == <>Finished
=========================================================================================
