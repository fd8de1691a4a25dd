---------------------------------- MODULE PthreadSim ----------------------------------
(* The user-level pthread library the Pin front-end substitutes for the program's        *)
(* (PthreadSim and its mutex, condition, barrier, join, cancel managers, and             *)
(* PthreadScheduler).  One thread of the program runs at a time; a pthread call is one    *)
(* action.  A call that blocks ends by asking the timing simulator which hardware thread *)
(* runs next.  (A blocked call is entered again when its thread resumes, and returns at  *)
(* once because its `executed' flag is false: here it just returns.)                     *)
EXTENDS PthreadData

CONSTANTS
    MaxThreads,         \* pthread ids 0..MaxThreads-1 (bound); thread 0 is main
    Mutex, Cond, Barrier,
    Kind,               \* Kind[m]: "fast", "errorcheck" or "recursive"
    num_participants,   \* num_participants[b]
    MaxUint,            \* largest UINT32
    MaxRounds,          \* bound: barrier rounds
    Programs            \* the kinds of calls a program makes, and the mutexes it uses

Calls == {"mutex", "cond", "barrier", "join", "cancel", "cancelstate", "keys", "cleanup", "malloc"}
Unusual == {"yield",                \* calls __sleep or a kmp yield
            "create after exit",    \* creates a thread after another ended
            "cancel blocked"}       \* cancels, asynchronously, a blocked thread

ASSUME PthreadSimAssumption ==
    /\ MaxThreads \in Nat \ {0} /\ MaxUint \in Nat /\ MaxUint > MaxThreads
    /\ Kind \in [Mutex -> {"fast", "errorcheck", "recursive"}]
    /\ num_participants \in [Barrier -> Nat \ {0}]
    /\ MaxRounds \in Nat
    /\ Programs \subseteq [does : SUBSET (Calls \cup Unusual), mutexes : SUBSET Mutex]

Thread == 0..MaxThreads-1
Nobody == MaxThreads

VARIABLES
    program,        \* the one that runs
    new_thread_id,
    pthreads,       \* the valid threads
    active,         \* those that can be scheduled
    nactive,        \* the scheduler's count of them
    current,
    pth_to_hth, hth_to_pth,
    hactive,        \* hardware threads the timing simulator may resume
    mutex,          \* mutex[m]: count, owner and the queue spinning[m]
    waiters,        \* waiters[c]: threads waiting on c, each with its mutex
    arrived,        \* arrived[b]: the waiters of barrier b
    joinable,       \* joinable[t]: whether t is joinable, done, and by whom it is joined
    canceltype,     \* asynchronous or deferred
    cancelstate,    \* whether cancellation is enabled
    canceled,
    aborted,        \* an ASSERT fired
    \* History, what the program believes:
    held,           \* held[t][m]: locks of m that t's calls obtain
    rounds,         \* rounds[t][b]: times t called pthread_barrier_wait
    joins           \* joins[t]: threads t called pthread_join for

threads == <<new_thread_id, pthreads, pth_to_hth, hth_to_pth>>
sched == <<active, nactive, current, hactive, aborted>>
cancelling == <<canceltype, cancelstate, canceled>>
vars == <<data, program, threads, sched, mutex, waiters, arrived, joinable, cancelling, held, rounds, joins>>

FreeMutex == [count |-> 0, owner |-> Nobody, spinning |-> <<>>]
Detached == [joinable |-> FALSE, done |-> FALSE, joiner |-> Nobody]
Joinable == [Detached EXCEPT !.joinable = TRUE]

\* Ids are within range, only valid threads are active and nactive does not overflow.
TypeOK ==
    /\ new_thread_id \in 0..MaxThreads /\ pthreads \subseteq Thread
    /\ active \subseteq pthreads /\ nactive \in 0..MaxUint
    /\ current \in Thread \cup {Nobody}
    /\ pth_to_hth \in [Thread -> Thread] /\ hth_to_pth \in [Thread -> Thread \cup {Nobody}]
    /\ hactive \subseteq Thread
    /\ \A m \in Mutex : /\ mutex[m].count \in Nat /\ mutex[m].owner \in Thread \cup {Nobody}
                        /\ mutex[m].spinning \in Seq(Thread)
    /\ waiters \in [Cond -> Seq(Thread \X Mutex)] /\ arrived \in [Barrier -> Seq(Thread)]
    /\ joinable \in [Thread -> [joinable : BOOLEAN, done : BOOLEAN, joiner : Thread \cup {Nobody}]]
    /\ canceltype \in [Thread -> {"deferred", "asynchronous"}]
    /\ cancelstate \in [Thread -> BOOLEAN] /\ canceled \in [Thread -> BOOLEAN] /\ aborted \in BOOLEAN
    /\ held \in [Thread -> [Mutex -> Nat]] /\ rounds \in [Thread -> [Barrier -> Nat]]
    /\ joins \in [Thread -> SUBSET Thread]

\* PthreadSim::initiate: the managers are empty and the main thread is added.
Init ==
    /\ program \in Programs /\ DataInit(0)
    /\ new_thread_id = 1 /\ pthreads = {0} /\ active = {0} /\ nactive = 1 /\ current = 0
    /\ pth_to_hth = [t \in Thread |-> 0]
    /\ hth_to_pth = [h \in Thread |-> IF h = 0 THEN 0 ELSE Nobody]
    /\ hactive = {0}
    /\ mutex = [m \in Mutex |-> FreeMutex]
    /\ waiters = [c \in Cond |-> <<>>] /\ arrived = [b \in Barrier |-> <<>>]
    /\ joinable = [t \in Thread |-> IF t = 0 THEN Joinable ELSE Detached]
    /\ canceltype = [t \in Thread |-> "deferred"]
    /\ cancelstate = [t \in Thread |-> TRUE] /\ canceled = [t \in Thread |-> FALSE]
    /\ aborted = FALSE
    /\ held = [t \in Thread |-> [m \in Mutex |-> 0]]
    /\ rounds = [t \in Thread |-> [b \in Barrier |-> 0]]
    /\ joins = [t \in Thread |-> {}]
-----------------------------------------------------------------------------------------
(* PthreadScheduler *)

\* The running thread makes a call of some kind, which it does not do while it allocates.
Running == ~aborted /\ current # Nobody
Calling(what) == Running /\ depth = 0 /\ what \in program.does

\* UINT32 arithmetic.
Less(n, k) == IF n >= k THEN n - k ELSE (MaxUint + 1 + n) - k

\* resume_simulation: the timing simulator names an active hardware thread.
PickNext(ha, hp) == IF ha = {} THEN {Nobody} ELSE {hp[h] : h \in ha}

\* nactive after so many threads were unblocked and so many blocked or ended.
Count(woken, leaving) ==
    Less((nactive + Cardinality(woken)) % (MaxUint + 1), Cardinality(leaving))

\* UnblockThread for each of woken, then, if blocks, BlockThread(current): a woken thread
\* must be valid and inactive, and the last active thread must not block.  The timing
\* simulator is told of a thread by its pthread id.
Reschedule(woken, blocks) ==
    LET leaving == IF blocks THEN {current} ELSE {}
        n == Count(woken, leaving)
        bad == ~(woken \subseteq pthreads \ active)
    IN /\ active' = (active \cup (woken \cap pthreads)) \ leaving
       /\ hactive' = (hactive \cup (woken \cap pthreads)) \ leaving
       /\ nactive' = n
       /\ aborted' = (bad \/ (blocks /\ n = 0))
       /\ IF blocks /\ ~aborted'
          THEN current' \in PickNext(hactive', hth_to_pth)
          ELSE UNCHANGED current

Stops(t) == {pth_to_hth[t]}

\* KillThread(t) after the joiner of t, if any, was unblocked.
Destroy(t, woken) ==
    LET bad == ~(woken \subseteq pthreads \ active) IN
    /\ pthreads' = pthreads \ {t}
    /\ active' = (active \cup (woken \cap pthreads)) \ {t}
    /\ nactive' = Count(woken, {t})
    /\ hactive' = (hactive \cup (woken \cap pthreads)) \ Stops(t)
    /\ aborted' = bad
    /\ IF t = current /\ ~bad
       THEN current' \in PickNext(hactive', hth_to_pth)
       ELSE UNCHANGED current

\* process_ins, when the core has no room: another thread may run.
Resume ==
    /\ Running /\ CanSwitchThreads
    /\ current' \in PickNext(hactive, hth_to_pth)
    /\ UNCHANGED <<threads, active, nactive, hactive, aborted, mutex, waiters, arrived,
                   joinable, cancelling, held, rounds, joins>>

\* docontextswitch: nothing will unblock the thread again.
Yield ==
    /\ Calling("yield")
    /\ Reschedule({}, TRUE)
    /\ UNCHANGED <<threads, mutex, waiters, arrived, joinable, cancelling, held, rounds, joins>>

\* The hardware thread of a new thread is the number of threads there were.
Hthread == Cardinality(pthreads)

Create ==
    /\ Running /\ depth = 0 /\ new_thread_id < MaxThreads
    /\ "create after exit" \in program.does \/ Cardinality(pthreads) = new_thread_id
    /\ LET t == new_thread_id
           h == Hthread
       IN /\ new_thread_id' = t + 1
          /\ pthreads' = pthreads \cup {t} /\ active' = active \cup {t}
          /\ nactive' = (nactive + 1) % (MaxUint + 1)
          /\ hth_to_pth' = [hth_to_pth EXCEPT ![h] = t]
          /\ pth_to_hth' = [pth_to_hth EXCEPT ![t] = h]
          /\ hactive' = hactive \cup {h}
          /\ \E j \in {Joinable, Detached} : joinable' = [joinable EXCEPT ![t] = j]
          /\ AddThread(t)
    /\ UNCHANGED <<newkey, destr, handlers, done, malloc>>
    /\ UNCHANGED <<current, aborted, mutex, waiters, arrived, cancelling, held, rounds, joins>>
-----------------------------------------------------------------------------------------
(* Mutexes and condition variables *)

\* PthreadMutexManager::Lock: the mutex afterwards, and whether t is blocked on it.
Granted(mx, t) == [mx EXCEPT !.count = 1, !.owner = t]
Relocks(m, mx, t) == mx.count > 0 /\ mx.owner = t /\ Kind[m] = "recursive"
Blocks(m, mx, t) == mx.count > 0 /\ ~Relocks(m, mx, t)
Seized(m, mx, t) == Granted(mx, t)              \* mutant: does not look whether it is locked
Locked(m, mx, t) ==
    IF mx.count = 0 THEN Granted(mx, t)
    ELSE IF Relocks(m, mx, t) THEN [mx EXCEPT !.count = @ + 1]
    ELSE [mx EXCEPT !.spinning = Append(@, t)]

\* PthreadMutexManager::Unlock: who gets the mutex next, and the mutex afterwards.
Refuses(m, mx, t) == Kind[m] = "errorcheck" /\ (mx.count = 0 \/ mx.owner # t)
Released(m, mx) == [mx EXCEPT !.count = IF Kind[m] = "recursive" THEN @ - 1 ELSE 0]
HandsOver(m, mx, t) == ~Refuses(m, mx, t) /\ Released(m, mx).count = 0 /\ mx.spinning # <<>>
Unlocked(m, mx, t) ==
    IF Refuses(m, mx, t) THEN mx
    ELSE IF HandsOver(m, mx, t)
    THEN Locked(m, [Released(m, mx) EXCEPT !.spinning = Tail(@)], Head(mx.spinning))
    ELSE Released(m, mx)
NoOwner(m, mx, t) == {}                         \* mutant: the next owner is not unblocked
NewOwner(m, mx, t) == IF HandsOver(m, mx, t) THEN {Head(mx.spinning)} ELSE {}

MutexLock(m) ==
    /\ Calling("mutex") /\ m \in program.mutexes /\ held[current][m] < MaxDepth
    /\ mutex' = [mutex EXCEPT ![m] = Locked(m, @, current)]
    /\ Reschedule({}, Blocks(m, mutex[m], current))
    /\ held' = [held EXCEPT ![current][m] = @ + 1]
    /\ UNCHANGED <<threads, waiters, arrived, joinable, cancelling, rounds, joins>>

\* A trylock that succeeds; one that does not changes nothing.
MutexTrylock(m) ==
    /\ Calling("mutex") /\ m \in program.mutexes /\ held[current][m] < MaxDepth /\ ~Blocks(m, mutex[m], current)
    /\ mutex' = [mutex EXCEPT ![m] = Locked(m, @, current)]
    /\ held' = [held EXCEPT ![current][m] = @ + 1]
    /\ UNCHANGED <<threads, sched, waiters, arrived, joinable, cancelling, rounds, joins>>

\* The program unlocks only what it holds.
MutexUnlock(m) ==
    /\ Calling("mutex") /\ held[current][m] > 0
    /\ mutex' = [mutex EXCEPT ![m] = Unlocked(m, @, current)]
    /\ Reschedule(NewOwner(m, mutex[m], current), FALSE)
    /\ held' = [held EXCEPT ![current][m] = @ - 1]
    /\ UNCHANGED <<threads, waiters, arrived, joinable, cancelling, rounds, joins>>

CondWait(c, m) ==
    /\ Calling("cond") /\ held[current][m] > 0
    /\ mutex' = [mutex EXCEPT ![m] = Unlocked(m, @, current)]
    /\ waiters' = [waiters EXCEPT ![c] = Append(@, <<current, m>>)]
    /\ Reschedule(NewOwner(m, mutex[m], current), TRUE)
    /\ UNCHANGED <<threads, arrived, joinable, cancelling, held, rounds, joins>>

\* RemoveWaiter for the first n waiters of c: each locks its mutex again, and those that
\* get it are unblocked.
Relock(state, w) ==
    LET m == w[2] IN
    [mutex |-> [state.mutex EXCEPT ![m] = Locked(m, @, w[1])],
     woken |-> IF Blocks(m, state.mutex[m], w[1]) THEN state.woken ELSE state.woken \cup {w[1]}]

Relocked(c, n) ==
    LET after[k \in 0..n] == IF k = 0 THEN [mutex |-> mutex, woken |-> {}]
                             ELSE Relock(after[k - 1], waiters[c][k])
    IN after[n]

Wake(c, n) ==
    /\ mutex' = Relocked(c, n).mutex
    /\ waiters' = [waiters EXCEPT ![c] = SubSeq(@, n + 1, Len(@))]
    /\ Reschedule(Relocked(c, n).woken, FALSE)

CondSignal(c) ==
    /\ Calling("cond") /\ waiters[c] # <<>>
    /\ Wake(c, 1)
    /\ UNCHANGED <<threads, arrived, joinable, cancelling, held, rounds, joins>>

CondBroadcast(c) ==
    /\ Calling("cond") /\ waiters[c] # <<>>
    /\ Wake(c, Len(waiters[c]))
    /\ UNCHANGED <<threads, arrived, joinable, cancelling, held, rounds, joins>>
-----------------------------------------------------------------------------------------
(* Barriers *)

NearlyAll(b, queue) == Len(queue) + 1 = num_participants[b]    \* mutant: off by one
Complete(b, queue) == Len(queue) = num_participants[b]

StillWaiting(b, queue) == IF Complete(b, queue) THEN <<>> ELSE queue

BarrierWait(b) ==
    /\ Calling("barrier") /\ rounds[current][b] < MaxRounds
    /\ LET queue == Append(arrived[b], current)
       IN /\ arrived' = [arrived EXCEPT ![b] = StillWaiting(b, queue)]
          /\ IF Complete(b, queue) THEN Reschedule(ToSet(arrived[b]), FALSE) ELSE Reschedule({}, TRUE)
    /\ rounds' = [rounds EXCEPT ![current][b] = @ + 1]
    /\ UNCHANGED <<threads, mutex, waiters, joinable, cancelling, held, joins>>
-----------------------------------------------------------------------------------------
(* Exit, join, cancel *)

Joiner(t) == IF joinable[t].joinable /\ joinable[t].joiner # Nobody
             THEN {joinable[t].joiner} ELSE {}

\* The end of thread t: PthreadJoinManager::KillThread hands its result to its joiner or
\* keeps it, and the managers forget t.  Queues t may stand in are not searched.
End(t) ==
    /\ joinable' = [joinable EXCEPT ![t] =
                       IF Joiner(t) # {} THEN Detached
                       ELSE [joinable[t] EXCEPT !.done = @ \/ joinable[t].joinable]]
    /\ Destroy(t, Joiner(t))
    /\ canceltype' = [canceltype EXCEPT ![t] = "deferred"]
    /\ cancelstate' = [cancelstate EXCEPT ![t] = TRUE]
    /\ canceled' = [canceled EXCEPT ![t] = FALSE]
    /\ KillThread(t)
    /\ UNCHANGED <<newkey, destr, done, malloc>>
    /\ UNCHANGED <<new_thread_id, pth_to_hth, hth_to_pth, mutex, waiters, arrived, held, rounds, joins>>

\* pthread_exit.
Exits == Drained(current) /\ End(current)

Exit == Running /\ depth = 0 /\ Exits

\* pthread_cleanup_pop(1).
CleanupRun == Calling("cleanup") /\ HandlersOf(current) # <<>> /\ Exits

\* pthread_testcancel on its own.
TestCancel == Calling("cancel") /\ canceled[current] /\ Exits

IsDone(t) == joinable[t].done

\* pthread_join is a cancellation point.  The program joins a joinable thread, not itself,
\* that nobody joins yet (anything else is an ASSERT the code announces).
Join(t) ==
    /\ Calling("join") /\ t # current
    /\ joinable[t].joinable /\ joinable[t].joiner = Nobody
    /\ IF canceled[current] THEN Exits
       ELSE /\ IF IsDone(t)
               THEN /\ joinable' = [joinable EXCEPT ![t] = Detached]
                    /\ Reschedule({}, FALSE)
               ELSE /\ joinable' = [joinable EXCEPT ![t].joiner = current]
                    /\ Reschedule({}, TRUE)
            /\ joins' = [joins EXCEPT ![current] = @ \cup {t}]
            /\ UNCHANGED <<data, threads, mutex, waiters, arrived, cancelling, held, rounds>>

Detach(t) ==
    /\ Calling("join") /\ t \in pthreads
    /\ joinable[t].joinable /\ joinable[t].joiner = Nobody
    /\ joinable' = [joinable EXCEPT ![t] = Detached]
    /\ UNCHANGED <<threads, sched, mutex, waiters, arrived, cancelling, held, rounds, joins>>

SetCancelType ==
    /\ Calling("cancel")
    /\ \E type \in {"deferred", "asynchronous"} :
          canceltype' = [canceltype EXCEPT ![current] = type]
    /\ UNCHANGED <<threads, sched, mutex, waiters, arrived, joinable, cancelstate, canceled, held,
                   rounds, joins>>

SetCancelState ==
    /\ Calling("cancelstate")
    /\ cancelstate' = [cancelstate EXCEPT ![current] = ~@]
    /\ UNCHANGED <<threads, sched, mutex, waiters, arrived, joinable, canceltype, canceled, held,
                   rounds, joins>>

\* pthread_cancel; without effect on a thread that has cancellation disabled.
CancelDeferred(t) ==
    /\ Calling("cancel") /\ t \in pthreads /\ cancelstate[t] /\ canceltype[t] = "deferred"
    /\ canceled' = [canceled EXCEPT ![t] = TRUE]
    /\ UNCHANGED <<threads, sched, mutex, waiters, arrived, joinable, canceltype, cancelstate,
                   held, rounds, joins>>

\* The target ends at once, and its handlers are left.  The program does not do it to the
\* running thread (an ASSERT).
Kills(t) ==
    /\ t \in pthreads \ {current}
    /\ "cancel blocked" \in program.does \/ t \in active
    /\ End(t) /\ UNCHANGED handlers
CancelNow(t) ==
    /\ Calling("cancel") /\ cancelstate[t] /\ canceltype[t] = "asynchronous"
    /\ Kills(t)

\* pthread_kill enables cancellation, makes it asynchronous and cancels.
Kill(t) == Calling("cancel") /\ Kills(t)
-----------------------------------------------------------------------------------------
(* Data of the threads *)

\* A call or a return inside a routine that allocates asserts who is in there.
Allocate ==
    /\ Running /\ "malloc" \in program.does
    /\ AnalyzeCall(current) \/ AnalyzeReturn
    /\ aborted' = (depth > 0 /\ current # allocating)
    /\ UNCHANGED <<active, nactive, current, hactive>>

OwnData ==
    \/ /\ Calling("keys")
       /\ \/ KeyCreate
          \/ \E k \in 0..newkey : KeyDelete(k) \/ \E d \in Data : SetSpecific(current, k, d)
       /\ UNCHANGED sched
    \/ /\ Calling("cleanup")
       /\ CleanupPop(current) \/ \E h \in Handler : CleanupPush(current, h)
       /\ UNCHANGED sched
    \/ /\ Calling("cleanup")
       /\ \E o \in Once : PthreadOnce(o)
       /\ UNCHANGED sched
    \/ Allocate
-----------------------------------------------------------------------------------------
Next ==
    /\ UNCHANGED program
    /\ \/ /\ \/ Resume \/ Yield \/ SetCancelType \/ SetCancelState
             \/ \E m \in Mutex : MutexLock(m) \/ MutexTrylock(m) \/ MutexUnlock(m)
             \/ \E c \in Cond : CondSignal(c) \/ CondBroadcast(c) \/ \E m \in Mutex : CondWait(c, m)
             \/ \E b \in Barrier : BarrierWait(b)
             \/ \E t \in Thread : Detach(t) \/ CancelDeferred(t)
          /\ UNCHANGED data
       \/ /\ OwnData
          /\ UNCHANGED <<threads, mutex, waiters, arrived, joinable, cancelling, held, rounds, joins>>
       \/ Create \/ Exit \/ CleanupRun \/ TestCancel
       \/ \E t \in Thread : Join(t) \/ CancelNow(t) \/ Kill(t)

Spec == Init /\ [][Next]_vars
-----------------------------------------------------------------------------------------
(* Properties *)

\* A thread that can run owns every mutex its lock and wait calls obtained: no call
\* returns without the mutex it promised, and no two running threads hold one mutex.
HoldersOwn ==
    \A t \in active : \A m \in Mutex :
        held[t][m] > 0 => mutex[m].owner = t /\ mutex[m].count > 0

\* The places a blocked thread can be woken from.
Waits(t) ==
    {<<"mutex", m>> : m \in {x \in Mutex : t \in ToSet(mutex[x].spinning)}}
      \cup {<<"cond", c>> : c \in {x \in Cond : \E w \in ToSet(waiters[x]) : w[1] = t}}
      \cup {<<"barrier", b>> : b \in {x \in Barrier : t \in ToSet(arrived[x])}}
      \cup {<<"join", u>> : u \in {x \in Thread : joinable[x].joiner = t}}

\* A thread is blocked exactly if it stands in one queue, and then only in that one; and
\* nobody waits for a mutex that is free.  (One that yields waits in no queue.)
BlockedIsQueued ==
    ~aborted =>
        /\ \/ "yield" \in program.does
           \/ \A t \in pthreads : Cardinality(Waits(t)) = 0 <=> t \in active
        /\ \A t \in pthreads : Cardinality(Waits(t)) <= 1
        /\ \A m \in Mutex : mutex[m].spinning # <<>> => mutex[m].count > 0

\* No thread passes a barrier before all its participants arrived: when a thread that
\* called wait k times runs, all of them (the threads that share it) called it k times.
BarrierTogether ==
    \A b \in Barrier : \A t \in active :
        rounds[t][b] > 0 =>
            Cardinality({u \in Thread : rounds[u][b] >= rounds[t][b]}) >= num_participants[b]

\* pthread_join returns only when the other thread has ended.
JoinedHaveEnded == \A t \in active : joins[t] \cap pthreads = {}

\* The calls that wait for other threads return no sooner than these are there or gone.
WaitsAreOver == BarrierTogether /\ JoinedHaveEnded

\* The ASSERTs of the library fire only when the program is deadlocked.
AbortMeansDeadlock == aborted => active = {}

\* EEPthreadScheduler.h, "number of active threads".
NactiveCountsActive == nactive = Cardinality(active)

\* The timing simulator resumes exactly the threads that can be scheduled.
SameActive == hactive = {pth_to_hth[t] : t \in active}

\* The threads that have data are the valid ones, and each has every key there is.
KeysAgree == DOMAIN tls = pthreads /\ \A t \in pthreads : DOMAIN tls[t] \ {0} = destr

\* Scheduler, timing simulator and managers, each of which keeps threads of its own, agree
\* which there are and which can run, in whatever order they were created, blocked and ended.
ManagersAgree == ~aborted => NactiveCountsActive /\ SameActive /\ KeysAgree
=========================================================================================
