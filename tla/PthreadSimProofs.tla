------------------------------- MODULE PthreadSimProofs -------------------------------
(* Proofs about the pthread library: which threads there are and can run, that a thread  *)
(* that can run owns what it locked, that a blocked one stands in exactly one queue, and  *)
(* that nobody returns early from a barrier or from join.                                *)
EXTENDS PthreadSim, FiniteSetTheorems, SequenceTheorems, WellFoundedInduction, TLAPS

\* The programs the theorems are about: they create their threads before one of them ends
\* (the hardware threads would be mixed up) and do not cancel, asynchronously, a blocked
\* thread (it would be left in the queue it stands in).
Usual == program.does \cap {"create after exit", "cancel blocked"} = {}

MutexType == [count : Nat, owner : Thread \cup {Nobody}, spinning : Seq(Thread)]

Typed ==
    /\ TypeOK
    /\ mutex \in [Mutex -> MutexType]
    /\ depth \in Nat

\* What is of its type, in parts.
ThreadsTyped ==
    /\ new_thread_id \in 0..MaxThreads /\ pthreads \subseteq Thread
    /\ pth_to_hth \in [Thread -> Thread] /\ hth_to_pth \in [Thread -> Thread \cup {Nobody}]
SchedTyped ==
    /\ active \subseteq pthreads /\ nactive \in 0..MaxUint /\ current \in Thread \cup {Nobody}
    /\ hactive \subseteq Thread /\ aborted \in BOOLEAN
QueuesTyped ==
    /\ mutex \in [Mutex -> MutexType]
    /\ waiters \in [Cond -> Seq(Thread \X Mutex)] /\ arrived \in [Barrier -> Seq(Thread)]
JoinableTyped ==
    joinable \in [Thread -> [joinable : BOOLEAN, done : BOOLEAN, joiner : Thread \cup {Nobody}]]
CancelTyped ==
    /\ canceltype \in [Thread -> {"deferred", "asynchronous"}]
    /\ cancelstate \in [Thread -> BOOLEAN] /\ canceled \in [Thread -> BOOLEAN]
HistoryTyped ==
    /\ held \in [Thread -> [Mutex -> Nat]] /\ rounds \in [Thread -> [Barrier -> Nat]]
    /\ joins \in [Thread -> SUBSET Thread]
DepthTyped == depth \in Nat

\* A thread runs on the hardware thread of its own number.
Hardware ==
    /\ new_thread_id > 0
    /\ pthreads \subseteq 0..new_thread_id-1
    /\ \A t \in 0..new_thread_id-1 : pth_to_hth[t] = t /\ hth_to_pth[t] = t
    /\ hactive = active

\* What runs can run, and is what allocates; nothing can run once an ASSERT has fired.
Scheduled ==
    /\ NactiveCountsActive
    /\ ~aborted => current \in active \cup {Nobody}
    /\ aborted => active = {}
    /\ depth > 0 => current = allocating

Keyed ==
    /\ newkey \in Nat \ {0} /\ destr \subseteq 1..newkey-1
    /\ KeysAgree

\* Who is waited for is alive, who has ended is done, and who called join waits.
Joining ==
    /\ \A u \in Thread : joinable[u].joiner # Nobody =>
          joinable[u].joinable /\ ~joinable[u].done /\ u \in pthreads
    /\ \A u \in Thread : joinable[u].joinable /\ u \notin pthreads => joinable[u].done
    /\ \A u \in Thread : joinable[u].done => u \notin pthreads
    /\ \A u \in Thread : u >= new_thread_id => joinable[u] = Detached
    /\ \A t \in Thread : joins[t] \subseteq 0..new_thread_id-1
    /\ \A t \in Thread : \A u \in joins[t] \cap pthreads : joinable[u].joiner = t

\* M stands for mutex and W for waiters, or for what they are midway through a call.  What
\* thread t has asked for of mutex m: the locks it owns, and the one it stands in line for.
Bit(p) == IF p THEN 1 ELSE 0
Own(M, t, m) == IF M[m].count > 0 /\ M[m].owner = t THEN M[m].count ELSE 0
Spins(M, t, m) == \E i \in 1..Len(M[m].spinning) : M[m].spinning[i] = t
Asked(M, t, m) == Own(M, t, m) + Bit(Spins(M, t, m))

\* A mutex with a queue is locked, only a recursive one more than once, and the owner of
\* such a one does not stand in line for it.
Distinct(s) == \A i, j \in 1..Len(s) : s[i] = s[j] => i = j

SoundAt(M, m) ==
    /\ Distinct(M[m].spinning)
    /\ M[m].spinning # <<>> => M[m].count > 0
    /\ Kind[m] # "recursive" => M[m].count <= 1
    /\ \A t \in Thread : Kind[m] = "recursive" /\ Own(M, t, m) > 0 => ~Spins(M, t, m)
Sound(M) == \A m \in Mutex : SoundAt(M, m)

\* What a thread holds, by its calls, is what it asked for, and the lock it gave up to wait.
Sleeps(W, t, m) == \E c \in Cond : \E i \in 1..Len(W[c]) : W[c][i] = <<t, m>>

Balanced(M, W) ==
    \A t \in Thread : \A m \in Mutex : held[t][m] = Asked(M, t, m) + Bit(Sleeps(W, t, m))

\* No thread stands twice in a queue, or in two; who stands in one exists and cannot run,
\* and, unless threads yield, who cannot run stands in one.
DistinctWaiters(s) == \A i, j \in 1..Len(s) : s[i][1] = s[j][1] => i = j

Placed(t) ==
    /\ \A x, y \in Waits(t) : x = y
    /\ Waits(t) # {} => t \in pthreads \ active
    /\ "yield" \notin program.does /\ t \in pthreads \ active => Waits(t) # {}

Queued ==
    /\ \A c \in Cond : DistinctWaiters(waiters[c])
    /\ \A b \in Barrier : Distinct(arrived[b])
    /\ \A t \in Thread : Placed(t)

\* No more threads than its participants use barrier b.
Shared(b) == Cardinality({u \in Thread : rounds[u][b] > 0}) <= num_participants[b]

\* After r rounds of b, who waits there has begun one more.
AfterRounds(b, r) ==
    /\ \A u \in Thread : IF u \in ToSet(arrived[b]) THEN rounds[u][b] = r + 1
                         ELSE rounds[u][b] \in {0, r}
    /\ r > 0 => Cardinality({u \in Thread : rounds[u][b] >= r}) >= num_participants[b]

Barriers ==
    \A b \in Barrier :
        /\ Len(arrived[b]) < num_participants[b]
        /\ Shared(b) => \E r \in 0..MaxRounds : AfterRounds(b, r)

Inv == /\ Typed /\ Hardware /\ Scheduled /\ Keyed /\ Joining /\ Queued
       /\ Sound(mutex) /\ Balanced(mutex, waiters) /\ Barriers

IInv == Usual => Inv
---------------------------------------------------------------------------------------
(* Induction over the natural numbers, for a set of them: a theorem about an operator    *)
(* could not be instantiated.                                                           *)

\* A non-empty set of natural numbers has a least element.
LEMMA LeastNumber ==
    ASSUME NEW T \in SUBSET Nat, T # {}
    PROVE  \E x \in T : \A y \in T : x <= y
<1> DEFINE R == {ss \in Nat \X Nat : ss[1] < ss[2]}
<1>1. IsWellFoundedOn(R, Nat)
    BY NatLessThanWellFounded DEF OpToRel
<1>2. \E x \in T : \A y \in T : <<y, x>> \notin R
    <2> HIDE DEF R
    <2> QED BY <1>1, WFMin
<1>3. PICK x \in T : \A y \in T : <<y, x>> \notin R
    BY <1>2
<1>4. ASSUME NEW y \in T PROVE x <= y
    <2>1. <<y, x>> \in Nat \X Nat /\ <<y, x>> \notin R
        BY <1>3
    <2> QED BY <2>1
<1> QED BY <1>4

\* A set that holds 0, and with each number the next one, holds all of them.
LEMMA Induction ==
    ASSUME NEW T, 0 \in T, \A n \in Nat : n \in T => n + 1 \in T
    PROVE  Nat \subseteq T
<1> SUFFICES ASSUME Nat \ T # {} PROVE FALSE
    OBVIOUS
<1>1. PICK x \in Nat \ T : \A y \in Nat \ T : x <= y
    BY LeastNumber
<1>2. x - 1 \in Nat /\ x = (x - 1) + 1
    OBVIOUS
<1>3. x - 1 \in T
    BY <1>1, <1>2
<1> QED BY <1>2, <1>3
---------------------------------------------------------------------------------------
(* Queues *)

\* What a queue holds, and what it holds when one more came, or the first one left.
LEMMA QueueMembers ==
    ASSUME NEW S, NEW s \in Seq(S)
    PROVE  \A x : x \in ToSet(s) <=> \E i \in 1..Len(s) : s[i] = x
BY DEF ToSet

LEMMA QueueAppend ==
    ASSUME NEW S, NEW s \in Seq(S), NEW x \in S
    PROVE  /\ Append(s, x) \in Seq(S)
           /\ ToSet(Append(s, x)) = ToSet(s) \cup {x}
           /\ Distinct(s) /\ x \notin ToSet(s) => Distinct(Append(s, x))
<1>1. /\ Append(s, x) \in Seq(S) /\ Len(Append(s, x)) = Len(s) + 1 /\ Len(s) \in Nat
      /\ \A i \in 1..Len(s) : Append(s, x)[i] = s[i]
      /\ Append(s, x)[Len(s) + 1] = x
    BY AppendProperties
<1>2. \A y : y \in ToSet(Append(s, x)) <=> y \in ToSet(s) \cup {x}
    <2>1. \A y : y \in ToSet(Append(s, x)) <=> \E i \in 1..Len(s) + 1 : Append(s, x)[i] = y
        <3> DEFINE a == Append(s, x)
        <3>1. a \in Seq(S) /\ Len(a) = Len(s) + 1
            BY <1>1
        <3> HIDE DEF a
        <3>2. \A y : y \in ToSet(a) <=> \E i \in 1..Len(s) + 1 : a[i] = y
            BY <3>1, QueueMembers
        <3> QED BY <3>2 DEF a
    <2>2. \A y : y \in ToSet(s) <=> \E i \in 1..Len(s) : s[i] = y
        BY QueueMembers
    <2>3. \A i : i \in 1..Len(s) + 1 <=> i \in 1..Len(s) \/ i = Len(s) + 1
        BY <1>1
    <2> QED BY <1>1, <2>1, <2>2, <2>3
<1>3. Distinct(s) /\ x \notin ToSet(s) => Distinct(Append(s, x))
    BY <1>1, QueueMembers DEF Distinct
<1> QED BY <1>1, <1>2, <1>3

LEMMA QueueTail ==
    ASSUME NEW S, NEW s \in Seq(S), s # <<>>
    PROVE  /\ Tail(s) \in Seq(S) /\ Head(s) \in ToSet(s) /\ Head(s) \in S
           /\ Distinct(s) => /\ Distinct(Tail(s))
                             /\ ToSet(Tail(s)) = ToSet(s) \ {Head(s)}
<1>1. /\ Tail(s) \in Seq(S) /\ Len(Tail(s)) = Len(s) - 1 /\ Len(s) \in Nat /\ Len(s) > 0
      /\ \A i \in 1..Len(Tail(s)) : Tail(s)[i] = s[i + 1]
      /\ Head(s) = s[1] /\ \A i \in 1..Len(s) : s[i] \in S
    OBVIOUS
<1>2. Head(s) \in ToSet(s) /\ Head(s) \in S
    BY <1>1, QueueMembers
<1>3. ASSUME Distinct(s) PROVE Distinct(Tail(s)) /\ ToSet(Tail(s)) = ToSet(s) \ {Head(s)}
    <2>1. Distinct(Tail(s))
        BY <1>1, <1>3 DEF Distinct
    <2>2. ASSUME NEW y \in ToSet(Tail(s)) PROVE y \in ToSet(s) \ {Head(s)}
        <3>1. PICK i \in 1..Len(Tail(s)) : Tail(s)[i] = y
            BY <1>1, QueueMembers, ZenonT(60)
        <3>2. i + 1 \in 1..Len(s) /\ s[i + 1] = y /\ i + 1 # 1 /\ 1 \in 1..Len(s)
            BY <1>1, <3>1
        <3> QED BY <1>1, <1>3, <3>2, QueueMembers DEF Distinct
    <2>3. ASSUME NEW y \in ToSet(s) \ {Head(s)} PROVE y \in ToSet(Tail(s))
        <3>1. PICK i \in 1..Len(s) : s[i] = y
            BY QueueMembers
        <3>2. i - 1 \in 1..Len(Tail(s)) /\ Tail(s)[i - 1] = y
            BY <1>1, <3>1
        <3> QED BY <1>1, <3>2, QueueMembers
    <2> QED BY <2>1, <2>2, <2>3
<1> QED BY <1>1, <1>2, <1>3

\* A queue in which nobody stands twice is as long as it has members.
LEMMA QueueLength ==
    ASSUME NEW S, NEW s \in Seq(S), Distinct(s)
    PROVE  IsFiniteSet(ToSet(s)) /\ Cardinality(ToSet(s)) = Len(s)
<1>1. s \in [1..Len(s) -> S] /\ Len(s) \in Nat
    OBVIOUS
<1>2. s \in Bijection(1..Len(s), ToSet(s))
    BY <1>1, QueueMembers DEF Bijection, Injection, Surjection, IsInjective, Distinct
<1>3. ExistsBijection(1..Len(s), ToSet(s))
    BY <1>2 DEF ExistsBijection
<1> QED BY <1>1, <1>3, FS_NatBijection, FS_CountingElements
---------------------------------------------------------------------------------------
(* Scheduling *)

\* Sets of threads are finite.
LEMMA ThreadSets ==
    /\ MaxThreads \in Nat /\ MaxUint \in Nat /\ MaxThreads < MaxUint /\ Nobody \notin Thread
    /\ \A S \in SUBSET Thread : IsFiniteSet(S) /\ Cardinality(S) \in 0..MaxThreads
<1>1. MaxThreads \in Nat \ {0} /\ MaxUint \in Nat /\ MaxThreads < MaxUint /\ Nobody \notin Thread
    BY PthreadSimAssumption DEF Nobody, Thread
<1>2. IsFiniteSet(Thread) /\ Cardinality(Thread) = MaxThreads
    BY <1>1, FS_Interval DEF Thread
<1>3. ASSUME NEW S \in SUBSET Thread PROVE IsFiniteSet(S) /\ Cardinality(S) \in 0..MaxThreads
    BY <1>1, <1>2, FS_Subset, FS_CardinalityType
<1> QED BY <1>1, <1>3

LEMMA SmallRemainder == \A i, n \in Nat : i < n => i % n = i
OBVIOUS

\* Room in the count: it does not overflow, and no thread is counted twice.
LEMMA Counting ==
    ASSUME active \subseteq Thread, NactiveCountsActive,
           NEW woken, woken \subseteq Thread \ active,
           NEW leaving, leaving = {} \/ \E u \in active : leaving = {u}
    PROVE  Count(woken, leaving) = Cardinality((active \cup woken) \ leaving)
<1> DEFINE both == active \cup woken
<1>1. /\ IsFiniteSet(active) /\ IsFiniteSet(woken) /\ IsFiniteSet(both)
      /\ Cardinality(active) \in Nat /\ Cardinality(woken) \in Nat
      /\ Cardinality(both) \in Nat /\ Cardinality(both) <= MaxThreads
    BY ThreadSets
<1>2. Cardinality(both) = Cardinality(active) + Cardinality(woken)
    <2>1. Cardinality(active \cap woken) = 0
        BY FS_EmptySet
    <2>2. Cardinality(both) = Cardinality(active) + Cardinality(woken) - Cardinality(active \cap woken)
        BY <1>1, FS_Union
    <2> QED BY <1>1, <2>1, <2>2
<1>3. (nactive + Cardinality(woken)) % (MaxUint + 1) = Cardinality(both)
    BY <1>1, <1>2, ThreadSets DEF NactiveCountsActive
<1>4. CASE leaving = {}
    <2>1. Cardinality(leaving) = 0 /\ both \ leaving = both
        BY <1>4, FS_EmptySet
    <2> HIDE DEF both
    <2>2. Count(woken, leaving) = Cardinality(both)
        BY <1>1, <1>3, <2>1 DEF Count, Less
    <2> QED BY <2>1, <2>2 DEF both
<1>5. ASSUME NEW u \in active, leaving = {u} PROVE Count(woken, leaving) = Cardinality(both \ leaving)
    <2>1. Cardinality(leaving) = 1
        BY <1>5, FS_Singleton
    <2>2. u \in both
        OBVIOUS
    <2> HIDE DEF both
    <2>3. Cardinality(both \ {u}) = Cardinality(both) - 1 /\ Cardinality(both \ {u}) \in Nat
        BY <1>1, <2>2, FS_RemoveElement, FS_CardinalityType
    <2>4. Cardinality(both) >= 1
        BY <1>1, <2>3
    <2> QED BY <1>1, <1>3, <1>5, <2>1, <2>3, <2>4 DEF Count, Less
<1> QED BY <1>4, <1>5

\* The next thread is one that can run, if there is one.
LEMMA Picking ==
    ASSUME NEW ha, Hardware, ha \subseteq pthreads, NEW p \in PickNext(ha, hth_to_pth)
    PROVE  p \in ha \cup {Nobody}
<1>1. CASE ha = {}
    BY <1>1 DEF PickNext
<1>2. CASE ha # {}
    <2>1. PICK h \in ha : p = hth_to_pth[h]
        BY <1>2 DEF PickNext
    <2> QED BY <2>1 DEF Hardware
<1> QED BY <1>1, <1>2

\* What a call leaves to run when it wakes woken and, if it blocks, puts its thread to sleep.
Rescheduled(woken, blocks) ==
    /\ active' = (active \cup woken) \ (IF blocks THEN {current} ELSE {})
    /\ active' \subseteq pthreads /\ hactive' = active'
    /\ nactive' = Cardinality(active') /\ nactive' \in 0..MaxUint
    /\ aborted' \in BOOLEAN /\ (aborted' => active' = {})
    /\ current' \in Thread \cup {Nobody}
    /\ ~aborted' => current' \in active' \cup {Nobody}

LEMMA Rescheduling ==
    ASSUME Typed, Hardware, Scheduled, Running,
           NEW woken, woken \subseteq pthreads \ active, NEW blocks \in BOOLEAN,
           Reschedule(woken, blocks)
    PROVE  Rescheduled(woken, blocks)
<1> DEFINE leaving == IF blocks THEN {current} ELSE {}
           rest == (active \cup woken) \ leaving
<1>1. current \in active /\ active \subseteq pthreads /\ pthreads \subseteq Thread
    BY DEF Running, Scheduled, Typed, TypeOK
<1>2. leaving = {} \/ \E u \in active : leaving = {u}
    BY <1>1
<1>3. /\ woken \subseteq pthreads \ active /\ woken \cap pthreads = woken
      /\ NactiveCountsActive /\ hactive = active
    BY DEF Scheduled, Hardware
<1>4. Count(woken, leaving) = Cardinality(rest)
    <2> HIDE DEF leaving
    <2> QED BY <1>1, <1>2, <1>3, Counting
<1>5. /\ active' = rest /\ hactive' = rest /\ nactive' = Cardinality(rest)
      /\ aborted' = (blocks /\ Cardinality(rest) = 0)
      /\ IF blocks /\ ~aborted' THEN current' \in PickNext(hactive', hth_to_pth)
         ELSE current' = current
    BY <1>3, <1>4 DEF Reschedule
<1>6. rest \subseteq pthreads /\ rest \subseteq Thread
    BY <1>1, <1>3
<1>7. IsFiniteSet(rest) /\ Cardinality(rest) \in 0..MaxUint
    BY <1>6, ThreadSets
<1>8. aborted' => rest = {}
    BY <1>5, <1>7, FS_EmptySet
<1>9. current' \in Thread \cup {Nobody} /\ (~aborted' => current' \in rest \cup {Nobody})
    <2>1. CASE blocks /\ ~aborted'
        BY <2>1, <1>5, <1>6, Picking
    <2>2. CASE ~blocks
        BY <2>2, <1>1, <1>5
    <2>3. CASE aborted'
        BY <2>3, <1>1, <1>5
    <2> QED BY <2>1, <2>2, <2>3, <1>5
<1> QED BY <1>5, <1>6, <1>7, <1>8, <1>9 DEF Rescheduled
---------------------------------------------------------------------------------------
(* Mutexes *)

\* A mutex with other fields.
With(mx, c, o, q) == [mx EXCEPT !.count = c, !.owner = o, !.spinning = q]

LEMMA MutexFields ==
    ASSUME NEW mx \in MutexType, NEW c \in Nat, NEW o \in Thread \cup {Nobody},
           NEW q \in Seq(Thread)
    PROVE  /\ With(mx, c, o, q) \in MutexType /\ With(mx, c, o, q).count = c
           /\ With(mx, c, o, q).owner = o /\ With(mx, c, o, q).spinning = q
BY DEF MutexType, With

LEMMA MutexSame ==
    ASSUME NEW mx \in MutexType, NEW c, NEW o
    PROVE  [mx EXCEPT !.count = c, !.owner = o] = With(mx, c, o, mx.spinning)
BY DEF MutexType, With

\* N is M with v at m.
Becomes(M, N, m, v) == N = [M EXCEPT ![m] = v]

LEMMA Becoming ==
    ASSUME NEW M \in [Mutex -> MutexType], NEW m \in Mutex, NEW N, NEW v, Becomes(M, N, m, v)
    PROVE  /\ N[m] = v /\ \A k \in Mutex : k # m => N[k] = M[k]
           /\ v \in MutexType => N \in [Mutex -> MutexType]
BY DEF Becomes

LEMMA AskedNat ==
    ASSUME NEW M \in [Mutex -> MutexType]
    PROVE  \A t \in Thread, m \in Mutex : Asked(M, t, m) \in Nat /\ Own(M, t, m) \in Nat
<1>1. \A m \in Mutex : M[m] \in MutexType
    OBVIOUS
<1>2. \A m \in Mutex : M[m].count \in Nat
    BY <1>1 DEF MutexType
<1> QED BY <1>2 DEF Asked, Own, Bit

\* Mutex m is locked for thread t, which does not stand in line for it: t has asked for one
\* more, it gets it or stands in line, and nothing changes for the others.
LEMMA Locking ==
    ASSUME NEW M \in [Mutex -> MutexType], Sound(M), NEW m \in Mutex, NEW t \in Thread,
           ~Spins(M, t, m),
           NEW N, Becomes(M, N, m, Locked(m, M[m], t))
    PROVE  /\ N \in [Mutex -> MutexType] /\ Sound(N)
           /\ \A u \in Thread, k \in Mutex :
                Asked(N, u, k) = Asked(M, u, k) + Bit(u = t /\ k = m)
           /\ \A u \in Thread, k \in Mutex :
                Spins(N, u, k) <=> Spins(M, u, k) \/ (u = t /\ k = m /\ Blocks(m, M[m], t))
           /\ Own(M, t, m) \in Nat
<1> DEFINE mx == M[m]
<1>1. /\ mx \in MutexType /\ mx.count \in Nat /\ mx.owner \in Thread \cup {Nobody}
      /\ mx.spinning \in Seq(Thread) /\ N[m] = Locked(m, mx, t)
      /\ \A k \in Mutex : k # m => N[k] = M[k]
      /\ t # Nobody
    <2>1. mx \in MutexType
        OBVIOUS
    <2>2. mx.count \in Nat /\ mx.owner \in Thread \cup {Nobody} /\ mx.spinning \in Seq(Thread)
        BY <2>1 DEF MutexType
    <2> QED BY <2>1, <2>2, Becoming, ThreadSets
<1>9. N[m] \in MutexType => N \in [Mutex -> MutexType]
    BY Becoming
<1>2. t \notin ToSet(mx.spinning)
    BY <1>1, QueueMembers DEF Spins
<1>3. \A k \in Mutex : k # m => \A u \in Thread :
          /\ Asked(N, u, k) = Asked(M, u, k)
          /\ Spins(N, u, k) <=> Spins(M, u, k)
          /\ Own(N, u, k) = Own(M, u, k)
    BY <1>1 DEF Asked, Own, Spins
<1>10. SoundAt(M, m) /\ \A k \in Mutex : k # m => SoundAt(N, k)
    BY <1>1, <1>3 DEF Sound, SoundAt
<1>4. \A u \in Thread, k \in Mutex : Asked(M, u, k) \in Nat
    <2>1. \A k \in Mutex : M[k] \in MutexType
        OBVIOUS
    <2>2. \A k \in Mutex : M[k].count \in Nat
        BY <2>1 DEF MutexType
    <2> QED BY <2>2 DEF Asked, Own, Bit
<1>8. Own(M, t, m) \in Nat
    BY <1>1 DEF Own
<1>5. CASE mx.count = 0
    <2>1. N[m] = [mx EXCEPT !.count = 1, !.owner = t] /\ mx.spinning = <<>>
        BY <1>1, <1>5 DEF Locked, Granted, Sound, SoundAt
    <2>2. /\ N[m] \in MutexType /\ N[m].count = 1 /\ N[m].owner = t /\ N[m].spinning = <<>>
        <3>1. /\ mx \in MutexType /\ mx.spinning \in Seq(Thread)
              /\ N[m] = [mx EXCEPT !.count = 1, !.owner = t]
            BY <1>1, <2>1
        <3>2. N[m] = With(mx, 1, t, mx.spinning)
            <4>1. mx \in MutexType
                BY <3>1
            <4>2. N[m] = [mx EXCEPT !.count = 1, !.owner = t]
                BY <3>1
            <4> HIDE DEF mx
            <4> QED BY <4>1, <4>2, MutexSame
        <3>3. N[m] \in MutexType /\ N[m].count = 1 /\ N[m].owner = t /\ N[m].spinning = mx.spinning
            <4> DEFINE q == mx.spinning
                       r == N[m]
            <4>1. /\ mx \in MutexType /\ q \in Seq(Thread) /\ t \in Thread \cup {Nobody} /\ 1 \in Nat
                  /\ r = With(mx, 1, t, q)
                BY <3>1, <3>2
            <4> HIDE DEF mx, q, r
            <4>2. r \in MutexType /\ r.count = 1 /\ r.owner = t /\ r.spinning = q
                BY <4>1, MutexFields
            <4> QED BY <4>2 DEF q, r
        <3> QED BY <2>1, <3>3
    <2>3. N \in [Mutex -> MutexType]
        BY <1>9, <2>2
    <2>4. \A u \in Thread : ~Spins(N, u, m) /\ ~Spins(M, u, m)
        BY <2>1, <2>2 DEF Spins
    <2>5. Sound(N)
        <3>1. SoundAt(N, m)
            BY <2>2, <2>4 DEF SoundAt, Distinct
        <3> QED BY <1>10, <3>1 DEF Sound
    <2>6. \A u \in Thread : Asked(N, u, m) = Asked(M, u, m) + Bit(u = t)
        BY <1>5, <2>2, <2>4 DEF Asked, Own, Bit
    <2>7. \A u \in Thread, k \in Mutex : Asked(N, u, k) = Asked(M, u, k) + Bit(u = t /\ k = m)
        BY <1>3, <1>4, <2>6 DEF Bit
    <2>8. ~Blocks(m, mx, t)
        BY <1>5 DEF Blocks
    <2> QED BY <1>3, <1>8, <2>3, <2>4, <2>5, <2>7, <2>8
<1>6. CASE mx.count > 0 /\ Relocks(m, mx, t)
    <2>1. N[m] = [mx EXCEPT !.count = @ + 1] /\ mx.owner = t /\ Kind[m] = "recursive"
        BY <1>1, <1>6 DEF Locked, Relocks
    <2>2. /\ N[m] \in MutexType /\ N[m].count = mx.count + 1 /\ N[m].owner = t
          /\ N[m].spinning = mx.spinning
        BY <1>1, <2>1 DEF MutexType
    <2>3. N \in [Mutex -> MutexType]
        BY <1>9, <2>2
    <2>4. \A u \in Thread : Spins(N, u, m) <=> Spins(M, u, m)
        BY <2>2 DEF Spins
    <2>5. \A u \in Thread : Own(N, u, m) = Own(M, u, m) + Bit(u = t)
        BY <1>1, <1>6, <2>1, <2>2 DEF Own, Bit
    <2>6. Sound(N)
        <3>1. SoundAt(N, m)
            BY <1>1, <1>6, <1>10, <2>1, <2>2, <2>4 DEF SoundAt, Own
        <3> QED BY <1>10, <3>1 DEF Sound
    <2>7. \A u \in Thread : Asked(N, u, m) = Asked(M, u, m) + Bit(u = t)
        BY <1>1, <2>4, <2>5 DEF Asked, Own, Bit
    <2>8. \A u \in Thread, k \in Mutex : Asked(N, u, k) = Asked(M, u, k) + Bit(u = t /\ k = m)
        BY <1>3, <1>4, <2>7 DEF Bit
    <2>9. ~Blocks(m, mx, t)
        BY <1>6 DEF Blocks
    <2> QED BY <1>3, <1>8, <2>3, <2>4, <2>6, <2>8, <2>9
<1>7. CASE mx.count > 0 /\ ~Relocks(m, mx, t)
    <2>1. N[m] = [mx EXCEPT !.spinning = Append(@, t)] /\ ~(mx.owner = t /\ Kind[m] = "recursive")
        BY <1>1, <1>7 DEF Locked, Relocks
    <2>2. /\ Append(mx.spinning, t) \in Seq(Thread) /\ Append(mx.spinning, t) # <<>>
          /\ ToSet(Append(mx.spinning, t)) = ToSet(mx.spinning) \cup {t}
          /\ Distinct(Append(mx.spinning, t))
        BY <1>1, <1>2, <1>10, QueueAppend DEF SoundAt
    <2>3. /\ N[m] \in MutexType /\ N[m].count = mx.count /\ N[m].owner = mx.owner
          /\ N[m].spinning = Append(mx.spinning, t)
        BY <1>1, <2>1, <2>2 DEF MutexType
    <2>4. N \in [Mutex -> MutexType]
        BY <1>9, <2>3
    <2>5. \A u \in Thread : Spins(N, u, m) <=> u \in ToSet(Append(mx.spinning, t))
        <3> DEFINE s == Append(mx.spinning, t)
        <3>1. s \in Seq(Thread) /\ N[m].spinning = s
            BY <2>2, <2>3
        <3> HIDE DEF s
        <3>2. \A u \in Thread : Spins(N, u, m) <=> u \in ToSet(s)
            BY <3>1, QueueMembers DEF Spins
        <3> QED BY <3>2 DEF s
    <2>6. \A u \in Thread : Spins(M, u, m) <=> u \in ToSet(mx.spinning)
        BY <1>1, QueueMembers DEF Spins
    <2>7. \A u \in Thread : Spins(N, u, m) <=> Spins(M, u, m) \/ u = t
        BY <2>2, <2>5, <2>6
    <2>8. \A u \in Thread : Own(N, u, m) = Own(M, u, m)
        BY <2>3 DEF Own
    <2>9. Sound(N)
        <3>1. SoundAt(N, m)
            BY <1>1, <1>7, <1>10, <2>1, <2>2, <2>3, <2>7, <2>8 DEF SoundAt, Own
        <3> QED BY <1>10, <3>1 DEF Sound
    <2>10. \A u \in Thread : Asked(N, u, m) = Asked(M, u, m) + Bit(u = t)
        BY <1>1, <1>4, <2>7, <2>8 DEF Asked, Own, Bit
    <2>11. \A u \in Thread, k \in Mutex : Asked(N, u, k) = Asked(M, u, k) + Bit(u = t /\ k = m)
        BY <1>3, <1>4, <2>10 DEF Bit
    <2>12. Blocks(m, mx, t)
        BY <1>7 DEF Blocks
    <2> QED BY <1>3, <1>8, <2>4, <2>7, <2>9, <2>11, <2>12
<1> QED BY <1>1, <1>5, <1>6, <1>7

\* Thread t, which owns mutex m and does not stand in line for it, unlocks it: it has asked
\* for one less, the next in line leaves it and owns the mutex, and nothing changes for
\* the others.
LEMMA Unlocking ==
    ASSUME NEW M \in [Mutex -> MutexType], Sound(M), NEW m \in Mutex, NEW t \in Thread,
           ~Spins(M, t, m), Own(M, t, m) > 0,
           NEW N, Becomes(M, N, m, Unlocked(m, M[m], t))
    PROVE  /\ N \in [Mutex -> MutexType] /\ Sound(N)
           /\ \A u \in Thread, k \in Mutex :
                /\ Asked(M, u, k) \in Nat
                /\ Asked(N, u, k) = Asked(M, u, k) - Bit(u = t /\ k = m)
           /\ \A u \in Thread, k \in Mutex :
                Spins(N, u, k) <=> Spins(M, u, k) /\ ~(k = m /\ u \in NewOwner(m, M[m], t))
           /\ \A u \in NewOwner(m, M[m], t) : u \in Thread /\ Spins(M, u, m)
<1> DEFINE mx == M[m]
<1>1. /\ mx \in MutexType /\ mx.count \in Nat /\ mx.owner \in Thread \cup {Nobody}
      /\ mx.spinning \in Seq(Thread) /\ N[m] = Unlocked(m, mx, t)
      /\ \A k \in Mutex : k # m => N[k] = M[k]
    <2>1. mx \in MutexType
        OBVIOUS
    <2>2. mx.count \in Nat /\ mx.owner \in Thread \cup {Nobody} /\ mx.spinning \in Seq(Thread)
        BY <2>1 DEF MutexType
    <2> QED BY <2>1, <2>2, Becoming
<1>9. N[m] \in MutexType => N \in [Mutex -> MutexType]
    BY Becoming
<1>2. mx.owner = t /\ mx.count > 0 /\ ~Refuses(m, mx, t)
    BY <1>1 DEF Own, Refuses
<1>3. \A k \in Mutex : k # m => \A u \in Thread :
          /\ Asked(N, u, k) = Asked(M, u, k)
          /\ Spins(N, u, k) <=> Spins(M, u, k)
          /\ Own(N, u, k) = Own(M, u, k)
    BY <1>1 DEF Asked, Own, Spins
<1>10. SoundAt(M, m) /\ \A k \in Mutex : k # m => SoundAt(N, k)
    BY <1>1, <1>3 DEF Sound, SoundAt
<1>4. \A u \in Thread, k \in Mutex : Asked(M, u, k) \in Nat
    <2>1. \A k \in Mutex : M[k] \in MutexType
        OBVIOUS
    <2>2. \A k \in Mutex : M[k].count \in Nat
        BY <2>1 DEF MutexType
    <2> QED BY <2>2 DEF Asked, Own, Bit
<1> DEFINE left == IF Kind[m] = "recursive" THEN mx.count - 1 ELSE 0
<1>5. Released(m, mx) = [mx EXCEPT !.count = left] /\ left = mx.count - 1 /\ left \in Nat
    BY <1>1, <1>2, <1>10 DEF Released, SoundAt
<1>6. \A u \in Thread : Spins(M, u, m) <=> u \in ToSet(mx.spinning)
    BY <1>1, QueueMembers DEF Spins
<1>7. CASE HandsOver(m, mx, t)
    <2> DEFINE h == Head(mx.spinning)
    <2>1. left = 0 /\ mx.count = 1 /\ mx.spinning # <<>>
        BY <1>1, <1>5, <1>7 DEF HandsOver, MutexType
    <2>2. /\ Tail(mx.spinning) \in Seq(Thread) /\ h \in Thread /\ h \in ToSet(mx.spinning)
          /\ Distinct(Tail(mx.spinning)) /\ ToSet(Tail(mx.spinning)) = ToSet(mx.spinning) \ {h}
        BY <1>1, <2>1, <1>10, QueueTail DEF SoundAt
    <2>3. N[m] = [[[mx EXCEPT !.count = left] EXCEPT !.spinning = Tail(@)]
                      EXCEPT !.count = 1, !.owner = h]
        BY <1>1, <1>2, <1>5, <1>7, <2>1 DEF Unlocked, Locked, Granted, MutexType
    <2>4. /\ N[m] \in MutexType /\ N[m].count = 1 /\ N[m].owner = h
          /\ N[m].spinning = Tail(mx.spinning)
        <3> DEFINE q == Tail(mx.spinning)
        <3>1. mx \in MutexType /\ h \in Thread /\ q \in Seq(Thread)
            BY <1>1, <2>2
        <3>2. N[m] = With(mx, 1, h, q)
            <4>1. N[m] = [[[mx EXCEPT !.count = left] EXCEPT !.spinning = q]
                              EXCEPT !.count = 1, !.owner = h]
                BY <1>1, <2>3, <1>5 DEF MutexType
            <4> HIDE DEF mx, q, h, left
            <4> QED BY <4>1, <3>1 DEF MutexType, With
        <3>3. N[m] \in MutexType /\ N[m].count = 1 /\ N[m].owner = h /\ N[m].spinning = q
            <4>1. \A x \in MutexType : \A o \in Thread : \A s \in Seq(Thread) :
                     /\ With(x, 1, o, s) \in MutexType /\ With(x, 1, o, s).count = 1
                     /\ With(x, 1, o, s).owner = o /\ With(x, 1, o, s).spinning = s
                BY MutexFields
            <4> HIDE DEF mx, q, h, left
            <4>2. /\ With(mx, 1, h, q) \in MutexType /\ With(mx, 1, h, q).count = 1
                  /\ With(mx, 1, h, q).owner = h /\ With(mx, 1, h, q).spinning = q
                BY <3>1, <4>1, ZenonT(60)
            <4> QED BY <3>2, <4>2
        <3> HIDE DEF q
        <3> QED BY <3>3 DEF q
    <2>5. N \in [Mutex -> MutexType]
        BY <1>9, <2>4
    <2>6. \A u \in Thread : Spins(N, u, m) <=> u \in ToSet(Tail(mx.spinning))
        <3> DEFINE s == Tail(mx.spinning)
        <3>1. s \in Seq(Thread) /\ N[m].spinning = s
            BY <2>2, <2>4
        <3> HIDE DEF s
        <3>2. \A u \in Thread : Spins(N, u, m) <=> u \in ToSet(s)
            BY <3>1, QueueMembers DEF Spins
        <3> QED BY <3>2 DEF s
    <2>7. NewOwner(m, mx, t) = {h} /\ Spins(M, h, m) /\ h # t
        BY <1>6, <1>7, <2>2 DEF NewOwner
    <2> HIDE DEF h
    <2>8. \A u \in Thread : Spins(N, u, m) <=> Spins(M, u, m) /\ u # h
        BY <1>6, <2>2, <2>6
    <2>9. Sound(N)
        <3>1. SoundAt(N, m)
            BY <1>1, <1>10, <2>2, <2>4, <2>8 DEF SoundAt, Own
        <3> QED BY <1>10, <3>1 DEF Sound
    <2>10. \A u \in Thread : Asked(N, u, m) = Asked(M, u, m) - Bit(u = t)
        BY <1>2, <2>1, <2>2, <2>4, <2>7, <2>8 DEF Asked, Own, Bit
    <2>11. \A u \in Thread, k \in Mutex : Asked(N, u, k) = Asked(M, u, k) - Bit(u = t /\ k = m)
        BY <1>3, <1>4, <2>10 DEF Bit
    <2> QED BY <1>3, <1>4, <2>2, <2>5, <2>7, <2>8, <2>9, <2>11
<1>8. CASE ~HandsOver(m, mx, t)
    <2>1. N[m] = [mx EXCEPT !.count = left] /\ NewOwner(m, mx, t) = {}
        BY <1>1, <1>2, <1>5, <1>8 DEF Unlocked, NewOwner
    <2>2. left = 0 => mx.spinning = <<>>
        BY <1>1, <1>2, <1>5, <1>8 DEF HandsOver, MutexType
    <2>3. /\ N[m] \in MutexType /\ N[m].count = left /\ N[m].owner = t
          /\ N[m].spinning = mx.spinning
        BY <1>1, <1>2, <1>5, <2>1 DEF MutexType
    <2>4. N \in [Mutex -> MutexType]
        BY <1>9, <2>3
    <2>5. \A u \in Thread : Spins(N, u, m) <=> Spins(M, u, m)
        BY <2>3 DEF Spins
    <2>6. Sound(N)
        <3>1. SoundAt(N, m)
            BY <1>1, <1>2, <1>5, <1>10, <2>2, <2>3, <2>5 DEF SoundAt, Own
        <3> QED BY <1>10, <3>1 DEF Sound
    <2>7. \A u \in Thread : Asked(N, u, m) = Asked(M, u, m) - Bit(u = t)
        BY <1>1, <1>2, <1>5, <2>3, <2>5 DEF Asked, Own, Bit
    <2>8. \A u \in Thread, k \in Mutex : Asked(N, u, k) = Asked(M, u, k) - Bit(u = t /\ k = m)
        BY <1>3, <1>4, <2>7 DEF Bit
    <2> QED BY <1>3, <1>4, <2>1, <2>4, <2>5, <2>6, <2>8
<1> QED BY <1>7, <1>8
---------------------------------------------------------------------------------------
(* The waiters of a condition variable *)

\* Thread p came last to the waiters w, with mutex m.
Joined(w, a, p, m) ==
    /\ \A x : (\E i \in 1..Len(a) : a[i] = x) <=> (\E i \in 1..Len(w) : w[i] = x) \/ x = <<p, m>>
    /\ \A u : (\E i \in 1..Len(a) : a[i][1] = u) <=> (\E i \in 1..Len(w) : w[i][1] = u) \/ u = p
    /\ DistinctWaiters(a)

LEMMA WaitersAppend ==
    ASSUME NEW w \in Seq(Thread \X Mutex), NEW p \in Thread, NEW m \in Mutex,
           DistinctWaiters(w), \A i \in 1..Len(w) : w[i][1] # p,
           NEW a, a = Append(w, <<p, m>>)
    PROVE  Joined(w, a, p, m)
<1>1. /\ Len(a) = Len(w) + 1 /\ Len(w) \in Nat /\ a[Len(w) + 1] = <<p, m>>
      /\ \A i \in 1..Len(w) : a[i] = w[i]
    BY AppendProperties
<1>2. \A i : i \in 1..Len(a) <=> i \in 1..Len(w) \/ i = Len(w) + 1
    BY <1>1
<1>3. <<p, m>>[1] = p
    OBVIOUS
<1>4. \A x : (\E i \in 1..Len(a) : a[i] = x) <=> (\E i \in 1..Len(w) : w[i] = x) \/ x = <<p, m>>
    BY <1>1, <1>2
<1>5. \A u : (\E i \in 1..Len(a) : a[i][1] = u) <=> (\E i \in 1..Len(w) : w[i][1] = u) \/ u = p
    BY <1>1, <1>2, <1>3
<1>6. DistinctWaiters(a)
    BY <1>1, <1>2, <1>3 DEF DistinctWaiters
<1> QED BY <1>4, <1>5, <1>6 DEF Joined

---------------------------------------------------------------------------------------
(* What blocked threads wait for *)

InCond(t, c) == \E i \in 1..Len(waiters[c]) : waiters[c][i][1] = t

\* The places thread t waits in, read off the queues.
WaitsAre ==
    \A t, x : x \in Waits(t) <=>
        \/ \E m \in Mutex : x = <<"mutex", m>> /\ Spins(mutex, t, m)
        \/ \E c \in Cond : x = <<"cond", c>> /\ InCond(t, c)
        \/ \E b \in Barrier : x = <<"barrier", b>> /\ t \in ToSet(arrived[b])
        \/ \E u \in Thread : x = <<"join", u>> /\ joinable[u].joiner = t

LEMMA MutexTyped ==
    ASSUME NEW M \in [Mutex -> MutexType]
    PROVE  \A m \in Mutex : /\ M[m] \in MutexType
                            /\ M[m].count \in Nat /\ M[m].owner \in Thread \cup {Nobody}
                            /\ M[m].spinning \in Seq(Thread)
<1> TAKE m \in Mutex
<1>1. M[m] \in MutexType
    OBVIOUS
<1> QED BY <1>1 DEF MutexType

LEMMA WaitsRead == QueuesTyped => WaitsAre
<1> SUFFICES ASSUME QueuesTyped PROVE WaitsAre
    OBVIOUS
<1>1. \A m \in Mutex : mutex[m].spinning \in Seq(Thread)
    BY MutexTyped DEF QueuesTyped
<1>2. \A c \in Cond : waiters[c] \in Seq(Thread \X Mutex)
    BY DEF QueuesTyped
<1>3. \A m \in Mutex : \A t : t \in ToSet(mutex[m].spinning) <=> Spins(mutex, t, m)
    BY <1>1, QueueMembers DEF Spins
<1>4. \A c \in Cond : \A t : (\E w \in ToSet(waiters[c]) : w[1] = t) <=> InCond(t, c)
    BY <1>2, QueueMembers DEF InCond
<1> QED BY <1>3, <1>4 DEF WaitsAre, Waits

LEMMA WaitsReadNext == QueuesTyped' => WaitsAre'
BY WaitsRead, PTL

\* Who stands in the same queues waits for the same.
LEMMA SameWaits ==
    ASSUME WaitsAre, WaitsAre', NEW t,
           \A m \in Mutex : Spins(mutex', t, m) <=> Spins(mutex, t, m),
           \A c \in Cond : InCond(t, c)' <=> InCond(t, c),
           \A b \in Barrier : t \in ToSet(arrived[b])' <=> t \in ToSet(arrived[b]),
           \A u \in Thread : joinable[u].joiner' = t <=> joinable[u].joiner = t
    PROVE  Waits(t)' = Waits(t)
<1>1. \A x : x \in Waits(t)' <=> x \in Waits(t)
    BY DEF WaitsAre, Spins
<1> QED BY <1>1

\* Who is in no other queue waits for mutexes alone.
LEMMA WaitsAlone ==
    ASSUME WaitsAre', NEW t,
           \A c \in Cond : ~InCond(t, c)', \A b \in Barrier : t \notin ToSet(arrived[b])',
           \A u \in Thread : joinable[u].joiner' # t
    PROVE  \A x : x \in Waits(t)' <=> \E k \in Mutex : x = <<"mutex", k>> /\ Spins(mutex', t, k)
BY DEF WaitsAre, Spins

\* Who waited for mutexes alone, and stands in line for none of them now, waits no more.
LEMMA WaitsLost ==
    ASSUME WaitsAre, WaitsAre', NEW t, NEW m, Waits(t) = {<<"mutex", m>>},
           \A k \in Mutex : ~Spins(mutex', t, k),
           \A c \in Cond : InCond(t, c)' <=> InCond(t, c),
           UNCHANGED <<arrived, joinable>>
    PROVE  Waits(t)' = {}
<1>1. /\ \A c \in Cond : ~InCond(t, c)
      /\ \A b \in Barrier : t \notin ToSet(arrived[b])
      /\ \A u \in Thread : joinable[u].joiner # t
    <2>1. /\ \A c : <<"cond", c>> \notin Waits(t)
          /\ \A b : <<"barrier", b>> \notin Waits(t)
          /\ \A u : <<"join", u>> \notin Waits(t)
        OBVIOUS
    <2>2. /\ \A c \in Cond : InCond(t, c) => <<"cond", c>> \in Waits(t)
          /\ \A b \in Barrier : t \in ToSet(arrived[b]) => <<"barrier", b>> \in Waits(t)
          /\ \A u \in Thread : joinable[u].joiner = t => <<"join", u>> \in Waits(t)
        BY Zenon DEF WaitsAre
    <2> QED BY <2>1, <2>2
<1>2. /\ \A c \in Cond : ~InCond(t, c)'
      /\ \A b \in Barrier : t \notin ToSet(arrived[b])'
      /\ \A u \in Thread : joinable[u].joiner' # t
    BY <1>1
<1>3. \A x : x \notin Waits(t)'
    BY <1>2, WaitsAlone
<1> QED BY <1>3

LEMMA WaitsAsleep ==
    ASSUME WaitsAre', NEW t, NEW c \in Cond,
           \A k \in Mutex : ~Spins(mutex', t, k), \A d \in Cond : InCond(t, d)' <=> d = c,
           \A b \in Barrier : t \notin ToSet(arrived[b])',
           \A u \in Thread : joinable'[u].joiner # t
    PROVE  \A x : x \in Waits(t)' <=> x = <<"cond", c>>
<1>1. \A x : x \in Waits(t)' <=> \E d \in Cond : x = <<"cond", d>> /\ d = c
    BY DEF WaitsAre, Spins
<1> QED BY <1>1

\* The same of barriers: who waited at one alone, and does not any more, waits no more; and
\* who is in no other queue waits there.
LEMMA WaitsPassed ==
    ASSUME WaitsAre, WaitsAre', NEW t, NEW b, Waits(t) = {<<"barrier", b>>},
           \A k \in Mutex : Spins(mutex', t, k) <=> Spins(mutex, t, k),
           \A c \in Cond : InCond(t, c)' <=> InCond(t, c),
           \A u \in Thread : joinable[u].joiner' = t <=> joinable[u].joiner = t,
           \A d \in Barrier : t \notin ToSet(arrived'[d])
    PROVE  Waits(t)' = {}
<1>1. /\ \A c : <<"cond", c>> \notin Waits(t)
      /\ \A k : <<"mutex", k>> \notin Waits(t)
      /\ \A u : <<"join", u>> \notin Waits(t)
    OBVIOUS
<1>2. /\ \A c \in Cond : InCond(t, c) => <<"cond", c>> \in Waits(t)
      /\ \A k \in Mutex : Spins(mutex, t, k) => <<"mutex", k>> \in Waits(t)
      /\ \A u \in Thread : joinable[u].joiner = t => <<"join", u>> \in Waits(t)
    BY Zenon DEF WaitsAre
<1>3. /\ \A c \in Cond : ~InCond(t, c)'
      /\ \A k \in Mutex : ~Spins(mutex', t, k)
      /\ \A u \in Thread : joinable[u].joiner' # t
    BY <1>1, <1>2
<1>4. \A x : x \notin Waits(t)'
    BY <1>3 DEF WaitsAre, Spins
<1> QED BY <1>4

LEMMA WaitsThere ==
    ASSUME WaitsAre', NEW t, NEW b \in Barrier, NEW blocks \in BOOLEAN,
           \A k \in Mutex : ~Spins(mutex', t, k), \A c \in Cond : ~InCond(t, c)',
           \A d \in Barrier : t \in ToSet(arrived'[d]) <=> d = b /\ blocks,
           \A u \in Thread : joinable[u].joiner' # t
    PROVE  \A x : x \in Waits(t)' <=> x = <<"barrier", b>> /\ blocks
<1>1. \A x : x \in Waits(t)' <=> \E d \in Barrier : x = <<"barrier", d>> /\ d = b /\ blocks
    BY DEF WaitsAre, Spins
<1> QED BY <1>1

\* The same of join.
LEMMA WaitsJoined ==
    ASSUME WaitsAre, WaitsAre', NEW t, NEW v, Waits(t) = {<<"join", v>>},
           \A k \in Mutex : Spins(mutex', t, k) <=> Spins(mutex, t, k),
           \A c \in Cond : InCond(t, c)' <=> InCond(t, c),
           \A b \in Barrier : t \in ToSet(arrived[b])' <=> t \in ToSet(arrived[b]),
           \A u \in Thread : joinable[u].joiner' # t
    PROVE  Waits(t)' = {}
<1>1. /\ \A c : <<"cond", c>> \notin Waits(t)
      /\ \A k : <<"mutex", k>> \notin Waits(t)
      /\ \A b : <<"barrier", b>> \notin Waits(t)
    OBVIOUS
<1>2. /\ \A c \in Cond : InCond(t, c) => <<"cond", c>> \in Waits(t)
      /\ \A k \in Mutex : Spins(mutex, t, k) => <<"mutex", k>> \in Waits(t)
      /\ \A b \in Barrier : t \in ToSet(arrived[b]) => <<"barrier", b>> \in Waits(t)
    BY Zenon DEF WaitsAre
<1>3. /\ \A c \in Cond : ~InCond(t, c)'
      /\ \A k \in Mutex : ~Spins(mutex', t, k)
      /\ \A b \in Barrier : t \notin ToSet(arrived[b])'
    BY <1>1, <1>2
<1>4. \A x : x \notin Waits(t)'
    BY <1>3 DEF WaitsAre, Spins
<1> QED BY <1>4

LEMMA WaitsToJoin ==
    ASSUME WaitsAre', NEW t, NEW v \in Thread,
           \A k \in Mutex : ~Spins(mutex', t, k), \A c \in Cond : ~InCond(t, c)',
           \A b \in Barrier : t \notin ToSet(arrived[b])',
           \A u \in Thread : joinable[u].joiner' = t <=> u = v
    PROVE  Waits(t)' = {<<"join", v>>}
<1>1. \A x : x \in Waits(t)' <=> \E u \in Thread : x = <<"join", u>> /\ u = v
    BY DEF WaitsAre, Spins
<1>2. \A x : x \in Waits(t)' <=> x = <<"join", v>>
    BY <1>1
<1> QED BY <1>2

\* Where a thread is after it was woken, fell asleep, or neither.
LEMMA Placing ==
    ASSUME NEW t \in Thread, program' = program,
           \/ Waits(t)' = {} /\ (t \notin pthreads' \/ t \in active' \/ "yield" \in program.does)
           \/ \E x : Waits(t)' = {x} /\ t \in pthreads' \ active'
    PROVE  Placed(t)'
BY DEF Placed

LEMMA Alone ==
    ASSUME NEW t \in Thread, Placed(t)
    PROVE  (Waits(t) # {} => \E x : Waits(t) = {x}) /\ (t \in active => Waits(t) = {})
BY DEF Placed

\* A call that wakes woken and, if it blocks, puts its thread p to sleep: the first are in no
\* queue then, p is in one if it sleeps, and any other thread is where it was, or elsewhere.
Moved(woken, blocks, p) ==
    /\ p = current /\ p \notin woken /\ woken \subseteq pthreads
    /\ \A u \in woken : Waits(u)' = {}
    /\ IF blocks THEN \/ \E x : Waits(p)' = {x}
                      \/ "yield" \in program.does /\ Waits(p)' = {}
       ELSE Waits(p)' = {}
    /\ \A u \in Thread \ (woken \cup {p}) :
          \/ Waits(u)' = Waits(u)
          \/ Waits(u) # {} /\ \E x : Waits(u)' = {x}

LEMMA Replacing ==
    ASSUME Typed, Running, Scheduled, \A t \in Thread : Placed(t), UNCHANGED <<program, pthreads>>,
           NEW woken, NEW blocks \in BOOLEAN, NEW p, Rescheduled(woken, blocks), Moved(woken, blocks, p)
    PROVE  \A t \in Thread : Placed(t)'
<1> SUFFICES ASSUME NEW t \in Thread PROVE Placed(t)'
    OBVIOUS
<1>1. /\ p \in active /\ active \subseteq pthreads
      /\ active' = (active \cup woken) \ (IF blocks THEN {p} ELSE {})
    BY DEF Running, Scheduled, Typed, TypeOK, Rescheduled, Moved
<1>2. CASE t \in woken
    <2>1. t \in active' /\ Waits(t)' = {}
        BY <1>1, <1>2 DEF Moved
    <2> QED BY <2>1, Placing
<1>3. CASE t = p
    <2>1. p \in active' <=> ~blocks
        BY <1>1
    <2>2. p \in pthreads'
        BY <1>1
    <2> QED BY <1>1, <1>3, <2>1, <2>2, Placing DEF Moved
<1>4. CASE t \notin woken \cup {p}
    <2>1. t \in active' <=> t \in active
        BY <1>1, <1>4
    <2>2. Placed(t)
        OBVIOUS
    <2>3. CASE Waits(t) = {}
        <3>1. Waits(t)' = {}
            BY <1>4, <2>3 DEF Moved
        <3>2. t \notin pthreads' \/ t \in active' \/ "yield" \in program.does
            BY <2>1, <2>2, <2>3 DEF Placed
        <3> QED BY <3>1, <3>2, Placing
    <2>4. CASE Waits(t) # {}
        <3>1. \E x : Waits(t)' = {x}
            BY <1>4, <2>4, <2>2, Alone DEF Moved
        <3>2. t \in pthreads' \ active'
            BY <2>1, <2>2, <2>4 DEF Placed
        <3> QED BY <3>1, <3>2, Placing
    <2> QED BY <2>3, <2>4
<1> QED BY <1>2, <1>3, <1>4
---------------------------------------------------------------------------------------
(* What calls leave alone *)

LEMMA TypedParts ==
    Typed <=> /\ ThreadsTyped /\ SchedTyped /\ QueuesTyped /\ JoinableTyped
              /\ CancelTyped /\ HistoryTyped /\ DepthTyped
<1>1. mutex \in [Mutex -> MutexType] =>
        \A m \in Mutex : /\ mutex[m].count \in Nat /\ mutex[m].owner \in Thread \cup {Nobody}
                         /\ mutex[m].spinning \in Seq(Thread)
    BY MutexTyped
<1> HIDE DEF MutexType
<1> QED BY <1>1 DEF Typed, TypeOK, ThreadsTyped, SchedTyped, QueuesTyped, JoinableTyped,
                    CancelTyped, HistoryTyped, DepthTyped

LEMMA TypedPartsNext ==
    Typed' <=> /\ ThreadsTyped' /\ SchedTyped' /\ QueuesTyped' /\ JoinableTyped'
               /\ CancelTyped' /\ HistoryTyped' /\ DepthTyped'
BY TypedParts, PTL

\* Each part of the invariant changes only with the variables it reads.
LEMMA Frames ==
    /\ ThreadsTyped /\ UNCHANGED threads => ThreadsTyped'
    /\ SchedTyped /\ UNCHANGED <<pthreads, sched>> => SchedTyped'
    /\ QueuesTyped /\ UNCHANGED <<mutex, waiters, arrived>> => QueuesTyped'
    /\ JoinableTyped /\ UNCHANGED joinable => JoinableTyped'
    /\ CancelTyped /\ UNCHANGED cancelling => CancelTyped'
    /\ HistoryTyped /\ UNCHANGED <<held, rounds, joins>> => HistoryTyped'
    /\ Hardware /\ UNCHANGED threads /\ hactive' = active' => Hardware'
    /\ Scheduled /\ UNCHANGED <<sched, malloc>> => Scheduled'
    /\ Keyed /\ UNCHANGED <<keys, pthreads>> => Keyed'
    /\ Joining /\ UNCHANGED <<joinable, joins, pthreads, new_thread_id>> => Joining'
    /\ Queued /\ UNCHANGED <<program, pthreads, active, mutex, waiters, arrived, joinable>> => Queued'
    /\ Sound(mutex) /\ UNCHANGED mutex => Sound(mutex')
    /\ Balanced(mutex, waiters) /\ UNCHANGED <<mutex, waiters, held>> => Balanced(mutex, waiters)'
    /\ Barriers /\ UNCHANGED <<arrived, rounds>> => Barriers'
<1>1. ThreadsTyped /\ UNCHANGED threads => ThreadsTyped'
    BY DEF ThreadsTyped, threads
<1>2. SchedTyped /\ UNCHANGED <<pthreads, sched>> => SchedTyped'
    BY DEF SchedTyped, sched
<1>3. QueuesTyped /\ UNCHANGED <<mutex, waiters, arrived>> => QueuesTyped'
    BY DEF QueuesTyped
<1>4. JoinableTyped /\ UNCHANGED joinable => JoinableTyped'
    BY DEF JoinableTyped
<1>5. CancelTyped /\ UNCHANGED cancelling => CancelTyped'
    BY DEF CancelTyped, cancelling
<1>6. HistoryTyped /\ UNCHANGED <<held, rounds, joins>> => HistoryTyped'
    BY DEF HistoryTyped
<1>7. Hardware /\ UNCHANGED threads /\ hactive' = active' => Hardware'
    BY DEF Hardware, threads
<1>8. Scheduled /\ UNCHANGED <<sched, malloc>> => Scheduled'
    BY DEF Scheduled, sched, malloc, NactiveCountsActive
<1>9. Keyed /\ UNCHANGED <<keys, pthreads>> => Keyed'
    BY DEF Keyed, keys, KeysAgree
<1>10. Joining /\ UNCHANGED <<joinable, joins, pthreads, new_thread_id>> => Joining'
    BY DEF Joining
<1>11. Queued /\ UNCHANGED <<program, pthreads, active, mutex, waiters, arrived, joinable>> => Queued'
    BY DEF Queued, Placed, Waits, DistinctWaiters, Distinct
<1>12. Sound(mutex) /\ UNCHANGED mutex => Sound(mutex')
    OBVIOUS
<1>13. Balanced(mutex, waiters) /\ UNCHANGED <<mutex, waiters, held>> => Balanced(mutex, waiters)'
    BY DEF Balanced
<1>14. Barriers /\ UNCHANGED <<arrived, rounds>> => Barriers'
    BY DEF Barriers, AfterRounds, Shared
<1> QED BY <1>1, <1>2, <1>3, <1>4, <1>5, <1>6, <1>7, <1>8, <1>9, <1>10, <1>11, <1>12, <1>13, <1>14

\* Who runs can run and waits for nothing.
LEMMA Runs ==
    ASSUME Inv, Running
    PROVE  /\ current \in active /\ current \in pthreads /\ current \in Thread /\ ~aborted
           /\ active \subseteq pthreads /\ pthreads \subseteq Thread
           /\ Waits(current) = {} /\ hactive = active
<1>1. /\ current \in active /\ current \in pthreads /\ current \in Thread /\ ~aborted
      /\ active \subseteq pthreads /\ pthreads \subseteq Thread
    BY DEF Running, Inv, Scheduled, Typed, TypeOK
<1>2. Placed(current)
    BY <1>1 DEF Inv, Queued
<1> QED BY <1>1, <1>2, Alone DEF Inv, Hardware

\* A call that allocates nothing and makes or ends no thread keeps the tables of threads.
LEMMA CallKeeps ==
    ASSUME Inv, Running, depth = 0, UNCHANGED <<data, threads>>,
           NEW woken, woken \subseteq pthreads \ active, NEW blocks \in BOOLEAN,
           Reschedule(woken, blocks)
    PROVE  /\ Rescheduled(woken, blocks)
           /\ ThreadsTyped' /\ SchedTyped' /\ DepthTyped'
           /\ Hardware' /\ Scheduled' /\ Keyed'
<1>1. Rescheduled(woken, blocks)
    BY Rescheduling DEF Inv
<1>2. UNCHANGED <<keys, malloc, pthreads>> /\ depth' = 0 /\ DepthTyped'
    BY DEF data, malloc, threads, DepthTyped
<1>3. SchedTyped'
    <2>1. pthreads' = pthreads /\ pthreads \subseteq Thread
        BY <1>2, Runs
    <2> QED BY <1>1, <2>1 DEF Rescheduled, SchedTyped
<1>4. ThreadsTyped' /\ Hardware' /\ Keyed'
    BY <1>1, <1>2, Frames, TypedParts DEF Inv, Rescheduled
<1>5. Scheduled'
    BY <1>1, <1>2 DEF Rescheduled, Scheduled, NactiveCountsActive
<1> QED BY <1>1, <1>2, <1>3, <1>4, <1>5

\* Who runs stands in no queue, and holds what it owns.
LEMMA RunsFree ==
    ASSUME Inv, Running, NEW p, p = current
    PROVE  /\ p \in Thread /\ p \in active /\ p \in pthreads /\ WaitsAre /\ Waits(p) = {}
           /\ \A m \in Mutex : ~Spins(mutex, p, m) /\ held[p][m] = Own(mutex, p, m)
           /\ \A c \in Cond : ~InCond(p, c)
           /\ \A b \in Barrier : p \notin ToSet(arrived[b])
           /\ \A u \in Thread : joinable[u].joiner # p
<1>1. WaitsAre
    BY TypedParts, WaitsRead DEF Inv
<1>2. p \in Thread /\ p \in active /\ p \in pthreads /\ Waits(p) = {}
    BY Runs
<1>3. \A x : x \notin Waits(p)
    BY <1>2
<1>4. \A m \in Mutex : ~Spins(mutex, p, m)
    BY <1>1, <1>3 DEF WaitsAre
<1>5. \A c \in Cond : ~InCond(p, c)
    BY <1>1, <1>3 DEF WaitsAre
<1>6. \A b \in Barrier : p \notin ToSet(arrived[b])
    BY <1>1, <1>3 DEF WaitsAre
<1>7. \A u \in Thread : joinable[u].joiner # p
    BY <1>1, <1>3 DEF WaitsAre
<1>8. \A m \in Mutex : held[p][m] = Own(mutex, p, m)
    <2> TAKE m \in Mutex
    <2>1. ~Sleeps(waiters, p, m)
        BY <1>5 DEF Sleeps, InCond
    <2>2. held[p][m] = Asked(mutex, p, m) + 0
        BY <1>2, <2>1 DEF Inv, Balanced, Bit
    <2>3. Own(mutex, p, m) \in Nat
        BY MutexTyped DEF Own, Inv, Typed
    <2> QED BY <1>4, <2>2, <2>3 DEF Asked, Bit
<1> QED BY <1>1, <1>2, <1>4, <1>5, <1>6, <1>7, <1>8
---------------------------------------------------------------------------------------
(* The calls: each keeps the invariant *)

LEMMA ResumeKeeps == ASSUME Inv, UNCHANGED <<program, data>>, Resume PROVE Inv'
<1>1. Running /\ depth = 0 /\ current' \in PickNext(hactive, hth_to_pth)
    BY DEF Resume, CanSwitchThreads
<1>2. /\ current' \in active \cup {Nobody} /\ UNCHANGED <<active, nactive, hactive, aborted>>
      /\ active \subseteq pthreads /\ pthreads \subseteq Thread
    BY <1>1, Runs, Picking DEF Resume, Inv
<1>3. /\ UNCHANGED <<threads, mutex, waiters, arrived, joinable, cancelling, held, rounds, joins>>
      /\ UNCHANGED <<pthreads, new_thread_id, keys, malloc, depth>> /\ hactive' = active'
    BY <1>1, <1>2, Runs DEF Resume, threads, data, malloc
<1>4. SchedTyped' /\ DepthTyped'
    BY <1>2, <1>3, TypedParts DEF Inv, SchedTyped, DepthTyped
<1>5. Typed'
    BY <1>3, <1>4, Frames, TypedParts, TypedPartsNext DEF Inv
<1>6. Scheduled'
    BY <1>1, <1>2, <1>3 DEF Scheduled, Inv, NactiveCountsActive
<1> QED BY <1>2, <1>3, <1>5, <1>6, Frames DEF Inv

LEMMA YieldKeeps == ASSUME Inv, UNCHANGED <<program, data>>, Yield PROVE Inv'
<1>1. /\ Running /\ depth = 0 /\ "yield" \in program.does /\ Reschedule({}, TRUE)
      /\ UNCHANGED <<threads, mutex, waiters, arrived, joinable, cancelling, held, rounds, joins>>
      /\ UNCHANGED <<pthreads, new_thread_id>>
    BY DEF Yield, Calling, threads
<1>2. /\ Rescheduled({}, TRUE) /\ ThreadsTyped' /\ SchedTyped' /\ DepthTyped'
      /\ Hardware' /\ Scheduled' /\ Keyed'
    BY <1>1, CallKeeps
<1>3. Typed'
    BY <1>1, <1>2, Frames, TypedParts, TypedPartsNext DEF Inv
<1>4. Queued'
    <2>1. \A t \in Thread : Waits(t)' = Waits(t)
        BY <1>1 DEF Waits
    <2>2. PICK p : p = current
        OBVIOUS
    <2>3. Waits(p)' = {}
        BY <1>1, <2>1, <2>2, Runs
    <2>4. Moved({}, TRUE, p)
        BY <1>1, <2>1, <2>2, <2>3 DEF Moved
    <2>5. \A t \in Thread : Placed(t)'
        BY <1>1, <1>2, <2>4, Replacing DEF Inv, Queued
    <2> QED BY <1>1, <2>5 DEF Inv, Queued, DistinctWaiters, Distinct
<1> QED BY <1>1, <1>2, <1>3, <1>4, Frames DEF Inv

\* The calls that set what cancel does.
LEMMA CancelTypesKeep ==
    ASSUME Inv, UNCHANGED <<program, data>>,
           SetCancelType \/ SetCancelState \/ \E t \in Thread : CancelDeferred(t)
    PROVE  Inv'
<1>1. /\ Running
      /\ UNCHANGED <<threads, sched, mutex, waiters, arrived, joinable, held, rounds, joins>>
      /\ UNCHANGED <<pthreads, new_thread_id, keys, malloc, depth, active, hactive>>
    BY DEF SetCancelType, SetCancelState, CancelDeferred, Calling, threads, sched, data, malloc
<1>2. CancelTyped /\ current \in Thread /\ hactive = active
    BY <1>1, Runs, TypedParts DEF Inv
<1>3. CancelTyped'
    <2>1. CASE SetCancelType
        BY <1>2, <2>1 DEF CancelTyped, SetCancelType
    <2>2. CASE SetCancelState
        BY <1>2, <2>2 DEF CancelTyped, SetCancelState
    <2>3. CASE \E t \in Thread : CancelDeferred(t)
        BY <1>2, <2>3 DEF CancelTyped, CancelDeferred
    <2> QED BY <2>1, <2>2, <2>3
<1>4. DepthTyped'
    BY <1>1, TypedParts DEF Inv, DepthTyped
<1>5. Typed'
    BY <1>1, <1>3, <1>4, Frames, TypedParts, TypedPartsNext DEF Inv
<1> QED BY <1>1, <1>2, <1>5, Frames DEF Inv

LEMMA DetachKeeps ==
    ASSUME Inv, UNCHANGED <<program, data>>, NEW t \in Thread, Detach(t) PROVE Inv'
<1>1. /\ Running /\ joinable[t].joiner = Nobody /\ joinable' = [joinable EXCEPT ![t] = Detached]
      /\ UNCHANGED <<threads, sched, mutex, waiters, arrived, cancelling, held, rounds, joins>>
      /\ UNCHANGED <<pthreads, new_thread_id, keys, malloc, depth, active, hactive>>
    BY DEF Detach, Calling, threads, sched, data, malloc
<1>2. JoinableTyped /\ JoinableTyped' /\ hactive = active
    BY <1>1, Runs, TypedParts DEF Inv, JoinableTyped, Detached
<1>3. \A u \in Thread : joinable'[u] = IF u = t THEN Detached ELSE joinable[u]
    BY <1>1, <1>2 DEF JoinableTyped
<1>4. Nobody \notin Thread /\ Detached.joiner = Nobody /\ ~Detached.joinable /\ ~Detached.done
    BY ThreadSets DEF Detached
<1>5. DepthTyped'
    BY <1>1, TypedParts DEF Inv, DepthTyped
<1>6. Typed'
    BY <1>1, <1>2, <1>5, Frames, TypedParts, TypedPartsNext DEF Inv
<1>7. \A u \in Thread : joinable'[u].joiner = joinable[u].joiner
    BY <1>1, <1>3, <1>4
<1>8. Joining'
    <2>1. Joining /\ \A u \in Thread : joins[u] \subseteq Thread
        BY TypedParts DEF Inv, HistoryTyped
    <2> QED BY <1>1, <1>3, <1>4, <1>7, <2>1 DEF Joining
<1>9. \A u \in Thread : Waits(u)' = Waits(u)
    <2>1. \A u \in Thread : {v \in Thread : joinable[v].joiner = u}' = {v \in Thread : joinable[v].joiner = u}
        BY <1>7
    <2> QED BY <1>1, <2>1 DEF Waits
<1>10. Queued'
    BY <1>1, <1>9 DEF Inv, Queued, Placed, DistinctWaiters, Distinct
<1> QED BY <1>1, <1>2, <1>6, <1>8, <1>10, Frames DEF Inv

\* Thread p, which runs, locks mutex m.
LEMMA LockEffects ==
    ASSUME Inv, Running, NEW p, p = current, NEW m \in Mutex,
           Becomes(mutex, mutex', m, Locked(m, mutex[m], p)),
           held' = [held EXCEPT ![p][m] = @ + 1],
           UNCHANGED <<waiters, arrived, joinable, rounds, joins>>
    PROVE  /\ QueuesTyped' /\ HistoryTyped' /\ Sound(mutex)' /\ Balanced(mutex, waiters)'
           /\ \A u \in Thread : u # p => Waits(u)' = Waits(u)
           /\ Waits(p)' = IF Blocks(m, mutex[m], p) THEN {<<"mutex", m>>} ELSE {}
<1>1. /\ p \in Thread /\ WaitsAre /\ Waits(p) = {} /\ QueuesTyped /\ HistoryTyped
      /\ mutex \in [Mutex -> MutexType] /\ Sound(mutex)
      /\ \A k \in Mutex : ~Spins(mutex, p, k)
    BY RunsFree, TypedParts DEF Inv, Typed
<1>3. /\ mutex' \in [Mutex -> MutexType] /\ Sound(mutex')
      /\ \A u \in Thread, k \in Mutex :
           Asked(mutex', u, k) = Asked(mutex, u, k) + Bit(u = p /\ k = m)
      /\ \A u \in Thread, k \in Mutex :
           Spins(mutex', u, k) <=> Spins(mutex, u, k) \/ (u = p /\ k = m /\ Blocks(m, mutex[m], p))
    BY <1>1, Locking
<1>4. QueuesTyped' /\ WaitsAre'
    BY <1>1, <1>3, WaitsReadNext DEF QueuesTyped
<1>5. HistoryTyped' /\ \A u \in Thread, k \in Mutex : held'[u][k] = held[u][k] + Bit(u = p /\ k = m)
    BY <1>1 DEF HistoryTyped, Bit
<1>6. Balanced(mutex, waiters)'
    <2> SUFFICES ASSUME NEW u \in Thread, NEW k \in Mutex
                 PROVE  held'[u][k] = Asked(mutex', u, k) + Bit(Sleeps(waiters', u, k))
        BY DEF Balanced
    <2>1. held[u][k] = Asked(mutex, u, k) + Bit(Sleeps(waiters', u, k))
        BY DEF Inv, Balanced
    <2>2. Asked(mutex, u, k) \in Nat
        BY <1>1, AskedNat
    <2> QED BY <1>3, <1>5, <2>1, <2>2 DEF Bit
<1>7. ASSUME NEW u \in Thread, u # p PROVE Waits(u)' = Waits(u)
    <2>1. \A k \in Mutex : Spins(mutex', u, k) <=> Spins(mutex, u, k)
        BY <1>3, <1>7
    <2> QED BY <1>1, <1>4, <2>1, SameWaits DEF InCond
<1>8. Waits(p)' = IF Blocks(m, mutex[m], p) THEN {<<"mutex", m>>} ELSE {}
    <2>1. /\ \A c \in Cond : ~InCond(p, c)'
          /\ \A b \in Barrier : p \notin ToSet(arrived[b])'
          /\ \A u \in Thread : joinable[u].joiner' # p
        BY RunsFree DEF InCond
    <2>2. \A k \in Mutex : Spins(mutex', p, k) <=> k = m /\ Blocks(m, mutex[m], p)
        BY <1>1, <1>3
    <2>3. \A x : x \in Waits(p)' <=> \E k \in Mutex : x = <<"mutex", k>> /\ Spins(mutex', p, k)
        BY <1>4, <2>1, WaitsAlone
    <2>4. \A x : x \in Waits(p)' <=> x = <<"mutex", m>> /\ Blocks(m, mutex[m], p)
        BY <2>2, <2>3
    <2>5. CASE Blocks(m, mutex[m], p)
        <3>1. \A x : x \in Waits(p)' <=> x = <<"mutex", m>>
            BY <2>4, <2>5
        <3> QED BY <2>5, <3>1
    <2>6. CASE ~Blocks(m, mutex[m], p)
        <3>1. \A x : x \notin Waits(p)'
            BY <2>4, <2>6
        <3> QED BY <2>6, <3>1
    <2> QED BY <2>5, <2>6
<1> QED BY <1>3, <1>4, <1>5, <1>6, <1>7, <1>8

LEMMA MutexLockKeeps ==
    ASSUME Inv, UNCHANGED <<program, data>>, NEW m \in Mutex, MutexLock(m) PROVE Inv'
<1>1. PICK p : p = current
    OBVIOUS
<1> DEFINE blocks == Blocks(m, mutex[m], p)
<1>2. /\ Running /\ depth = 0 /\ Reschedule({}, blocks) /\ blocks \in BOOLEAN
      /\ Becomes(mutex, mutex', m, Locked(m, mutex[m], p))
      /\ held' = [held EXCEPT ![p][m] = @ + 1]
      /\ UNCHANGED <<threads, waiters, arrived, joinable, cancelling, rounds, joins>>
      /\ UNCHANGED <<pthreads, new_thread_id>>
    BY <1>1 DEF MutexLock, Calling, threads, Becomes, Blocks
<1>3. /\ QueuesTyped' /\ HistoryTyped' /\ Sound(mutex)' /\ Balanced(mutex, waiters)'
      /\ \A u \in Thread : u # p => Waits(u)' = Waits(u)
      /\ Waits(p)' = IF blocks THEN {<<"mutex", m>>} ELSE {}
    BY <1>1, <1>2, LockEffects
<1> HIDE DEF blocks
<1>4. /\ Rescheduled({}, blocks) /\ ThreadsTyped' /\ SchedTyped' /\ DepthTyped'
      /\ Hardware' /\ Scheduled' /\ Keyed'
    BY <1>2, CallKeeps
<1>5. Typed'
    BY <1>2, <1>3, <1>4, Frames, TypedParts, TypedPartsNext DEF Inv
<1>6. Queued'
    <2>1. Moved({}, blocks, p)
        BY <1>1, <1>3 DEF Moved
    <2>2. \A t \in Thread : Placed(t)'
        BY <1>2, <1>4, <2>1, Replacing DEF Inv, Queued
    <2> QED BY <1>2, <2>2 DEF Inv, Queued, DistinctWaiters, Distinct
<1> QED BY <1>2, <1>3, <1>4, <1>5, <1>6, Frames DEF Inv

LEMMA MutexTrylockKeeps ==
    ASSUME Inv, UNCHANGED <<program, data>>, NEW m \in Mutex, MutexTrylock(m) PROVE Inv'
<1>1. PICK p : p = current
    OBVIOUS
<1>2. /\ Running /\ ~Blocks(m, mutex[m], p)
      /\ Becomes(mutex, mutex', m, Locked(m, mutex[m], p))
      /\ held' = [held EXCEPT ![p][m] = @ + 1]
      /\ UNCHANGED <<threads, sched, waiters, arrived, joinable, cancelling, rounds, joins>>
      /\ UNCHANGED <<pthreads, new_thread_id, keys, malloc, depth, active, hactive>>
    BY <1>1 DEF MutexTrylock, Calling, threads, sched, data, malloc, Becomes
<1>3. /\ QueuesTyped' /\ HistoryTyped' /\ Sound(mutex)' /\ Balanced(mutex, waiters)'
      /\ \A u \in Thread : u # p => Waits(u)' = Waits(u)
      /\ Waits(p)' = {}
    BY <1>1, <1>2, LockEffects
<1>4. DepthTyped' /\ hactive = active
    BY <1>2, Runs, TypedParts DEF Inv, DepthTyped
<1>5. Typed'
    BY <1>2, <1>3, <1>4, Frames, TypedParts, TypedPartsNext DEF Inv
<1>6. Queued'
    <2>1. \A u \in Thread : Waits(u)' = Waits(u)
        BY <1>1, <1>2, <1>3, RunsFree
    <2> QED BY <1>2, <2>1 DEF Inv, Queued, Placed, DistinctWaiters, Distinct
<1> QED BY <1>2, <1>3, <1>4, <1>5, <1>6, Frames DEF Inv

\* Thread p, which runs and holds mutex m, unlocks it, to unlock or to wait: what it has
\* asked for, and which mutexes a thread stands in line for.
LEMMA UnlockEffects ==
    ASSUME Inv, Running, NEW p, p = current, NEW m \in Mutex, held[p][m] > 0,
           Becomes(mutex, mutex', m, Unlocked(m, mutex[m], p)),
           NEW woken, woken = NewOwner(m, mutex[m], p)
    PROVE  /\ mutex' \in [Mutex -> MutexType] /\ Sound(mutex)'
           /\ \A u \in Thread, k \in Mutex :
                Asked(mutex', u, k) = Asked(mutex, u, k) - Bit(u = p /\ k = m)
           /\ Asked(mutex, p, m) = held[p][m]
           /\ \A u \in Thread, k \in Mutex :
                Spins(mutex', u, k) <=> Spins(mutex, u, k) /\ u \notin woken
           /\ \A u \in woken : u \in Thread /\ Waits(u) = {<<"mutex", m>>}
           /\ woken \subseteq pthreads \ active /\ p \notin woken
<1>1. /\ p \in Thread /\ WaitsAre /\ p \in active
      /\ mutex \in [Mutex -> MutexType] /\ Sound(mutex)
      /\ ~Spins(mutex, p, m) /\ held[p][m] = Own(mutex, p, m)
    BY RunsFree, TypedParts DEF Inv, Typed
<1>2. /\ mutex' \in [Mutex -> MutexType] /\ Sound(mutex')
      /\ \A u \in Thread, k \in Mutex :
           Asked(mutex', u, k) = Asked(mutex, u, k) - Bit(u = p /\ k = m)
      /\ \A u \in Thread, k \in Mutex :
           Spins(mutex', u, k) <=> Spins(mutex, u, k) /\ ~(k = m /\ u \in woken)
      /\ \A u \in woken : u \in Thread /\ Spins(mutex, u, m)
    BY <1>1, Unlocking
<1>3. ASSUME NEW u \in woken
      PROVE  /\ u \in Thread /\ Waits(u) = {<<"mutex", m>>} /\ u \in pthreads \ active
             /\ \A k \in Mutex : Spins(mutex, u, k) => k = m
    <2>1. u \in Thread /\ <<"mutex", m>> \in Waits(u)
        BY <1>1, <1>2 DEF WaitsAre
    <2>2. Placed(u)
        BY <2>1 DEF Inv, Queued
    <2>3. \A k \in Mutex : Spins(mutex, u, k) => <<"mutex", k>> \in Waits(u)
        BY <1>1 DEF WaitsAre
    <2> QED BY <2>1, <2>2, <2>3 DEF Placed
<1>4. \A u \in Thread, k \in Mutex :
        Spins(mutex', u, k) <=> Spins(mutex, u, k) /\ u \notin woken
    BY <1>2, <1>3
<1>5. Asked(mutex, p, m) = held[p][m]
    BY <1>1, AskedNat DEF Asked, Bit
<1> QED BY <1>1, <1>2, <1>3, <1>4, <1>5

LEMMA MutexUnlockKeeps ==
    ASSUME Inv, UNCHANGED <<program, data>>, NEW m \in Mutex, MutexUnlock(m) PROVE Inv'
<1>1. PICK p, woken : p = current /\ woken = NewOwner(m, mutex[m], p)
    OBVIOUS
<1>2. /\ Running /\ depth = 0 /\ Reschedule(woken, FALSE) /\ held[p][m] > 0
      /\ Becomes(mutex, mutex', m, Unlocked(m, mutex[m], p))
      /\ held' = [held EXCEPT ![p][m] = @ - 1]
      /\ UNCHANGED <<threads, waiters, arrived, joinable, cancelling, rounds, joins>>
      /\ UNCHANGED <<pthreads, new_thread_id>>
    BY <1>1 DEF MutexUnlock, Calling, threads, Becomes
<1>3. /\ mutex' \in [Mutex -> MutexType] /\ Sound(mutex)'
      /\ \A u \in Thread, k \in Mutex :
           Asked(mutex', u, k) = Asked(mutex, u, k) - Bit(u = p /\ k = m)
      /\ \A u \in Thread, k \in Mutex :
           Spins(mutex', u, k) <=> Spins(mutex, u, k) /\ u \notin woken
      /\ \A u \in woken : u \in Thread /\ Waits(u) = {<<"mutex", m>>}
      /\ woken \subseteq pthreads \ active /\ p \notin woken
    BY <1>1, <1>2, UnlockEffects
<1>4. /\ Rescheduled(woken, FALSE) /\ ThreadsTyped' /\ SchedTyped' /\ DepthTyped'
      /\ Hardware' /\ Scheduled' /\ Keyed'
    BY <1>2, <1>3, CallKeeps
<1>5. p \in Thread /\ QueuesTyped /\ HistoryTyped /\ WaitsAre /\ mutex \in [Mutex -> MutexType]
    BY <1>1, <1>2, RunsFree, TypedParts DEF Inv, Typed
<1>6. /\ HistoryTyped'
      /\ \A u \in Thread, k \in Mutex : held'[u][k] = held[u][k] - Bit(u = p /\ k = m)
    BY <1>2, <1>5 DEF HistoryTyped, Bit
<1>7. QueuesTyped' /\ WaitsAre'
    BY <1>2, <1>3, <1>5, WaitsReadNext DEF QueuesTyped
<1>8. Typed'
    BY <1>2, <1>4, <1>6, <1>7, Frames, TypedParts, TypedPartsNext DEF Inv
<1>9. Balanced(mutex, waiters)'
    <2> SUFFICES ASSUME NEW u \in Thread, NEW k \in Mutex
                 PROVE  held'[u][k] = Asked(mutex', u, k) + Bit(Sleeps(waiters', u, k))
        BY DEF Balanced
    <2>1. held[u][k] = Asked(mutex, u, k) + Bit(Sleeps(waiters', u, k))
        BY <1>2 DEF Inv, Balanced
    <2>2. Asked(mutex, u, k) \in Nat
        BY <1>5, AskedNat
    <2> QED BY <1>3, <1>6, <2>1, <2>2 DEF Bit
<1>10. ASSUME NEW u \in Thread, u \notin woken PROVE Waits(u)' = Waits(u)
    <2>1. \A k \in Mutex : Spins(mutex', u, k) <=> Spins(mutex, u, k)
        BY <1>3, <1>10
    <2> QED BY <1>2, <1>5, <1>7, <2>1, SameWaits DEF InCond
<1>11. ASSUME NEW u \in woken PROVE Waits(u)' = {}
    <2>1. \A c \in Cond : InCond(u, c)' <=> InCond(u, c)
        BY <1>2 DEF InCond
    <2> QED BY <1>2, <1>3, <1>5, <1>7, <2>1, WaitsLost
<1>12. Queued'
    <2>1. Moved(woken, FALSE, p)
        BY <1>1, <1>2, <1>3, <1>5, <1>10, <1>11, RunsFree DEF Moved
    <2>2. \A t \in Thread : Placed(t)'
        BY <1>2, <1>4, <2>1, Replacing DEF Inv, Queued
    <2> QED BY <1>2, <2>2 DEF Inv, Queued, DistinctWaiters, Distinct
<1> QED BY <1>2, <1>3, <1>4, <1>8, <1>9, <1>12, Frames DEF Inv

LEMMA CondWaitKeeps ==
    ASSUME Inv, UNCHANGED <<program, data>>, NEW c \in Cond, NEW m \in Mutex, CondWait(c, m)
    PROVE  Inv'
<1>1. PICK p, woken : p = current /\ woken = NewOwner(m, mutex[m], p)
    OBVIOUS
<1>2. /\ Running /\ depth = 0 /\ Reschedule(woken, TRUE) /\ held[p][m] > 0
      /\ Becomes(mutex, mutex', m, Unlocked(m, mutex[m], p))
      /\ waiters' = [waiters EXCEPT ![c] = Append(@, <<p, m>>)]
      /\ UNCHANGED <<threads, arrived, joinable, cancelling, held, rounds, joins>>
      /\ UNCHANGED <<pthreads, new_thread_id>>
    BY <1>1 DEF CondWait, Calling, threads, Becomes
<1>3. /\ mutex' \in [Mutex -> MutexType] /\ Sound(mutex)'
      /\ \A u \in Thread, k \in Mutex :
           Asked(mutex', u, k) = Asked(mutex, u, k) - Bit(u = p /\ k = m)
      /\ \A u \in Thread, k \in Mutex :
           Spins(mutex', u, k) <=> Spins(mutex, u, k) /\ u \notin woken
      /\ \A u \in woken : u \in Thread /\ Waits(u) = {<<"mutex", m>>}
      /\ woken \subseteq pthreads \ active /\ p \notin woken
    BY <1>1, <1>2, UnlockEffects
<1>4. /\ Rescheduled(woken, TRUE) /\ ThreadsTyped' /\ SchedTyped' /\ DepthTyped'
      /\ Hardware' /\ Scheduled' /\ Keyed'
    BY <1>2, <1>3, CallKeeps
<1>5. /\ p \in Thread /\ QueuesTyped /\ WaitsAre /\ mutex \in [Mutex -> MutexType] /\ Waits(p) = {}
      /\ \A d \in Cond : ~InCond(p, d)
    BY <1>1, <1>2, RunsFree, TypedParts DEF Inv, Typed
<1>6. /\ waiters[c] \in Seq(Thread \X Mutex) /\ DistinctWaiters(waiters[c])
      /\ waiters' \in [Cond -> Seq(Thread \X Mutex)]
      /\ waiters'[c] = Append(waiters[c], <<p, m>>)
      /\ \A d \in Cond : d # c => waiters'[d] = waiters[d]
    BY <1>2, <1>5 DEF QueuesTyped, Inv, Queued
<1>7. /\ \A x : (\E i \in 1..Len(waiters'[c]) : waiters'[c][i] = x)
                  <=> (\E i \in 1..Len(waiters[c]) : waiters[c][i] = x) \/ x = <<p, m>>
      /\ \A u : InCond(u, c)' <=> InCond(u, c) \/ u = p
      /\ DistinctWaiters(waiters'[c])
    <2>1. PICK w, a : w = waiters[c] /\ a = waiters'[c]
        OBVIOUS
    <2>2. /\ w \in Seq(Thread \X Mutex) /\ p \in Thread /\ DistinctWaiters(w)
          /\ a = Append(w, <<p, m>>) /\ \A i \in 1..Len(w) : w[i][1] # p
        BY <1>5, <1>6, <2>1 DEF InCond
    <2>3. Joined(w, a, p, m)
        BY <2>2, WaitersAppend
    <2> QED BY <2>1, <2>3 DEF InCond, Joined
<1>8. /\ \A u, k : Sleeps(waiters', u, k) <=> Sleeps(waiters, u, k) \/ <<u, k>> = <<p, m>>
      /\ ~Sleeps(waiters, p, m)
    <2>1. ASSUME NEW u, NEW k PROVE Sleeps(waiters', u, k) <=> Sleeps(waiters, u, k) \/ <<u, k>> = <<p, m>>
        <3>1. ASSUME NEW d \in Cond
              PROVE  (\E i \in 1..Len(waiters'[d]) : waiters'[d][i] = <<u, k>>)
                       <=> \/ \E i \in 1..Len(waiters[d]) : waiters[d][i] = <<u, k>>
                           \/ d = c /\ <<u, k>> = <<p, m>>
            BY <1>6, <1>7, ZenonT(60)
        <3> QED BY <3>1 DEF Sleeps
    <2>2. ~Sleeps(waiters, p, m)
        <3>1. <<p, m>>[1] = p
            OBVIOUS
        <3> QED BY <1>5, <3>1 DEF Sleeps, InCond
    <2> QED BY <2>1, <2>2
<1>9. QueuesTyped' /\ WaitsAre'
    BY <1>2, <1>3, <1>5, <1>6, WaitsReadNext DEF QueuesTyped
<1>10. Typed'
    BY <1>2, <1>4, <1>9, Frames, TypedParts, TypedPartsNext DEF Inv
<1>11. Balanced(mutex, waiters)'
    <2> SUFFICES ASSUME NEW u \in Thread, NEW k \in Mutex
                 PROVE  held'[u][k] = Asked(mutex', u, k) + Bit(Sleeps(waiters', u, k))
        BY DEF Balanced
    <2>1. held'[u][k] = Asked(mutex, u, k) + Bit(Sleeps(waiters, u, k))
        BY <1>2 DEF Inv, Balanced
    <2>2. Asked(mutex, u, k) \in Nat
        BY <1>5, AskedNat
    <2>3. CASE u = p /\ k = m
        <3>1. Sleeps(waiters', u, k) /\ ~Sleeps(waiters, u, k)
            BY <1>8, <2>3
        <3>2. Asked(mutex', u, k) = Asked(mutex, u, k) - 1
            BY <1>3, <2>3 DEF Bit
        <3> QED BY <2>1, <2>2, <3>1, <3>2 DEF Bit
    <2>4. CASE ~(u = p /\ k = m)
        <3>1. Sleeps(waiters', u, k) <=> Sleeps(waiters, u, k)
            BY <1>8, <2>4
        <3>2. Asked(mutex', u, k) = Asked(mutex, u, k)
            BY <1>3, <2>2, <2>4 DEF Bit
        <3> QED BY <2>1, <3>1, <3>2 DEF Bit
    <2> QED BY <2>3, <2>4
<1>12. \A u : u # p => \A d \in Cond : InCond(u, d)' <=> InCond(u, d)
    <2>1. \A u : \A d \in Cond : d # c => (InCond(u, d)' <=> InCond(u, d))
        BY <1>6 DEF InCond
    <2> QED BY <1>7, <2>1
<1>13. ASSUME NEW u \in Thread, u \notin woken, u # p PROVE Waits(u)' = Waits(u)
    <2>1. \A k \in Mutex : Spins(mutex', u, k) <=> Spins(mutex, u, k)
        BY <1>3, <1>13
    <2> QED BY <1>2, <1>5, <1>9, <1>12, <1>13, <2>1, SameWaits
<1>14. ASSUME NEW u \in woken PROVE Waits(u)' = {}
    BY <1>2, <1>3, <1>5, <1>9, <1>12, WaitsLost
<1>15. Waits(p)' = {<<"cond", c>>}
    <2>1. /\ \A k \in Mutex : ~Spins(mutex', p, k)
          /\ \A b \in Barrier : p \notin ToSet(arrived[b])'
          /\ \A u \in Thread : joinable'[u].joiner # p
        BY <1>1, <1>2, <1>3, RunsFree
    <2>2. \A d \in Cond : InCond(p, d)' <=> d = c
        BY <1>5, <1>6, <1>7 DEF InCond
    <2>3. \A x : x \in Waits(p)' <=> x = <<"cond", c>>
        BY <1>9, <2>1, <2>2, WaitsAsleep
    <2> QED BY <2>3
<1>16. Queued'
    <2>1. Moved(woken, TRUE, p)
        BY <1>1, <1>3, <1>13, <1>14, <1>15 DEF Moved
    <2>2. \A t \in Thread : Placed(t)'
        BY <1>2, <1>4, <2>1, Replacing DEF Inv, Queued
    <2>3. \A d \in Cond : DistinctWaiters(waiters'[d])
        BY <1>6, <1>7 DEF Inv, Queued
    <2> QED BY <1>2, <2>2, <2>3 DEF Inv, Queued, Distinct
<1> QED BY <1>2, <1>3, <1>4, <1>10, <1>11, <1>16, Frames DEF Inv

\* The users of a barrier after thread p called wait for it: those that wait, with p, are at
\* most the barrier's participants, and all of them if there are as many.
LEMMA BarrierUsers ==
    ASSUME Inv, NEW b \in Barrier, NEW p \in Thread, p \notin ToSet(arrived[b]),
           rounds' = [rounds EXCEPT ![p][b] = @ + 1], Shared(b)',
           NEW r \in 0..MaxRounds, AfterRounds(b, r)
    PROVE  /\ rounds[p][b] = r
           /\ Len(arrived[b]) + 1 = num_participants[b] =>
                /\ Cardinality(ToSet(arrived[b]) \cup {p}) = num_participants[b]
                /\ \A u \in Thread : rounds'[u][b] > 0 => u \in ToSet(arrived[b]) \cup {p}
<1>1. /\ \A u \in Thread : rounds[u][b] \in Nat /\ rounds'[u][b] \in Nat
      /\ \A u \in Thread : rounds'[u][b] = IF u = p THEN rounds[u][b] + 1 ELSE rounds[u][b]
      /\ num_participants[b] \in Nat /\ r \in Nat
    BY TypedParts, PthreadSimAssumption DEF Inv, HistoryTyped
<1> DEFINE users == {u \in Thread : rounds[u][b] > 0}
           now == {u \in Thread : rounds'[u][b] > 0}
           n == num_participants[b]
<1>2. /\ IsFiniteSet(users) /\ IsFiniteSet(now) /\ users \subseteq now /\ p \in now
      /\ Cardinality(now) \in Nat /\ Cardinality(users) \in Nat /\ Cardinality(now) <= n
    <2>1. users \in SUBSET Thread /\ now \in SUBSET Thread
        OBVIOUS
    <2>2. users \subseteq now /\ p \in now
        BY <1>1
    <2>3. Cardinality(now) <= n
        BY DEF Shared
    <2> HIDE DEF users, now
    <2> QED BY <2>1, <2>2, <2>3, ThreadSets
<1>3. rounds[p][b] = r
    <2> SUFFICES ASSUME rounds[p][b] = 0, r > 0 PROVE FALSE
        BY <1>1 DEF AfterRounds
    <2> DEFINE old == {u \in Thread : rounds[u][b] >= r}
    <2>1. old \subseteq users /\ Cardinality(old) >= n /\ p \notin users
        BY <1>1 DEF AfterRounds
    <2>2. Cardinality(old) \in Nat /\ Cardinality(old) <= Cardinality(users)
        BY <1>2, <2>1, FS_Subset, FS_CardinalityType
    <2>3. users \cup {p} \subseteq now
        BY <1>2
    <2> HIDE DEF users, now, old
    <2>4. Cardinality(users \cup {p}) = Cardinality(users) + 1
        BY <1>2, <2>1, FS_AddElement
    <2>5. Cardinality(users \cup {p}) <= Cardinality(now)
        BY <1>2, <2>3, FS_Subset
    <2> QED BY <1>1, <1>2, <2>1, <2>2, <2>4, <2>5
<1>4. ASSUME Len(arrived[b]) + 1 = n
      PROVE  /\ Cardinality(ToSet(arrived[b]) \cup {p}) = n
             /\ \A u \in Thread : rounds'[u][b] > 0 => u \in ToSet(arrived[b]) \cup {p}
    <2>1. arrived[b] \in Seq(Thread) /\ Distinct(arrived[b])
        BY TypedParts DEF Inv, QueuesTyped, Queued
    <2>2. /\ IsFiniteSet(ToSet(arrived[b])) /\ Cardinality(ToSet(arrived[b])) = Len(arrived[b])
          /\ ToSet(arrived[b]) \subseteq Thread
        BY <2>1, QueueLength, QueueMembers
    <2> DEFINE all == ToSet(arrived[b]) \cup {p}
    <2>3. Cardinality(all) = n
        BY <1>4, <2>2, FS_AddElement
    <2>4. all \subseteq now
        BY <1>1, <1>2, <2>2 DEF AfterRounds
    <2>5. all = now
        <3> HIDE DEF all, now
        <3> QED BY <1>1, <1>2, <2>3, <2>4, FS_Subset
    <2> QED BY <2>3, <2>5
<1> QED BY <1>3, <1>4

\* The rounds of a barrier stay together, whether the call ends one or not.
LEMMA BarrierRounds ==
    ASSUME Inv, Running, NEW b \in Barrier, NEW p, p = current, rounds[p][b] < MaxRounds,
           arrived' = [arrived EXCEPT ![b] = StillWaiting(b, Append(@, p))],
           rounds' = [rounds EXCEPT ![p][b] = @ + 1]
    PROVE  Barriers'
<1>1. /\ p \in Thread /\ p \notin ToSet(arrived[b]) /\ Barriers
      /\ arrived[b] \in Seq(Thread) /\ Distinct(arrived[b])
    BY RunsFree, TypedParts DEF Inv, QueuesTyped, Queued
<1>2. /\ arrived \in [Barrier -> Seq(Thread)]
      /\ rounds \in [Thread -> [Barrier -> Nat]] /\ rounds' \in [Thread -> [Barrier -> Nat]]
      /\ \A u \in Thread : rounds'[u][b] = IF u = p THEN rounds[u][b] + 1 ELSE rounds[u][b]
      /\ \A u \in Thread : \A d \in Barrier : d # b => rounds'[u][d] = rounds[u][d]
      /\ MaxRounds \in Nat
    BY <1>1, TypedParts, PthreadSimAssumption DEF Inv, HistoryTyped, QueuesTyped
<1>3. /\ \A d \in Barrier : d # b => arrived'[d] = arrived[d]
      /\ arrived'[b] = StillWaiting(b, Append(arrived[b], p))
      /\ num_participants[b] \in Nat \ {0}
    BY <1>2, PthreadSimAssumption
<1>4. /\ Len(Append(arrived[b], p)) = Len(arrived[b]) + 1 /\ Len(arrived[b]) \in Nat
      /\ ToSet(Append(arrived[b], p)) = ToSet(arrived[b]) \cup {p}
    BY <1>1, QueueAppend, AppendProperties
<1>5. ASSUME NEW d \in Barrier, d # b
      PROVE  /\ Len(arrived'[d]) < num_participants[d]
             /\ Shared(d)' => \E r \in 0..MaxRounds : AfterRounds(d, r)'
    <2>1. arrived'[d] = arrived[d] /\ \A u \in Thread : rounds'[u][d] = rounds[u][d]
        BY <1>2, <1>3, <1>5
    <2>2. /\ {u \in Thread : rounds'[u][d] > 0} = {u \in Thread : rounds[u][d] > 0}
          /\ \A r : {u \in Thread : rounds'[u][d] >= r} = {u \in Thread : rounds[u][d] >= r}
        BY <2>1
    <2>3. Shared(d)' <=> Shared(d)
        BY <2>2 DEF Shared
    <2>4. ASSUME NEW r PROVE AfterRounds(d, r)' <=> AfterRounds(d, r)
        <3>1. {u \in Thread : rounds'[u][d] >= r} = {u \in Thread : rounds[u][d] >= r}
            BY <2>2
        <3> QED BY <2>1, <3>1 DEF AfterRounds
    <2> QED BY <1>1, <2>1, <2>3, <2>4 DEF Barriers
<1>6. Len(arrived'[b]) < num_participants[b]
    <2>1. Len(arrived[b]) < num_participants[b]
        BY <1>1 DEF Barriers
    <2> QED BY <1>3, <1>4, <2>1 DEF StillWaiting, Complete
<1>7. ASSUME Shared(b)' PROVE \E r \in 0..MaxRounds : AfterRounds(b, r)'
    <2>1. Shared(b)
        <3> DEFINE users == {u \in Thread : rounds[u][b] > 0}
                   now == {u \in Thread : rounds'[u][b] > 0}
        <3>1. users \subseteq now /\ users \in SUBSET Thread /\ now \in SUBSET Thread
            BY <1>1, <1>2
        <3>2. Cardinality(now) <= num_participants[b]
            BY <1>7 DEF Shared
        <3> HIDE DEF users, now
        <3>3. Cardinality(users) <= Cardinality(now) /\ Cardinality(users) \in Nat /\ Cardinality(now) \in Nat
            BY <3>1, FS_Subset, ThreadSets
        <3>4. Cardinality(users) <= num_participants[b]
            BY <1>3, <3>2, <3>3
        <3> QED BY <3>4 DEF users, Shared
    <2>2. PICK r \in 0..MaxRounds : AfterRounds(b, r)
        BY <1>1, <2>1 DEF Barriers
    <2>3. /\ rounds[p][b] = r
          /\ Len(arrived[b]) + 1 = num_participants[b] =>
                /\ Cardinality(ToSet(arrived[b]) \cup {p}) = num_participants[b]
                /\ \A u \in Thread : rounds'[u][b] > 0 => u \in ToSet(arrived[b]) \cup {p}
        BY <1>1, <1>7, <2>2, BarrierUsers
    <2>4. CASE Len(arrived[b]) + 1 # num_participants[b]
        <3>1. ToSet(arrived'[b]) = ToSet(arrived[b]) \cup {p}
            BY <1>3, <1>4, <2>4 DEF StillWaiting, Complete
        <3>2. \A u \in Thread : IF u \in ToSet(arrived'[b]) THEN rounds'[u][b] = r + 1
                                ELSE rounds'[u][b] \in {0, r}
            BY <1>1, <1>2, <2>2, <2>3, <3>1 DEF AfterRounds
        <3>3. r > 0 => Cardinality({u \in Thread : rounds'[u][b] >= r}) >= num_participants[b]
            <4> DEFINE old == {u \in Thread : rounds[u][b] >= r}
                       now == {u \in Thread : rounds'[u][b] >= r}
            <4>1. old \subseteq now /\ old \in SUBSET Thread /\ now \in SUBSET Thread
                BY <1>1, <1>2
            <4>2. r > 0 => Cardinality(old) >= num_participants[b]
                BY <2>2 DEF AfterRounds
            <4> HIDE DEF old, now
            <4>3. Cardinality(old) <= Cardinality(now) /\ Cardinality(old) \in Nat /\ Cardinality(now) \in Nat
                BY <4>1, FS_Subset, ThreadSets
            <4>4. r > 0 => Cardinality(now) >= num_participants[b]
                BY <1>3, <4>2, <4>3
            <4> QED BY <4>4 DEF now
        <3>4. AfterRounds(b, r)'
            BY <3>2, <3>3 DEF AfterRounds
        <3> QED BY <3>4
    <2>5. CASE Len(arrived[b]) + 1 = num_participants[b]
        <3>1. arrived'[b] = <<>> /\ \A u : u \notin ToSet(arrived'[b])
            <4>1. arrived'[b] = <<>>
                BY <1>3, <1>4, <2>5 DEF StillWaiting, Complete
            <4> QED BY <4>1 DEF ToSet
        <3>2. r + 1 \in 0..MaxRounds
            BY <1>2, <2>3
        <3>3. \A u \in Thread : rounds'[u][b] \in {0, r + 1}
            BY <1>1, <1>2, <2>2, <2>3, <2>5 DEF AfterRounds
        <3>4. Cardinality({u \in Thread : rounds'[u][b] >= r + 1}) >= num_participants[b]
            <4> DEFINE all == ToSet(arrived[b]) \cup {p}
                       now == {u \in Thread : rounds'[u][b] >= r + 1}
            <4>1. all \subseteq now /\ now \in SUBSET Thread
                <5>1. ToSet(arrived[b]) \subseteq Thread
                    BY <1>1, QueueMembers
                <5> QED BY <1>1, <1>2, <2>2, <2>3, <5>1 DEF AfterRounds
            <4>2. Cardinality(all) = num_participants[b]
                BY <2>3, <2>5
            <4> HIDE DEF all, now
            <4>3. Cardinality(all) <= Cardinality(now)
                BY <4>1, FS_Subset, ThreadSets
            <4>4. Cardinality(now) >= num_participants[b]
                BY <4>2, <4>3
            <4> QED BY <4>4 DEF now
        <3>5. AfterRounds(b, r + 1)'
            BY <3>1, <3>3, <3>4 DEF AfterRounds
        <3> QED BY <3>2, <3>5
    <2> QED BY <2>4, <2>5
<1> QED BY <1>5, <1>6, <1>7 DEF Barriers

LEMMA BarrierWaitKeeps ==
    ASSUME Inv, UNCHANGED <<program, data>>, NEW b \in Barrier, BarrierWait(b) PROVE Inv'
<1>1. PICK p, queue, woken, blocks :
        /\ p = current /\ queue = Append(arrived[b], p) /\ blocks = ~Complete(b, queue)
        /\ woken = IF blocks THEN {} ELSE ToSet(arrived[b])
    OBVIOUS
<1>2. /\ Running /\ depth = 0 /\ Reschedule(woken, blocks) /\ blocks \in BOOLEAN
      /\ rounds[p][b] < MaxRounds /\ rounds' = [rounds EXCEPT ![p][b] = @ + 1]
      /\ arrived' = [arrived EXCEPT ![b] = StillWaiting(b, queue)]
      /\ UNCHANGED <<threads, mutex, waiters, joinable, cancelling, held, joins>>
      /\ UNCHANGED <<pthreads, new_thread_id>>
    BY <1>1 DEF BarrierWait, Calling, threads, Complete
<1>3. /\ p \in Thread /\ p \in active /\ p \notin ToSet(arrived[b]) /\ WaitsAre
      /\ QueuesTyped /\ HistoryTyped /\ Distinct(arrived[b]) /\ arrived[b] \in Seq(Thread)
    BY <1>1, <1>2, RunsFree, TypedParts DEF Inv, QueuesTyped, Queued
<1>4. /\ queue \in Seq(Thread) /\ ToSet(queue) = ToSet(arrived[b]) \cup {p} /\ Distinct(queue)
      /\ arrived'[b] = IF blocks THEN queue ELSE <<>>
      /\ \A d \in Barrier : d # b => arrived'[d] = arrived[d]
      /\ arrived' \in [Barrier -> Seq(Thread)]
    <2>1. queue \in Seq(Thread) /\ ToSet(queue) = ToSet(arrived[b]) \cup {p} /\ Distinct(queue)
        BY <1>1, <1>3, QueueAppend
    <2>2. StillWaiting(b, queue) = IF blocks THEN queue ELSE <<>>
        BY <1>1 DEF StillWaiting
    <2>3. StillWaiting(b, queue) \in Seq(Thread)
        BY <2>1, <2>2
    <2>4. arrived \in [Barrier -> Seq(Thread)]
        BY <1>3 DEF QueuesTyped
    <2> QED BY <1>2, <2>1, <2>2, <2>3, <2>4
<1>5. \A u : u \in ToSet(arrived'[b]) <=> blocks /\ (u = p \/ u \in ToSet(arrived[b]))
    <2>1. \A u : u \notin ToSet(<<>>)
        BY DEF ToSet
    <2> QED BY <1>4, <2>1
<1>6. Barriers'
    BY <1>1, <1>2, BarrierRounds
<1>7. QueuesTyped' /\ HistoryTyped' /\ WaitsAre'
    BY <1>2, <1>3, <1>4, WaitsReadNext DEF QueuesTyped, HistoryTyped
<1>8. ASSUME NEW u \in ToSet(arrived[b]) PROVE u \in pthreads \ active /\ Waits(u) = {<<"barrier", b>>}
    <2>1. u \in Thread /\ <<"barrier", b>> \in Waits(u)
        BY <1>3, <1>8, QueueMembers DEF WaitsAre
    <2>2. Placed(u)
        BY <2>1 DEF Inv, Queued
    <2> QED BY <2>1, <2>2 DEF Placed
<1>9. woken \subseteq pthreads \ active /\ p \notin woken
    BY <1>1, <1>3, <1>8
<1>10. /\ Rescheduled(woken, blocks) /\ ThreadsTyped' /\ SchedTyped' /\ DepthTyped'
       /\ Hardware' /\ Scheduled' /\ Keyed'
    BY <1>2, <1>9, CallKeeps
<1>11. Typed'
    BY <1>2, <1>7, <1>10, Frames, TypedParts, TypedPartsNext DEF Inv
<1>12. \A u : /\ \A k \in Mutex : Spins(mutex', u, k) <=> Spins(mutex, u, k)
              /\ \A c \in Cond : InCond(u, c)' <=> InCond(u, c)
              /\ \A v \in Thread : joinable[v].joiner' = u <=> joinable[v].joiner = u
    BY <1>2 DEF InCond
<1>13. ASSUME NEW u \in Thread \ (woken \cup {p}) PROVE Waits(u)' = Waits(u)
    <2>1. \A d \in Barrier : u \in ToSet(arrived[d])' <=> u \in ToSet(arrived[d])
        BY <1>1, <1>4, <1>5, <1>13
    <2> QED BY <1>3, <1>7, <1>12, <2>1, SameWaits
<1>14. ASSUME NEW u \in woken PROVE Waits(u)' = {}
    <2>1. ~blocks /\ u \in ToSet(arrived[b]) /\ Waits(u) = {<<"barrier", b>>}
        BY <1>1, <1>8, <1>14
    <2>2. \A d \in Barrier : u \notin ToSet(arrived'[d])
        <3>1. \A d \in Barrier : u \in ToSet(arrived[d]) => <<"barrier", d>> \in Waits(u)
            BY <1>3, Zenon DEF WaitsAre
        <3> QED BY <1>4, <1>5, <2>1, <3>1
    <2> QED BY <1>3, <1>7, <1>12, <2>1, <2>2, WaitsPassed
<1>15. Waits(p)' = IF blocks THEN {<<"barrier", b>>} ELSE {}
    <2>1. /\ \A d \in Barrier : p \in ToSet(arrived'[d]) <=> d = b /\ blocks
          /\ \A k \in Mutex : ~Spins(mutex', p, k)
          /\ \A c \in Cond : ~InCond(p, c)'
          /\ \A v \in Thread : joinable[v].joiner' # p
        BY <1>1, <1>2, <1>4, <1>5, <1>12, RunsFree
    <2>2. \A x : x \in Waits(p)' <=> x = <<"barrier", b>> /\ blocks
        BY <1>7, <2>1, WaitsThere
    <2> QED BY <2>2
<1>16. Queued'
    <2>1. Moved(woken, blocks, p)
        BY <1>1, <1>2, <1>9, <1>13, <1>14, <1>15 DEF Moved
    <2>2. \A t \in Thread : Placed(t)'
        BY <1>2, <1>10, <2>1, Replacing DEF Inv, Queued
    <2>3. \A d \in Barrier : Distinct(arrived'[d])
        BY <1>4 DEF Inv, Queued, Distinct
    <2> QED BY <1>2, <2>2, <2>3 DEF Inv, Queued, DistinctWaiters
<1> QED BY <1>2, <1>6, <1>10, <1>11, <1>16, Frames DEF Inv

\* What a thread keeps changes without the scheduler, which only asks who allocates.
LEMMA KeysKeep ==
    ASSUME Keyed, UNCHANGED pthreads,
           \/ KeyCreate
           \/ \E k \in 0..newkey : KeyDelete(k) \/ \E d \in Data : SetSpecific(current, k, d)
    PROVE  Keyed' /\ UNCHANGED malloc
<1>1. /\ newkey \in Nat \ {0} /\ destr \subseteq 1..newkey-1
      /\ DOMAIN tls = pthreads /\ \A t \in pthreads : DOMAIN tls[t] \ {0} = destr
    BY DEF Keyed, KeysAgree
<1>2. CASE KeyCreate
    <2>1. CASE Cardinality(DOMAIN tls) >= PTHREAD_KEYS_MAX
        BY <1>1, <1>2, <2>1 DEF KeyCreate, Keyed, KeysAgree
    <2>2. CASE ~(Cardinality(DOMAIN tls) >= PTHREAD_KEYS_MAX)
        <3>1. /\ newkey' = newkey + 1 /\ destr' = destr \cup {newkey} /\ newkey # 0
              /\ DOMAIN tls' = pthreads
              /\ \A u \in pthreads : DOMAIN tls'[u] = DOMAIN tls[u] \cup {newkey}
            <4>1. /\ newkey' = newkey + 1 /\ destr' = destr \cup {newkey}
                  /\ tls' = [u \in DOMAIN tls |->
                         [k \in DOMAIN tls[u] \cup {newkey} |-> IF k = newkey THEN NULL ELSE tls[u][k]]]
                BY <1>2, <2>2 DEF KeyCreate
            <4>2. DOMAIN tls' = pthreads
                BY <1>1, <4>1
            <4>3. \A u \in pthreads : DOMAIN tls'[u] = DOMAIN tls[u] \cup {newkey}
                BY <1>1, <4>1
            <4> QED BY <1>1, <4>1, <4>2, <4>3
        <3>2. \A u \in pthreads : DOMAIN tls'[u] \ {0} = destr'
            BY <1>1, <3>1
        <3> QED BY <1>1, <1>2, <3>1, <3>2 DEF Keyed, KeysAgree, KeyCreate
    <2> QED BY <2>1, <2>2
<1>3. ASSUME NEW k \in 0..newkey, KeyDelete(k) PROVE Keyed' /\ UNCHANGED malloc
    <2>1. /\ newkey' = newkey /\ destr' = destr \ {k} /\ DOMAIN tls' = pthreads
          /\ \A u \in pthreads : DOMAIN tls'[u] = DOMAIN tls[u] \ {k}
        BY <1>1, <1>3 DEF KeyDelete, Restrict
    <2>2. \A u \in pthreads : DOMAIN tls'[u] \ {0} = destr'
        BY <1>1, <2>1
    <2> QED BY <1>1, <1>3, <2>1, <2>2 DEF Keyed, KeysAgree, KeyDelete
<1>4. ASSUME NEW k \in 0..newkey, NEW d \in Data, SetSpecific(current, k, d)
      PROVE  Keyed' /\ UNCHANGED malloc
    <2>1. /\ newkey' = newkey /\ destr' = destr /\ DOMAIN tls' = pthreads
          /\ k \in DOMAIN tls[current] \cup {0}
          /\ \A u \in pthreads : DOMAIN tls'[u] = IF u = current THEN DOMAIN tls[u] \cup {k} ELSE DOMAIN tls[u]
        BY <1>1, <1>4 DEF SetSpecific
    <2>2. \A u \in pthreads : DOMAIN tls'[u] \ {0} = destr'
        BY <1>1, <2>1
    <2> QED BY <1>1, <1>4, <2>1, <2>2 DEF Keyed, KeysAgree, SetSpecific
<1> QED BY <1>2, <1>3, <1>4

LEMMA OwnDataKeeps ==
    ASSUME Inv, UNCHANGED program, OwnData,
           UNCHANGED <<threads, mutex, waiters, arrived, joinable, cancelling, held, rounds, joins>>
    PROVE  Inv'
<1>1. UNCHANGED <<pthreads, new_thread_id>>
    BY DEF threads
<1>2. /\ UNCHANGED <<active, nactive, current, hactive>> /\ aborted' = aborted
      /\ Keyed' /\ DepthTyped' /\ (depth' > 0 => current' = allocating')
    <2>1. /\ Keyed /\ aborted = FALSE /\ (depth > 0 => current = allocating) /\ depth \in Nat
        <3>1. Running
            BY DEF OwnData, Calling, Allocate
        <3> QED BY <3>1, TypedParts DEF Running, Inv, Scheduled, DepthTyped, SchedTyped
    <2>2. CASE Allocate
        <3>1. UNCHANGED keys /\ UNCHANGED <<active, nactive, current, hactive>> /\ aborted' = aborted
            <4>1. aborted' = (depth > 0 /\ current # allocating)
                BY <2>2 DEF Allocate
            <4>2. aborted' = aborted
                BY <2>1, <4>1
            <4> QED BY <2>2, <4>2 DEF Allocate, AnalyzeCall, AnalyzeReturn
        <3>2. depth' \in Nat /\ (depth' > 0 => current' = allocating')
            BY <2>1, <2>2, <3>1 DEF Allocate, AnalyzeCall, AnalyzeReturn
        <3> QED BY <1>1, <2>1, <3>1, <3>2, Frames DEF DepthTyped
    <2>3. CASE UNCHANGED sched /\ UNCHANGED malloc /\ Keyed'
        BY <2>1, <2>3 DEF sched, malloc, DepthTyped
    <2>4. ASSUME \/ KeyCreate
                 \/ \E k \in 0..newkey : KeyDelete(k) \/ \E d \in Data : SetSpecific(current, k, d)
          PROVE  Keyed' /\ UNCHANGED malloc
        BY <1>1, <2>1, <2>4, KeysKeep
    <2>5. ASSUME \/ CleanupPop(current) \/ \E h \in Handler : CleanupPush(current, h)
                 \/ \E o \in Once : PthreadOnce(o)
          PROVE  Keyed' /\ UNCHANGED malloc
        <3>1. UNCHANGED <<keys, malloc>>
            BY <2>5 DEF CleanupPop, CleanupPush, PthreadOnce
        <3> QED BY <1>1, <2>1, <3>1, Frames
    <2> QED BY <2>2, <2>3, <2>4, <2>5 DEF OwnData
<1>3. SchedTyped'
    BY <1>1, <1>2, TypedParts DEF Inv, SchedTyped
<1>4. Typed'
    BY <1>2, <1>3, Frames, TypedParts, TypedPartsNext DEF Inv
<1>5. Scheduled' /\ hactive' = active'
    BY <1>2 DEF Scheduled, NactiveCountsActive, Inv, Hardware
<1> QED BY <1>1, <1>2, <1>4, <1>5, Frames DEF Inv

\* A new thread is not joined, and has not ended.
LEMMA Fresh ==
    /\ Joinable \in [joinable : BOOLEAN, done : BOOLEAN, joiner : Thread \cup {Nobody}]
    /\ Detached \in [joinable : BOOLEAN, done : BOOLEAN, joiner : Thread \cup {Nobody}]
    /\ Joinable.joiner = Nobody /\ ~Joinable.done /\ Joinable.joinable
    /\ Detached.joiner = Nobody /\ ~Detached.done /\ ~Detached.joinable
<1>1. /\ Detached \in [joinable : BOOLEAN, done : BOOLEAN, joiner : Thread \cup {Nobody}]
      /\ Detached.joiner = Nobody /\ ~Detached.done /\ ~Detached.joinable
    BY DEF Detached
<1>2. ASSUME NEW x \in [joinable : BOOLEAN, done : BOOLEAN, joiner : Thread \cup {Nobody}]
      PROVE  /\ [x EXCEPT !.joinable = TRUE] \in [joinable : BOOLEAN, done : BOOLEAN, joiner : Thread \cup {Nobody}]
             /\ [x EXCEPT !.joinable = TRUE].joiner = x.joiner
             /\ [x EXCEPT !.joinable = TRUE].done = x.done
             /\ [x EXCEPT !.joinable = TRUE].joinable
    OBVIOUS
<1>3. /\ Joinable \in [joinable : BOOLEAN, done : BOOLEAN, joiner : Thread \cup {Nobody}]
      /\ Joinable.joiner = Nobody /\ ~Joinable.done /\ Joinable.joinable
    BY <1>1, <1>2 DEF Joinable
<1> QED BY <1>1, <1>3

\* A thread is made: it has the next number, and that of the next hardware thread.
LEMMA CreateKeeps ==
    ASSUME Inv, UNCHANGED program, Usual, Create PROVE Inv'
<1>1. PICK t, j : t = new_thread_id /\ j \in {Joinable, Detached} /\ joinable' = [joinable EXCEPT ![t] = j]
    BY DEF Create
<1>2. /\ Running /\ depth = 0 /\ t < MaxThreads /\ Cardinality(pthreads) = t
      /\ new_thread_id' = t + 1 /\ pthreads' = pthreads \cup {t} /\ active' = active \cup {t}
      /\ nactive' = (nactive + 1) % (MaxUint + 1) /\ hactive' = hactive \cup {t}
      /\ hth_to_pth' = [hth_to_pth EXCEPT ![t] = t] /\ pth_to_hth' = [pth_to_hth EXCEPT ![t] = t]
      /\ AddThread(t)
      /\ UNCHANGED <<newkey, destr, handlers, done, malloc>>
      /\ UNCHANGED <<current, aborted, mutex, waiters, arrived, cancelling, held, rounds, joins>>
    BY <1>1 DEF Create, Usual, Hthread
<1>3. /\ t \in Thread /\ t \in Nat /\ t > 0 /\ MaxThreads \in Nat
      /\ pthreads \subseteq 0..t-1 /\ t \notin pthreads /\ active \subseteq pthreads
      /\ Thread = 0..MaxThreads-1 /\ Nobody \notin Thread /\ pthreads \subseteq Thread
    BY <1>1, <1>2, TypedParts, ThreadSets, SMTT(60) DEF Inv, ThreadsTyped, SchedTyped, Hardware, Thread
<1>4. ThreadsTyped' /\ Hardware'
    BY <1>1, <1>2, <1>3, TypedParts, SMTT(60) DEF Inv, ThreadsTyped, Hardware
<1>5. nactive' = Cardinality(active') /\ nactive' \in 0..MaxUint
    <2>1. /\ IsFiniteSet(active) /\ nactive = Cardinality(active) /\ nactive \in Nat
          /\ nactive <= MaxThreads /\ MaxThreads < MaxUint /\ MaxUint \in Nat /\ t \notin active
        BY <1>3, ThreadSets DEF Inv, Scheduled, NactiveCountsActive
    <2>2. Cardinality(active \cup {t}) = nactive + 1
        BY <2>1, FS_AddElement
    <2>3. (nactive + 1) % (MaxUint + 1) = nactive + 1
        <3>1. nactive + 1 \in Nat /\ MaxUint + 1 \in Nat /\ nactive + 1 < MaxUint + 1
            BY <1>3, <2>1
        <3> QED BY <3>1, SmallRemainder
    <2> QED BY <1>2, <2>1, <2>2, <2>3
<1>6. SchedTyped' /\ DepthTyped'
    BY <1>2, <1>3, <1>5, TypedParts DEF Inv, SchedTyped, DepthTyped, malloc
<1>7. /\ joinable[t] = Detached /\ j.joiner = Nobody /\ ~j.done
      /\ Detached.joiner = Nobody
      /\ j \in [joinable : BOOLEAN, done : BOOLEAN, joiner : Thread \cup {Nobody}]
    <2>1. joinable[t] = Detached
        BY <1>1, <1>3 DEF Inv, Joining
    <2>2. j = Joinable \/ j = Detached
        BY <1>1
    <2> QED BY <2>1, <2>2, Fresh
<1>8. /\ JoinableTyped' /\ \A u \in Thread : joinable'[u] = IF u = t THEN j ELSE joinable[u]
    BY <1>1, <1>3, <1>7, TypedParts DEF Inv, JoinableTyped
<1>9. Typed'
    BY <1>2, <1>4, <1>6, <1>8, Frames, TypedParts, TypedPartsNext DEF Inv
<1>10. Scheduled'
    BY <1>2, <1>5 DEF Inv, Scheduled, NactiveCountsActive, Running, malloc
<1>11. Keyed'
    <2>1. /\ newkey \in Nat \ {0} /\ destr \subseteq 1..newkey-1
          /\ DOMAIN tls = pthreads /\ \A u \in pthreads : DOMAIN tls[u] \ {0} = destr
        BY DEF Inv, Keyed, KeysAgree
    <2>2. /\ DOMAIN tls' = pthreads'
          /\ \A u \in pthreads' : DOMAIN tls'[u] = IF u = t THEN destr ELSE DOMAIN tls[u]
        BY <1>2, <2>1 DEF AddThread, AllKeys
    <2> QED BY <1>2, <2>1, <2>2 DEF Keyed, KeysAgree
<1>12. Joining'
    <2>1. Joining /\ HistoryTyped
        BY TypedParts DEF Inv
    <2> QED BY <1>1, <1>2, <1>3, <1>7, <1>8, <2>1 DEF Joining, HistoryTyped
<1>13. \A u \in Thread : Waits(u)' = Waits(u)
    <2>1. \A u \in Thread : joinable'[u].joiner = joinable[u].joiner
        BY <1>7, <1>8
    <2>2. \A u \in Thread : {v \in Thread : joinable[v].joiner = u}' = {v \in Thread : joinable[v].joiner = u}
        BY <2>1
    <2> QED BY <1>2, <2>2 DEF Waits
<1>14. Queued'
    <2>1. Waits(t) = {}
        BY <1>3 DEF Inv, Queued, Placed
    <2>2. \A u \in Thread : Placed(u)'
        BY <1>2, <1>3, <1>13, <2>1 DEF Inv, Queued, Placed
    <2> QED BY <1>2, <2>2 DEF Inv, Queued, DistinctWaiters, Distinct
<1> QED BY <1>2, <1>4, <1>9, <1>10, <1>11, <1>12, <1>14, Frames DEF Inv

\* Thread t, which can run, ends: who waits to join it runs again, and what the managers
\* keep goes with it.
LEMMA EndKeeps ==
    ASSUME Inv, UNCHANGED program, Running, depth = 0, NEW t \in active, End(t) PROVE Inv'
<1>1. PICK p, woken : p = current /\ woken = Joiner(t)
    OBVIOUS
<1> DEFINE rest == (active \cup woken) \ {t}
           gone == IF woken # {} THEN Detached ELSE [joinable[t] EXCEPT !.done = @ \/ joinable[t].joinable]
<1>2. /\ joinable' = [joinable EXCEPT ![t] = gone] /\ Destroy(t, woken) /\ KillThread(t)
      /\ canceltype' = [canceltype EXCEPT ![t] = "deferred"]
      /\ cancelstate' = [cancelstate EXCEPT ![t] = TRUE] /\ canceled' = [canceled EXCEPT ![t] = FALSE]
      /\ UNCHANGED <<newkey, destr, done, malloc>>
      /\ UNCHANGED <<new_thread_id, pth_to_hth, hth_to_pth, mutex, waiters, arrived, held, rounds, joins>>
    <2>1. joinable' = [joinable EXCEPT ![t] =
                          IF Joiner(t) # {} THEN Detached ELSE [joinable[t] EXCEPT !.done = @ \/ joinable[t].joinable]]
        BY DEF End
    <2>2. joinable' = [joinable EXCEPT ![t] = gone]
        BY <1>1, <2>1
    <2> QED BY <1>1, <2>2 DEF End
<1>3. /\ p \in active /\ t \in pthreads /\ t \in Thread /\ active \subseteq pthreads
      /\ pthreads \subseteq Thread /\ hactive = active /\ WaitsAre /\ Waits(t) = {} /\ Nobody \notin Thread
      /\ JoinableTyped /\ t < new_thread_id /\ pth_to_hth[t] = t
    <2>1. /\ p \in active /\ t \in pthreads /\ t \in Thread /\ active \subseteq pthreads
          /\ pthreads \subseteq Thread /\ hactive = active /\ WaitsAre /\ JoinableTyped
        BY <1>1, Runs, TypedParts, WaitsRead DEF Inv
    <2>2. Waits(t) = {}
        BY <2>1, Alone DEF Inv, Queued
    <2>3. t \in 0..new_thread_id-1
        BY <2>1 DEF Inv, Hardware
    <2>4. t < new_thread_id /\ pth_to_hth[t] = t
        BY <2>3, TypedParts DEF Inv, Hardware, ThreadsTyped
    <2> QED BY <2>1, <2>2, <2>4, ThreadSets
<1>4. /\ \A u \in woken : u \in Thread /\ joinable[t].joiner = u /\ Waits(u) = {<<"join", t>>}
      /\ woken \subseteq pthreads \ active /\ t \notin woken /\ p \notin woken
      /\ woken = {} => joinable[t].joiner = Nobody
    <2>1. ASSUME NEW u \in woken
          PROVE  u \in Thread /\ joinable[t].joiner = u /\ Waits(u) = {<<"join", t>>} /\ u \in pthreads \ active
        <3>1. joinable[t].joiner = u /\ u # Nobody
            BY <1>1, <2>1 DEF Joiner
        <3>2. u \in Thread
            BY <1>3, <3>1 DEF JoinableTyped
        <3>3. <<"join", t>> \in Waits(u)
            BY <1>3, <3>1, Zenon DEF WaitsAre
        <3>4. Placed(u)
            BY <3>2 DEF Inv, Queued
        <3> QED BY <3>1, <3>2, <3>3, <3>4 DEF Placed
    <2>2. woken = {} => joinable[t].joiner = Nobody
        BY <1>1, <1>3 DEF Joiner, Inv, Joining
    <2> QED BY <1>3, <2>1, <2>2
<1>5. /\ gone \in [joinable : BOOLEAN, done : BOOLEAN, joiner : Thread \cup {Nobody}]
      /\ gone.joiner = Nobody /\ (gone.joinable => gone.done)
    <2>1. CASE woken # {}
        BY <2>1, Fresh
    <2>2. CASE woken = {}
        <3>1. /\ joinable[t] \in [joinable : BOOLEAN, done : BOOLEAN, joiner : Thread \cup {Nobody}]
              /\ joinable[t].joiner = Nobody
            BY <1>3, <1>4, <2>2 DEF JoinableTyped
        <3>2. \A x \in [joinable : BOOLEAN, done : BOOLEAN, joiner : Thread \cup {Nobody}] :
                 /\ [x EXCEPT !.done = @ \/ x.joinable] \in [joinable : BOOLEAN, done : BOOLEAN, joiner : Thread \cup {Nobody}]
                 /\ [x EXCEPT !.done = @ \/ x.joinable].joiner = x.joiner
                 /\ [x EXCEPT !.done = @ \/ x.joinable].joinable = x.joinable
                 /\ [x EXCEPT !.done = @ \/ x.joinable].done = (x.done \/ x.joinable)
            OBVIOUS
        <3> QED BY <2>2, <3>1, <3>2
    <2> QED BY <2>1, <2>2
<1> HIDE DEF gone
<1>6. /\ JoinableTyped' /\ \A u \in Thread : joinable'[u] = IF u = t THEN gone ELSE joinable[u]
    BY <1>2, <1>3, <1>5 DEF JoinableTyped
<1>7. /\ pthreads' = pthreads \ {t} /\ active' = rest /\ hactive' = rest /\ aborted' = FALSE
      /\ nactive' = Cardinality(rest)
      /\ IF t = p THEN current' \in PickNext(hactive', hth_to_pth) ELSE current' = p
    <2>1. Count(woken, {t}) = Cardinality(rest)
        <3>1. active \subseteq Thread /\ NactiveCountsActive /\ woken \subseteq Thread \ active
            BY <1>3, <1>4 DEF Inv, Scheduled
        <3>2. \E u \in active : {t} = {u}
            OBVIOUS
        <3> QED BY <3>1, <3>2, Counting
    <2>2. woken \cap pthreads = woken /\ woken \subseteq pthreads \ active
        BY <1>4
    <2> QED BY <1>1, <1>2, <1>3, <2>1, <2>2 DEF Destroy, Stops
<1>8. /\ rest \subseteq pthreads' /\ pthreads' \subseteq pthreads /\ rest \subseteq Thread
      /\ nactive' \in 0..MaxUint
    <2>1. rest \subseteq pthreads' /\ pthreads' \subseteq pthreads /\ rest \subseteq Thread
        BY <1>3, <1>4, <1>7
    <2> QED BY <1>7, <2>1, ThreadSets
<1>9. current' \in rest \cup {Nobody}
    <2>1. CASE t = p
        BY <1>7, <1>8, <2>1, Picking DEF Inv
    <2>2. CASE t # p
        BY <1>3, <1>7, <2>2
    <2> QED BY <2>1, <2>2
<1>10. ThreadsTyped' /\ SchedTyped' /\ DepthTyped' /\ CancelTyped'
    <2>1. ThreadsTyped' /\ DepthTyped'
        BY <1>2, <1>3, <1>7, TypedParts DEF Inv, ThreadsTyped, DepthTyped, malloc
    <2>2. SchedTyped'
        BY <1>7, <1>8, <1>9 DEF SchedTyped
    <2>3. CancelTyped'
        <3>1. CancelTyped
            BY TypedParts DEF Inv
        <3>2. canceltype' \in [Thread -> {"deferred", "asynchronous"}]
            BY <1>2, <3>1 DEF CancelTyped
        <3>3. cancelstate' \in [Thread -> BOOLEAN]
            BY <1>2, <3>1 DEF CancelTyped
        <3>4. canceled' \in [Thread -> BOOLEAN]
            BY <1>2, <3>1 DEF CancelTyped
        <3> QED BY <3>2, <3>3, <3>4 DEF CancelTyped
    <2> QED BY <2>1, <2>2, <2>3
<1>11. Typed'
    BY <1>2, <1>6, <1>10, Frames, TypedParts, TypedPartsNext DEF Inv
<1>12. Hardware' /\ Scheduled'
    <2>1. Hardware'
        BY <1>2, <1>7, <1>8 DEF Inv, Hardware
    <2>2. Scheduled'
        BY <1>2, <1>7, <1>9 DEF Scheduled, NactiveCountsActive, malloc
    <2> QED BY <2>1, <2>2
<1>13. Keyed'
    <2>1. /\ newkey \in Nat \ {0} /\ destr \subseteq 1..newkey-1
          /\ DOMAIN tls = pthreads /\ \A u \in pthreads : DOMAIN tls[u] \ {0} = destr
        BY DEF Inv, Keyed, KeysAgree
    <2>2. tls' = [u \in DOMAIN tls \ {t} |-> tls[u]]
        BY <1>2 DEF KillThread, Restrict
    <2>3. DOMAIN tls' = pthreads' /\ \A u \in pthreads' : tls'[u] = tls[u]
        BY <1>7, <2>1, <2>2
    <2> QED BY <1>2, <1>7, <2>1, <2>3 DEF Keyed, KeysAgree
<1>14. Joining'
    <2>1. Joining /\ \A u \in Thread : joins[u] \subseteq Thread
        BY TypedParts DEF Inv, HistoryTyped
    <2>2. \A u \in Thread : joinable'[u].joiner # Nobody =>
              joinable'[u].joinable /\ ~joinable'[u].done /\ u \in pthreads'
        BY <1>5, <1>6, <1>7, <2>1 DEF Joining
    <2>3. \A u \in Thread : joinable'[u].joinable /\ u \notin pthreads' => joinable'[u].done
        BY <1>5, <1>6, <1>7, <2>1 DEF Joining
    <2>4. \A u \in Thread : joinable'[u].done => u \notin pthreads'
        BY <1>6, <1>7, <2>1 DEF Joining
    <2>5. \A u \in Thread : u >= new_thread_id' => joinable'[u] = Detached
        <3>1. new_thread_id \in Nat /\ t \in Nat
            BY <1>3, ThreadSets, TypedParts DEF Inv, ThreadsTyped, Thread
        <3>2. t < new_thread_id /\ new_thread_id' = new_thread_id
            BY <1>2, <1>3
        <3> QED BY <1>6, <2>1, <3>1, <3>2 DEF Joining
    <2>6. \A u \in Thread : joins'[u] \subseteq 0..new_thread_id'-1
        BY <1>2, <2>1 DEF Joining
    <2>7. \A v \in Thread : \A u \in joins'[v] \cap pthreads' : joinable'[u].joiner = v
        BY <1>2, <1>6, <1>7, <2>1 DEF Joining
    <2> QED BY <2>2, <2>3, <2>4, <2>5, <2>6, <2>7 DEF Joining
<1>15. QueuesTyped' /\ WaitsAre'
    <2>1. QueuesTyped'
        BY <1>2, Frames, TypedParts DEF Inv
    <2> QED BY <2>1, WaitsReadNext
<1>16. \A u : /\ \A k \in Mutex : Spins(mutex', u, k) <=> Spins(mutex, u, k)
              /\ \A c \in Cond : InCond(u, c)' <=> InCond(u, c)
              /\ \A b \in Barrier : u \in ToSet(arrived[b])' <=> u \in ToSet(arrived[b])
    BY <1>2 DEF InCond
<1>17. ASSUME NEW u \in Thread \ woken PROVE Waits(u)' = Waits(u)
    <2>1. \A v \in Thread : joinable[v].joiner' = u <=> joinable[v].joiner = u
        BY <1>1, <1>3, <1>4, <1>5, <1>6, <1>17 DEF Joiner, Inv, Joining
    <2> QED BY <1>3, <1>15, <1>16, <2>1, SameWaits
<1>18. ASSUME NEW u \in woken PROVE Waits(u)' = {}
    <2>1. u \in Thread /\ Waits(u) = {<<"join", t>>}
        BY <1>4
    <2>2. \A v \in Thread : joinable[v].joiner' # u
        <3>1. \A v \in Thread : joinable[v].joiner = u => <<"join", v>> \in Waits(u)
            BY <1>3, Zenon DEF WaitsAre
        <3> QED BY <1>3, <1>5, <1>6, <2>1, <3>1
    <2> QED BY <1>3, <1>15, <1>16, <2>1, <2>2, WaitsJoined
<1>19. Queued'
    <2>1. \A u \in Thread : Placed(u)
        BY DEF Inv, Queued
    <2>2. ASSUME NEW u \in Thread PROVE Placed(u)'
        <3>1. CASE u = t
            <4>1. Waits(u)' = {} /\ u \notin pthreads'
                BY <1>3, <1>4, <1>7, <1>17, <3>1
            <4> QED BY <4>1, Placing
        <3>2. CASE u \in woken
            <4>1. Waits(u)' = {} /\ u \in active'
                BY <1>4, <1>7, <1>18, <3>2
            <4> QED BY <4>1, Placing
        <3>3. CASE u # t /\ u \notin woken
            <4>1. Waits(u)' = Waits(u) /\ (u \in pthreads' <=> u \in pthreads) /\ (u \in active' <=> u \in active)
                BY <1>7, <1>17, <3>3
            <4> QED BY <2>1, <4>1 DEF Placed
        <3> QED BY <3>1, <3>2, <3>3
    <2> QED BY <1>2, <2>2 DEF Inv, Queued, DistinctWaiters, Distinct
<1> QED BY <1>2, <1>11, <1>12, <1>13, <1>14, <1>19, Frames DEF Inv

\* The calls that end a thread, their own or another's.
LEMMA ExitsKeep ==
    ASSUME Inv, UNCHANGED program, Running, depth = 0, Exits PROVE Inv'
BY Runs, EndKeeps DEF Exits

LEMMA KillsKeep ==
    ASSUME Inv, UNCHANGED program, Usual, Running, depth = 0, NEW t \in Thread, Kills(t)
    PROVE  Inv'
<1>1. t \in active /\ End(t)
    BY DEF Kills, Usual
<1> QED BY <1>1, EndKeeps

LEMMA JoinKeeps ==
    ASSUME Inv, UNCHANGED program, NEW t \in Thread, Join(t) PROVE Inv'
<1>1. PICK p : p = current
    OBVIOUS
<1>2. /\ Running /\ depth = 0 /\ t # p /\ joinable[t].joinable /\ joinable[t].joiner = Nobody
    BY <1>1 DEF Join, Calling
<1>3. CASE canceled[current]
    BY <1>2, <1>3, ExitsKeep DEF Join
<1>4. CASE ~canceled[current]
    <2> DEFINE blocks == ~IsDone(t)
    <2>1. PICK j : /\ j = IF blocks THEN [joinable[t] EXCEPT !.joiner = p] ELSE Detached
                   /\ joinable' = [joinable EXCEPT ![t] = j]
        <3>1. CASE IsDone(t)
            BY <1>4, <3>1 DEF Join
        <3>2. CASE ~IsDone(t)
            <4>1. joinable' = [joinable EXCEPT ![t].joiner = p]
                BY <1>1, <1>4, <3>2 DEF Join
            <4> QED BY <3>2, <4>1
        <3> QED BY <3>1, <3>2
    <2>2. /\ Reschedule({}, blocks) /\ blocks \in BOOLEAN
          /\ joins' = [joins EXCEPT ![p] = @ \cup {t}]
          /\ UNCHANGED <<data, threads, mutex, waiters, arrived, cancelling, held, rounds>>
          /\ UNCHANGED <<pthreads, new_thread_id>>
        <3>1. CASE IsDone(t)
            BY <1>1, <1>4, <3>1 DEF Join, threads
        <3>2. CASE ~IsDone(t)
            BY <1>1, <1>4, <3>2 DEF Join, threads
        <3> QED BY <3>1, <3>2
    <2>3. /\ p \in Thread /\ p \in pthreads /\ WaitsAre /\ Waits(p) = {} /\ QueuesTyped
          /\ HistoryTyped /\ JoinableTyped /\ Joining /\ p # Nobody
          /\ \A u \in Thread : joinable[u].joiner # p
        BY <1>1, <1>2, RunsFree, TypedParts, ThreadSets DEF Inv
    <2>4. /\ j \in [joinable : BOOLEAN, done : BOOLEAN, joiner : Thread \cup {Nobody}]
          /\ j.joiner = IF blocks THEN p ELSE Nobody
          /\ blocks => j.joinable /\ ~j.done
          /\ ~blocks => ~j.joinable /\ ~j.done
        <3>1. CASE ~blocks
            BY <2>1, <3>1, Fresh
        <3>2. CASE blocks
            <4>1. /\ joinable[t] \in [joinable : BOOLEAN, done : BOOLEAN, joiner : Thread \cup {Nobody}]
                  /\ joinable[t].joinable /\ ~joinable[t].done
                BY <1>2, <2>3, <3>2 DEF JoinableTyped, IsDone
            <4>2. \A x \in [joinable : BOOLEAN, done : BOOLEAN, joiner : Thread \cup {Nobody}] :
                     /\ [x EXCEPT !.joiner = p] \in [joinable : BOOLEAN, done : BOOLEAN, joiner : Thread \cup {Nobody}]
                     /\ [x EXCEPT !.joiner = p].joiner = p
                     /\ [x EXCEPT !.joiner = p].joinable = x.joinable
                     /\ [x EXCEPT !.joiner = p].done = x.done
                BY <2>3
            <4> QED BY <2>1, <3>2, <4>1, <4>2
        <3> QED BY <3>1, <3>2
    <2>5. /\ JoinableTyped' /\ \A u \in Thread : joinable'[u] = IF u = t THEN j ELSE joinable[u]
        BY <2>1, <2>3, <2>4 DEF JoinableTyped
    <2>6. blocks => t \in pthreads
        BY <1>2, <2>3 DEF Joining, IsDone
    <2>7. ~blocks => t \notin pthreads /\ j = Detached
        BY <2>1, <2>3 DEF Joining, IsDone
    <2>8. t \in 0..new_thread_id-1
        <3>1. joinable[t] # Detached
            BY <1>2, Fresh
        <3>2. t \in Nat /\ new_thread_id \in Nat
            BY ThreadSets, TypedParts DEF Inv, ThreadsTyped, Thread
        <3> QED BY <2>3, <3>1, <3>2 DEF Joining
    <2> HIDE DEF blocks
    <2>9. /\ Rescheduled({}, blocks) /\ ThreadsTyped' /\ SchedTyped' /\ DepthTyped'
          /\ Hardware' /\ Scheduled' /\ Keyed'
        BY <1>2, <2>2, CallKeeps
    <2>10. /\ HistoryTyped'
           /\ \A u \in Thread : joins'[u] = IF u = p THEN joins[u] \cup {t} ELSE joins[u]
        BY <2>2, <2>3 DEF HistoryTyped
    <2>11. Typed'
        BY <2>2, <2>5, <2>9, <2>10, Frames, TypedParts, TypedPartsNext DEF Inv
    <2>12. Joining'
        <3>1. \A u \in Thread : joins[u] \subseteq Thread
            BY <2>3 DEF HistoryTyped
        <3>2. \A u \in Thread : joinable'[u].joiner # Nobody =>
                  joinable'[u].joinable /\ ~joinable'[u].done /\ u \in pthreads'
            BY <2>2, <2>3, <2>4, <2>5, <2>6 DEF Joining
        <3>3. \A u \in Thread : joinable'[u].joinable /\ u \notin pthreads' => joinable'[u].done
            BY <2>2, <2>3, <2>4, <2>5, <2>6 DEF Joining
        <3>4. \A u \in Thread : joinable'[u].done => u \notin pthreads'
            BY <2>2, <2>3, <2>4, <2>5 DEF Joining
        <3>5. \A u \in Thread : u >= new_thread_id' => joinable'[u] = Detached
            <4>1. t \in Nat /\ new_thread_id \in Nat /\ t < new_thread_id
                BY <2>8, TypedParts DEF Inv, ThreadsTyped
            <4> QED BY <2>2, <2>3, <2>5, <4>1 DEF Joining
        <3>6. \A u \in Thread : joins'[u] \subseteq 0..new_thread_id'-1
            BY <2>2, <2>3, <2>8, <2>10 DEF Joining
        <3>7. ASSUME NEW v \in Thread, NEW u \in joins'[v] \cap pthreads' PROVE joinable'[u].joiner = v
            <4>1. u \in Thread /\ u \in pthreads /\ (u \in joins[v] \/ (v = p /\ u = t))
                BY <2>2, <2>10, <3>1, <3>7
            <4>2. u \in joins[v] => joinable[u].joiner = v
                BY <2>3, <4>1 DEF Joining
            <4>3. CASE u = t
                <5>1. v = p
                    BY <1>2, <4>1, <4>2, <4>3, ThreadSets
                <5> QED BY <2>4, <2>5, <2>7, <4>1, <4>3, <5>1
            <4>4. CASE u # t
                BY <2>5, <4>1, <4>2, <4>4
            <4> QED BY <4>3, <4>4
        <3> QED BY <3>2, <3>3, <3>4, <3>5, <3>6, <3>7 DEF Joining
    <2>13. QueuesTyped' /\ WaitsAre'
        <3>1. QueuesTyped'
            BY <2>2, <2>3, Frames
        <3> QED BY <3>1, WaitsReadNext
    <2>14. \A u : /\ \A k \in Mutex : Spins(mutex', u, k) <=> Spins(mutex, u, k)
                  /\ \A c \in Cond : InCond(u, c)' <=> InCond(u, c)
                  /\ \A b \in Barrier : u \in ToSet(arrived[b])' <=> u \in ToSet(arrived[b])
        BY <2>2 DEF InCond
    <2>15. \A u \in Thread : joinable[u].joiner' = p <=> u = t /\ blocks
        BY <2>3, <2>4, <2>5
    <2>16. ASSUME NEW u \in Thread, u # p PROVE Waits(u)' = Waits(u)
        <3>1. \A v \in Thread : joinable[v].joiner' = u <=> joinable[v].joiner = u
            BY <1>2, <2>4, <2>5, <2>16, ThreadSets
        <3> QED BY <2>3, <2>13, <2>14, <3>1, SameWaits
    <2>17. IF blocks THEN Waits(p)' = {<<"join", t>>} ELSE Waits(p)' = {}
        <3>1. CASE ~blocks
            <4>1. \A v \in Thread : joinable[v].joiner' = p <=> joinable[v].joiner = p
                BY <2>3, <2>15, <3>1
            <4>2. Waits(p)' = Waits(p)
                BY <2>3, <2>13, <2>14, <4>1, SameWaits
            <4> QED BY <2>3, <3>1, <4>2
        <3>2. CASE blocks
            <4>1. /\ \A k \in Mutex : ~Spins(mutex', p, k)
                  /\ \A c \in Cond : ~InCond(p, c)'
                  /\ \A b \in Barrier : p \notin ToSet(arrived[b])'
                BY <1>1, <1>2, <2>14, RunsFree
            <4>2. \A u \in Thread : joinable[u].joiner' = p <=> u = t
                BY <2>15, <3>2
            <4> QED BY <2>13, <3>2, <4>1, <4>2, WaitsToJoin
        <3> QED BY <3>1, <3>2
    <2>18. Queued'
        <3>1. Moved({}, blocks, p)
            BY <1>1, <2>16, <2>17 DEF Moved
        <3>2. \A u \in Thread : Placed(u)'
            BY <1>2, <2>2, <2>9, <3>1, Replacing DEF Inv, Queued
        <3> QED BY <2>2, <3>2 DEF Inv, Queued, DistinctWaiters, Distinct
    <2> QED BY <2>2, <2>9, <2>11, <2>12, <2>18, Frames DEF Inv
<1> QED BY <1>3, <1>4

\* The mutexes, and who got them, after each of the waiters that a signal removes.
After(c, n, f) ==
    f = [k \in 0..n |-> IF k = 0 THEN [mutex |-> mutex, woken |-> {}]
                        ELSE Relock(f[k - 1], waiters[c][k])]

LEMMA AfterExists == ASSUME NEW c, NEW n \in Nat PROVE \E f : After(c, n, f)
<1> DEFINE first == [mutex |-> mutex, woken |-> {}]
           T == {k \in Nat : \E f : After(c, k, f)}
<1>1. 0 \in T
    <2> DEFINE f == [k \in 0..0 |-> first]
    <2>1. \A k \in 0..0 : k = 0
        OBVIOUS
    <2>2. f = [k \in 0..0 |-> IF k = 0 THEN first ELSE Relock(f[k - 1], waiters[c][k])]
        BY <2>1, Zenon
    <2>3. After(c, 0, f)
        BY <2>2 DEF After
    <2> HIDE DEF f
    <2> QED BY <2>3
<1>2. ASSUME NEW k \in Nat, k \in T PROVE k + 1 \in T
    <2>1. PICK f : After(c, k, f)
        BY <1>2
    <2> DEFINE g == [i \in 0..k+1 |-> IF i = k + 1 THEN Relock(f[k], waiters[c][k + 1]) ELSE f[i]]
    <2>2. ASSUME NEW i \in 0..k+1
          PROVE  g[i] = IF i = 0 THEN first ELSE Relock(g[i - 1], waiters[c][i])
        <3>1. CASE i = 0
            <4>1. 0 \in 0..k /\ 0 # k + 1
                OBVIOUS
            <4>2. f[0] = first
                BY <2>1, <4>1 DEF After
            <4> QED BY <3>1, <4>1, <4>2
        <3>2. CASE i = k + 1
            <4>1. k \in 0..k+1 /\ k # k + 1 /\ i # 0 /\ i - 1 = k
                BY <3>2
            <4>2. g[k] = f[k]
                BY <4>1
            <4> QED BY <3>2, <4>1, <4>2
        <3>3. CASE i \in 1..k
            <4>1. i \in 0..k /\ i - 1 \in 0..k+1 /\ i # 0 /\ i # k + 1 /\ i - 1 # k + 1
                BY <3>3
            <4>2. f[i] = Relock(f[i - 1], waiters[c][i])
                BY <2>1, <4>1 DEF After
            <4>3. g[i - 1] = f[i - 1] /\ g[i] = f[i]
                BY <4>1
            <4> QED BY <4>1, <4>2, <4>3
        <3> QED BY <3>1, <3>2, <3>3
    <2>3. g = [i \in 0..k+1 |-> g[i]]
        BY Zenon
    <2> HIDE DEF g
    <2>4. g = [i \in 0..k+1 |-> IF i = 0 THEN first ELSE Relock(g[i - 1], waiters[c][i])]
        BY <2>2, <2>3, Zenon
    <2>5. After(c, k + 1, g)
        BY <2>4 DEF After
    <2> QED BY <2>5
<1> HIDE DEF T
<1>3. Nat \subseteq T
    BY <1>1, <1>2, Induction
<1> QED BY <1>3 DEF T

LEMMA RelockedSteps ==
    ASSUME NEW c, NEW n \in Nat
    PROVE  \E f : After(c, n, f) /\ Relocked(c, n) = f[n]
<1> DEFINE f == CHOOSE g : After(c, n, g)
<1>1. After(c, n, f)
    BY AfterExists
<1>2. Relocked(c, n) = f[n]
    BY DEF Relocked, After
<1> HIDE DEF f
<1> QED BY <1>1, <1>2

\* What holds after k of the waiters w were removed: each has asked for its mutex again, and
\* stands in line for it unless it got it.
Among(w, k, u, m) == \E i \in 1..k : w[i] = <<u, m>>

RelocksTo(w, k, M, woken) ==
    /\ M \in [Mutex -> MutexType] /\ Sound(M)
    /\ \A u \in Thread, m \in Mutex : Asked(M, u, m) = Asked(mutex, u, m) + Bit(Among(w, k, u, m))
    /\ \A u \in Thread, m \in Mutex :
         Spins(M, u, m) <=> Spins(mutex, u, m) \/ (Among(w, k, u, m) /\ u \notin woken)
    /\ \A u \in woken : \E i \in 1..k : w[i][1] = u

\* One more waiter, t with mutex m, is removed.
LEMMA RelockOne ==
    ASSUME mutex \in [Mutex -> MutexType],
           NEW w \in Seq(Thread \X Mutex), NEW k \in Nat, k + 1 \in 1..Len(w), DistinctWaiters(w),
           NEW M, NEW woken, RelocksTo(w, k, M, woken),
           NEW t, NEW m, w[k + 1] = <<t, m>>, \A x \in Mutex : ~Spins(mutex, t, x),
           NEW N, Becomes(M, N, m, Locked(m, M[m], t)),
           NEW after, after = IF Blocks(m, M[m], t) THEN woken ELSE woken \cup {t}
    PROVE  RelocksTo(w, k + 1, N, after)
<1>1. /\ t \in Thread /\ m \in Mutex /\ w[k + 1][1] = t /\ Len(w) \in Nat
      /\ M \in [Mutex -> MutexType] /\ Sound(M)
    <2>1. w[k + 1] \in Thread \X Mutex
        OBVIOUS
    <2> QED BY <2>1 DEF RelocksTo
<1>2. \A i \in 1..k : w[i][1] # t /\ i \in 1..Len(w)
    BY <1>1 DEF DistinctWaiters
<1>3. /\ t \notin woken
      /\ \A x \in Mutex : ~Among(w, k, t, x) /\ ~Spins(M, t, x)
    <2>1. t \notin woken
        BY <1>2 DEF RelocksTo
    <2>2. ASSUME NEW x \in Mutex PROVE ~Among(w, k, t, x)
        <3>1. <<t, x>>[1] = t
            OBVIOUS
        <3> QED BY <1>2, <3>1 DEF Among
    <2> QED BY <1>1, <2>1, <2>2 DEF RelocksTo
<1>4. /\ N \in [Mutex -> MutexType] /\ Sound(N)
      /\ \A u \in Thread, x \in Mutex : Asked(N, u, x) = Asked(M, u, x) + Bit(u = t /\ x = m)
      /\ \A u \in Thread, x \in Mutex :
           Spins(N, u, x) <=> Spins(M, u, x) \/ (u = t /\ x = m /\ Blocks(m, M[m], t))
    BY <1>1, <1>3, Locking, SMTT(60)
<1>5. \A u, x : Among(w, k + 1, u, x) <=> Among(w, k, u, x) \/ (u = t /\ x = m)
    <2>1. \A i : i \in 1..k+1 <=> i \in 1..k \/ i = k + 1
        OBVIOUS
    <2>2. \A u, x : w[k + 1] = <<u, x>> <=> u = t /\ x = m
        OBVIOUS
    <2>3. ASSUME NEW u, NEW x
          PROVE  (\E i \in 1..k+1 : w[i] = <<u, x>>)
                    <=> (\E i \in 1..k : w[i] = <<u, x>>) \/ w[k + 1] = <<u, x>>
        BY <2>1
    <2> QED BY <2>2, <2>3 DEF Among
<1>6. ASSUME NEW u \in Thread, NEW x \in Mutex
      PROVE  /\ Asked(N, u, x) = Asked(mutex, u, x) + Bit(Among(w, k + 1, u, x))
             /\ Spins(N, u, x) <=> Spins(mutex, u, x) \/ (Among(w, k + 1, u, x) /\ u \notin after)
    <2>1. /\ Asked(M, u, x) = Asked(mutex, u, x) + Bit(Among(w, k, u, x))
          /\ Spins(M, u, x) <=> Spins(mutex, u, x) \/ (Among(w, k, u, x) /\ u \notin woken)
        BY DEF RelocksTo
    <2>2. Asked(mutex, u, x) \in Nat
        BY AskedNat
    <2>3. Asked(N, u, x) = Asked(mutex, u, x) + Bit(Among(w, k + 1, u, x))
        BY <1>1, <1>3, <1>4, <1>5, <2>1, <2>2 DEF Bit
    <2>4. u \in after <=> u \in woken \/ (u = t /\ ~Blocks(m, M[m], t))
        OBVIOUS
    <2>5. Spins(N, u, x) <=> Spins(mutex, u, x) \/ (Among(w, k + 1, u, x) /\ u \notin after)
        BY <1>1, <1>3, <1>4, <1>5, <2>1, <2>4
    <2> QED BY <2>3, <2>5
<1>7. \A u \in after : \E i \in 1..k+1 : w[i][1] = u
    BY <1>1 DEF RelocksTo
<1> QED BY <1>4, <1>6, <1>7 DEF RelocksTo

\* All of them, by induction.
LEMMA RelockAll ==
    ASSUME mutex \in [Mutex -> MutexType], Sound(mutex), NEW c \in Cond,
           waiters[c] \in Seq(Thread \X Mutex), DistinctWaiters(waiters[c]),
           NEW n \in 0..Len(waiters[c]),
           \A i \in 1..Len(waiters[c]) : \A x \in Mutex : ~Spins(mutex, waiters[c][i][1], x)
    PROVE  RelocksTo(waiters[c], n, Relocked(c, n).mutex, Relocked(c, n).woken)
<1> DEFINE w == waiters[c]
<1>1. n \in Nat /\ Len(w) \in Nat
    OBVIOUS
<1>2. PICK f : After(c, n, f) /\ Relocked(c, n) = f[n]
    BY <1>1, RelockedSteps
<1>3. /\ f[0] = [mutex |-> mutex, woken |-> {}]
      /\ \A k \in Nat : k + 1 \in 0..n => f[k + 1] = Relock(f[k], w[k + 1])
    <2>1. 0 \in 0..n
        BY <1>1
    <2>2. f[0] = [mutex |-> mutex, woken |-> {}]
        BY <1>2, <2>1 DEF After
    <2>3. ASSUME NEW k \in Nat, k + 1 \in 0..n PROVE f[k + 1] = Relock(f[k], w[k + 1])
        <3>1. f[k + 1] = IF k + 1 = 0 THEN [mutex |-> mutex, woken |-> {}]
                         ELSE Relock(f[(k + 1) - 1], w[k + 1])
            BY <1>2, <2>3 DEF After
        <3>2. k + 1 # 0 /\ (k + 1) - 1 = k
            OBVIOUS
        <3> QED BY <3>1, <3>2
    <2> QED BY <2>2, <2>3
<1> DEFINE T == {k \in Nat : k \in 0..n => RelocksTo(w, k, f[k].mutex, f[k].woken)}
<1>4. 0 \in T
    <2>1. f[0].mutex = mutex /\ f[0].woken = {}
        BY <1>3
    <2>2. \A u, m : ~Among(w, 0, u, m)
        BY DEF Among
    <2>3. \A u \in Thread, m \in Mutex : Asked(mutex, u, m) \in Nat
        BY AskedNat
    <2>4. RelocksTo(w, 0, mutex, {})
        BY <2>2, <2>3 DEF RelocksTo, Bit
    <2> QED BY <2>1, <2>4
<1>5. ASSUME NEW k \in Nat, k \in T PROVE k + 1 \in T
    <2> SUFFICES ASSUME k + 1 \in 0..n PROVE RelocksTo(w, k + 1, f[k + 1].mutex, f[k + 1].woken)
        OBVIOUS
    <2>1. k \in 0..n /\ k + 1 \in 1..Len(w)
        BY <1>1
    <2>2. PICK M, woken : M = f[k].mutex /\ woken = f[k].woken
        OBVIOUS
    <2>3. RelocksTo(w, k, M, woken)
        BY <1>5, <2>1, <2>2
    <2>4. PICK t \in Thread, m \in Mutex : w[k + 1] = <<t, m>>
        BY <2>1
    <2>5. PICK N, after : /\ N = [M EXCEPT ![m] = Locked(m, M[m], t)]
                          /\ after = IF Blocks(m, M[m], t) THEN woken ELSE woken \cup {t}
        OBVIOUS
    <2>6. f[k + 1] = Relock(f[k], w[k + 1])
        BY <1>3
    <2>7. f[k + 1].mutex = N /\ f[k + 1].woken = after
        <3>1. w[k + 1][1] = t /\ w[k + 1][2] = m
            BY <2>4
        <3>2. f[k + 1] = [mutex |-> [f[k].mutex EXCEPT ![m] = Locked(m, f[k].mutex[m], t)],
                          woken |-> IF Blocks(m, f[k].mutex[m], t) THEN f[k].woken ELSE f[k].woken \cup {t}]
            BY <2>6, <3>1 DEF Relock
        <3>3. f[k + 1] = [mutex |-> N, woken |-> after]
            BY <2>2, <2>5, <3>2
        <3> QED BY <3>3
    <2>8. Becomes(M, N, m, Locked(m, M[m], t))
        BY <2>5 DEF Becomes
    <2>9. \A x \in Mutex : ~Spins(mutex, t, x)
        <3>1. w[k + 1][1] = t
            BY <2>4
        <3> QED BY <2>1, <3>1
    <2>10. RelocksTo(w, k + 1, N, after)
        <3> HIDE DEF w
        <3>1. w \in Seq(Thread \X Mutex) /\ DistinctWaiters(w)
            BY DEF w
        <3>2. after = IF Blocks(m, M[m], t) THEN woken ELSE woken \cup {t}
            BY <2>5
        <3> QED BY <2>1, <2>3, <2>4, <2>8, <2>9, <3>1, <3>2, RelockOne
    <2> QED BY <2>7, <2>10
<1> HIDE DEF T
<1>6. n \in T
    BY <1>1, <1>4, <1>5, Induction
<1> QED BY <1>1, <1>2, <1>6 DEF T

\* The first n of the waiters w leave.
Leaves(w, n, a) ==
    /\ a \in Seq(Thread \X Mutex) /\ DistinctWaiters(a)
    /\ \A x : (\E i \in 1..Len(a) : a[i] = x) <=> \E i \in n+1..Len(w) : w[i] = x
    /\ \A u : (\E i \in 1..Len(a) : a[i][1] = u) <=> \E i \in n+1..Len(w) : w[i][1] = u

LEMMA WaitersLeave ==
    ASSUME NEW w \in Seq(Thread \X Mutex), NEW n \in 0..Len(w), DistinctWaiters(w),
           NEW a, a = SubSeq(w, n + 1, Len(w))
    PROVE  Leaves(w, n, a)
<1>1. /\ Len(w) \in Nat /\ n \in Nat /\ n + 1 \in Int /\ \A i \in n+1..Len(w) : w[i] \in Thread \X Mutex
    OBVIOUS
<1>2. /\ a \in Seq(Thread \X Mutex) /\ Len(a) = Len(w) - n
      /\ \A i \in 1..Len(a) : a[i] = w[n + i]
    <2>1. /\ SubSeq(w, n + 1, Len(w)) \in Seq(Thread \X Mutex)
          /\ Len(SubSeq(w, n + 1, Len(w))) = IF n + 1 <= Len(w) THEN Len(w) - (n + 1) + 1 ELSE 0
          /\ \A i \in 1..Len(w) - (n + 1) + 1 : SubSeq(w, n + 1, Len(w))[i] = w[(n + 1) + i - 1]
        BY <1>1, SubSeqProperties
    <2>2. Len(a) = Len(w) - n
        BY <1>1, <2>1
    <2>3. ASSUME NEW i \in 1..Len(a) PROVE a[i] = w[n + i]
        <3>1. i \in 1..Len(w) - (n + 1) + 1 /\ (n + 1) + i - 1 = n + i
            BY <1>1, <2>2, <2>3
        <3> QED BY <2>1, <3>1
    <2> QED BY <2>1, <2>2, <2>3
<1>3. \A i \in 1..Len(a) : n + i \in n+1..Len(w) /\ n + i \in 1..Len(w)
    BY <1>1, <1>2
<1>4. \A j \in n+1..Len(w) : j - n \in 1..Len(a) /\ n + (j - n) = j
    BY <1>1, <1>2
<1>5. DistinctWaiters(a)
    <2> SUFFICES ASSUME NEW i \in 1..Len(a), NEW j \in 1..Len(a), a[i][1] = a[j][1] PROVE i = j
        BY DEF DistinctWaiters
    <2>1. n + i = n + j
        BY <1>2, <1>3 DEF DistinctWaiters
    <2> QED BY <1>1, <1>2, <2>1
<1>6. ASSUME NEW x PROVE (\E i \in 1..Len(a) : a[i] = x) <=> \E i \in n+1..Len(w) : w[i] = x
    <2>1. ASSUME NEW i \in 1..Len(a), a[i] = x PROVE \E j \in n+1..Len(w) : w[j] = x
        BY <1>2, <1>3, <2>1
    <2>2. ASSUME NEW j \in n+1..Len(w), w[j] = x PROVE \E i \in 1..Len(a) : a[i] = x
        BY <1>2, <1>4, <2>2
    <2> QED BY <2>1, <2>2
<1>7. ASSUME NEW u PROVE (\E i \in 1..Len(a) : a[i][1] = u) <=> \E i \in n+1..Len(w) : w[i][1] = u
    <2>1. ASSUME NEW i \in 1..Len(a), a[i][1] = u PROVE \E j \in n+1..Len(w) : w[j][1] = u
        BY <1>2, <1>3, <2>1
    <2>2. ASSUME NEW j \in n+1..Len(w), w[j][1] = u PROVE \E i \in 1..Len(a) : a[i][1] = u
        BY <1>2, <1>4, <2>2
    <2> QED BY <2>1, <2>2
<1> QED BY <1>2, <1>5, <1>6, <1>7 DEF Leaves

\* A signal or a broadcast keeps the invariant: who is removed gets its mutex and runs, or
\* moves on to stand in line for it.
LEMMA WakeKeeps ==
    ASSUME Inv, Running, depth = 0, NEW c \in Cond, NEW n \in 1..Len(waiters[c]), Wake(c, n),
           UNCHANGED <<program, data, threads, arrived, joinable, cancelling, held, rounds, joins>>
    PROVE  Inv'
<1>1. PICK p, w, woken :
        p = current /\ w = waiters[c] /\ woken = Relocked(c, n).woken
    OBVIOUS
<1>2. /\ mutex' = Relocked(c, n).mutex /\ Reschedule(woken, FALSE)
      /\ waiters' = [waiters EXCEPT ![c] = SubSeq(w, n + 1, Len(w))]
    BY <1>1 DEF Wake
<1>3. /\ p \in Thread /\ p \in active /\ WaitsAre /\ QueuesTyped
      /\ mutex \in [Mutex -> MutexType] /\ Sound(mutex)
      /\ w \in Seq(Thread \X Mutex) /\ DistinctWaiters(w) /\ Len(w) \in Nat /\ n \in 0..Len(w)
      /\ waiters \in [Cond -> Seq(Thread \X Mutex)] /\ Waits(p) = {}
      /\ ~InCond(p, c)
    BY <1>1, RunsFree, TypedParts DEF Inv, QueuesTyped, Queued
<1>4. ASSUME NEW i \in 1..Len(w)
      PROVE  /\ w[i][1] \in pthreads \ active /\ w[i][1] \in Thread /\ Waits(w[i][1]) = {<<"cond", c>>}
             /\ \A x \in Mutex : ~Spins(mutex, w[i][1], x)
             /\ \A d \in Cond : InCond(w[i][1], d) => d = c
    <2>1. PICK u : u = w[i][1]
        OBVIOUS
    <2>2. w[i] \in Thread \X Mutex
        BY <1>3
    <2>3. u \in Thread /\ InCond(u, c)
        BY <1>1, <1>3, <2>1, <2>2 DEF InCond
    <2>4. <<"cond", c>> \in Waits(u)
        BY <1>3, <2>3, Zenon DEF WaitsAre
    <2>5. Placed(u)
        BY <2>3 DEF Inv, Queued
    <2>6. u \in pthreads \ active /\ Waits(u) = {<<"cond", c>>}
        BY <2>4, <2>5 DEF Placed
    <2>7. \A x \in Mutex : Spins(mutex, u, x) => <<"mutex", x>> \in Waits(u)
        BY <1>3, Zenon DEF WaitsAre
    <2>8. \A d \in Cond : InCond(u, d) => <<"cond", d>> \in Waits(u)
        BY <1>3, Zenon DEF WaitsAre
    <2> QED BY <2>1, <2>3, <2>6, <2>7, <2>8
<1>5. RelocksTo(w, n, mutex', woken)
    <2>1. \A i \in 1..Len(waiters[c]) : \A x \in Mutex : ~Spins(mutex, waiters[c][i][1], x)
        BY <1>1, <1>4
    <2>2. waiters[c] \in Seq(Thread \X Mutex) /\ DistinctWaiters(waiters[c]) /\ n \in 0..Len(waiters[c])
        BY <1>1, <1>3
    <2>3. RelocksTo(waiters[c], n, Relocked(c, n).mutex, Relocked(c, n).woken)
        BY <1>3, <2>1, <2>2, RelockAll
    <2> QED BY <1>1, <1>2, <2>3
<1>6. /\ mutex' \in [Mutex -> MutexType] /\ Sound(mutex)'
      /\ \A u \in Thread, m \in Mutex : Asked(mutex', u, m) = Asked(mutex, u, m) + Bit(Among(w, n, u, m))
      /\ \A u \in Thread, m \in Mutex :
           Spins(mutex', u, m) <=> Spins(mutex, u, m) \/ (Among(w, n, u, m) /\ u \notin woken)
      /\ \A u \in woken : \E i \in 1..n : w[i][1] = u
    BY <1>5 DEF RelocksTo
<1>7. woken \subseteq pthreads \ active /\ p \notin woken
    <2>1. ASSUME NEW u \in woken PROVE u \in pthreads \ active
        <3>1. PICK i \in 1..n : w[i][1] = u
            BY <1>6
        <3>2. i \in 1..Len(w)
            BY <1>3
        <3> QED BY <1>4, <3>1, <3>2
    <2> QED BY <1>3, <2>1
<1>8. /\ Rescheduled(woken, FALSE) /\ ThreadsTyped' /\ SchedTyped' /\ DepthTyped'
      /\ Hardware' /\ Scheduled' /\ Keyed'
    BY <1>2, <1>7, CallKeeps
<1>9. PICK a : a = SubSeq(w, n + 1, Len(w))
    OBVIOUS
<1>10. /\ a \in Seq(Thread \X Mutex) /\ DistinctWaiters(a)
       /\ \A x : (\E i \in 1..Len(a) : a[i] = x) <=> \E i \in n+1..Len(w) : w[i] = x
       /\ \A u : (\E i \in 1..Len(a) : a[i][1] = u) <=> \E i \in n+1..Len(w) : w[i][1] = u
    <2>1. w \in Seq(Thread \X Mutex) /\ DistinctWaiters(w) /\ n \in 0..Len(w)
        BY <1>3
    <2>2. Leaves(w, n, a)
        BY <1>9, <2>1, WaitersLeave
    <2> QED BY <2>2 DEF Leaves
<1>11. /\ waiters' \in [Cond -> Seq(Thread \X Mutex)] /\ waiters'[c] = a
       /\ \A d \in Cond : d # c => waiters'[d] = waiters[d]
    BY <1>2, <1>3, <1>9, <1>10
<1>12. QueuesTyped' /\ WaitsAre'
    BY <1>3, <1>6, <1>11, WaitsReadNext DEF QueuesTyped
<1>13. Typed'
    BY <1>8, <1>12, Frames, TypedParts, TypedPartsNext DEF Inv
<1>14. \A i : i \in 1..Len(w) <=> i \in 1..n \/ i \in n+1..Len(w)
    BY <1>3
<1>15. /\ \A u : \A d \in Cond : d # c => (InCond(u, d)' <=> InCond(u, d))
       /\ \A u : InCond(u, c)' <=> \E i \in n+1..Len(w) : w[i][1] = u
       /\ \A u : InCond(u, c) <=> (\E i \in 1..n : w[i][1] = u) \/ \E i \in n+1..Len(w) : w[i][1] = u
    <2>1. ASSUME NEW u, NEW d \in Cond, d # c PROVE InCond(u, d)' <=> InCond(u, d)
        BY <1>11, <2>1 DEF InCond
    <2>2. ASSUME NEW u PROVE InCond(u, c)' <=> \E i \in n+1..Len(w) : w[i][1] = u
        <3>1. InCond(u, c)' <=> \E i \in 1..Len(a) : a[i][1] = u
            BY <1>11 DEF InCond
        <3> QED BY <1>10, <3>1
    <2>3. ASSUME NEW u
          PROVE  InCond(u, c) <=> (\E i \in 1..n : w[i][1] = u) \/ \E i \in n+1..Len(w) : w[i][1] = u
        <3>1. InCond(u, c) <=> \E i \in 1..Len(w) : w[i][1] = u
            BY <1>1 DEF InCond
        <3> QED BY <1>14, <3>1
    <2> QED BY <2>1, <2>2, <2>3
<1>16. \A i \in 1..n : \A j \in n+1..Len(w) : i \in 1..Len(w) /\ j \in 1..Len(w) /\ w[i][1] # w[j][1]
    BY <1>3 DEF DistinctWaiters
<1>17. Balanced(mutex, waiters)'
    <2> SUFFICES ASSUME NEW u \in Thread, NEW m \in Mutex
                 PROVE  held'[u][m] = Asked(mutex', u, m) + Bit(Sleeps(waiters', u, m))
        BY DEF Balanced
    <2>1. held'[u][m] = Asked(mutex, u, m) + Bit(Sleeps(waiters, u, m)) /\ Asked(mutex, u, m) \in Nat
        BY <1>3, AskedNat DEF Inv, Balanced
    <2>2. <<u, m>>[1] = u
        OBVIOUS
    <2>3. CASE Among(w, n, u, m)
        <3>1. PICK i \in 1..n : w[i] = <<u, m>>
            BY <2>3 DEF Among
        <3>2. w[i][1] = u /\ i \in 1..Len(w)
            BY <1>14, <2>2, <3>1
        <3>3. Sleeps(waiters, u, m)
            BY <1>1, <3>1, <3>2 DEF Sleeps
        <3>4. ~Sleeps(waiters', u, m)
            <4>1. \A d \in Cond : ~InCond(u, d)'
                BY <1>4, <1>15, <1>16, <3>2
            <4> QED BY <2>2, <4>1 DEF Sleeps, InCond
        <3>5. Asked(mutex', u, m) = Asked(mutex, u, m) + 1
            BY <1>6, <2>3 DEF Bit
        <3> QED BY <2>1, <3>3, <3>4, <3>5 DEF Bit
    <2>4. CASE ~Among(w, n, u, m)
        <3>1. ASSUME NEW d \in Cond
              PROVE  (\E i \in 1..Len(waiters'[d]) : waiters'[d][i] = <<u, m>>)
                       <=> \E i \in 1..Len(waiters[d]) : waiters[d][i] = <<u, m>>
            <4>1. CASE d = c
                <5>1. (\E i \in 1..Len(a) : a[i] = <<u, m>>) <=> \E i \in n+1..Len(w) : w[i] = <<u, m>>
                    BY <1>10
                <5>2. (\E i \in 1..Len(w) : w[i] = <<u, m>>) <=> \E i \in n+1..Len(w) : w[i] = <<u, m>>
                    BY <1>14, <2>4 DEF Among
                <5> QED BY <1>1, <1>11, <4>1, <5>1, <5>2
            <4>2. CASE d # c
                BY <1>11, <4>2
            <4> QED BY <4>1, <4>2
        <3>2. Sleeps(waiters', u, m) <=> Sleeps(waiters, u, m)
            BY <3>1 DEF Sleeps
        <3>3. Asked(mutex', u, m) = Asked(mutex, u, m)
            BY <1>6, <2>1, <2>4 DEF Bit
        <3> QED BY <2>1, <3>2, <3>3 DEF Bit
    <2> QED BY <2>3, <2>4
<1>18. ASSUME NEW u \in Thread, \A i \in 1..n : w[i][1] # u PROVE Waits(u)' = Waits(u) /\ u \notin woken
    <2>1. \A m \in Mutex : ~Among(w, n, u, m)
        <3>1. \A m : <<u, m>>[1] = u
            OBVIOUS
        <3> QED BY <1>18, <3>1 DEF Among
    <2>2. \A m \in Mutex : Spins(mutex', u, m) <=> Spins(mutex, u, m)
        BY <1>6, <2>1
    <2>3. \A d \in Cond : InCond(u, d)' <=> InCond(u, d)
        BY <1>15, <1>18
    <2> QED BY <1>3, <1>6, <1>12, <1>18, <2>2, <2>3, SameWaits
<1>19. ASSUME NEW i \in 1..n
       PROVE  /\ Waits(w[i][1]) # {}
              /\ w[i][1] \in woken => Waits(w[i][1])' = {}
              /\ w[i][1] \notin woken => \E x : Waits(w[i][1])' = {x}
    <2>1. PICK u, m : w[i] = <<u, m>>
        <3>1. i \in 1..Len(w)
            BY <1>14
        <3>2. w[i] \in Thread \X Mutex
            BY <1>3, <3>1
        <3> QED BY <3>2
    <2>2. w[i][1] = u /\ i \in 1..Len(w) /\ m \in Mutex
        <3>1. i \in 1..Len(w)
            BY <1>14
        <3>2. w[i] \in Thread \X Mutex
            BY <1>3, <3>1
        <3> QED BY <2>1, <3>1, <3>2
    <2>3. /\ u \in Thread /\ Waits(u) = {<<"cond", c>>} /\ \A x \in Mutex : ~Spins(mutex, u, x)
          /\ \A d \in Cond : InCond(u, d) => d = c
        BY <1>4, <2>2
    <2>4. \A x \in Mutex : Among(w, n, u, x) <=> x = m
        <3>1. \A j \in 1..n : w[j][1] = u => j = i
            BY <1>3, <1>14, <2>2 DEF DistinctWaiters
        <3>2. \A x : <<u, x>>[1] = u
            OBVIOUS
        <3> QED BY <2>1, <3>1, <3>2 DEF Among
    <2>5. \A x \in Mutex : Spins(mutex', u, x) <=> x = m /\ u \notin woken
        BY <1>6, <2>3, <2>4
    <2>6. \A d \in Cond : ~InCond(u, d)'
        BY <1>15, <1>16, <2>2, <2>3
    <2>7. /\ \A b \in Barrier : u \notin ToSet(arrived[b])'
          /\ \A v \in Thread : joinable[v].joiner' # u
        <3>1. /\ \A b : <<"barrier", b>> \notin Waits(u)
              /\ \A v : <<"join", v>> \notin Waits(u)
            BY <2>3
        <3>2. /\ \A b \in Barrier : u \in ToSet(arrived[b]) => <<"barrier", b>> \in Waits(u)
              /\ \A v \in Thread : joinable[v].joiner = u => <<"join", v>> \in Waits(u)
            BY <1>3, Zenon DEF WaitsAre
        <3> QED BY <3>1, <3>2
    <2>8. \A x : x \in Waits(u)' <=> \E k \in Mutex : x = <<"mutex", k>> /\ Spins(mutex', u, k)
        BY <1>12, <2>6, <2>7, WaitsAlone
    <2>9. CASE u \in woken
        <3>1. \A x : x \notin Waits(u)'
            BY <2>5, <2>8, <2>9
        <3> QED BY <2>2, <2>3, <2>9, <3>1
    <2>10. CASE u \notin woken
        <3>1. \A x : x \in Waits(u)' <=> x = <<"mutex", m>>
            BY <2>2, <2>5, <2>8, <2>10
        <3>2. Waits(u)' = {<<"mutex", m>>}
            BY <3>1
        <3> QED BY <2>2, <2>3, <2>10, <3>2
    <2> QED BY <2>9, <2>10
<1>20. Queued'
    <2>1. Moved(woken, FALSE, p)
        <3>1. \A u \in woken : Waits(u)' = {}
            BY <1>6, <1>19
        <3>2. Waits(p)' = {}
            <4>1. \A i \in 1..n : w[i][1] # p
                BY <1>3, <1>15
            <4> QED BY <1>3, <1>18, <4>1
        <3>3. ASSUME NEW u \in Thread \ (woken \cup {p})
              PROVE  Waits(u)' = Waits(u) \/ (Waits(u) # {} /\ \E x : Waits(u)' = {x})
            BY <1>18, <1>19, <3>3
        <3> QED BY <1>1, <1>7, <3>1, <3>2, <3>3 DEF Moved
    <2>2. UNCHANGED <<program, pthreads>>
        BY DEF threads
    <2>3. \A t \in Thread : Placed(t)'
        BY <1>8, <2>1, <2>2, Replacing DEF Inv, Queued
    <2>4. \A d \in Cond : DistinctWaiters(waiters'[d])
        BY <1>10, <1>11 DEF Inv, Queued
    <2> QED BY <2>3, <2>4 DEF Inv, Queued, Distinct
<1>21. UNCHANGED <<pthreads, new_thread_id>>
    BY DEF threads
<1> QED BY <1>6, <1>8, <1>13, <1>17, <1>20, <1>21, Frames DEF Inv

LEMMA SignalsKeep ==
    ASSUME Inv, UNCHANGED <<program, data>>, NEW c \in Cond, CondSignal(c) \/ CondBroadcast(c)
    PROVE  Inv'
<1>1. /\ Running /\ depth = 0 /\ waiters[c] # <<>>
      /\ UNCHANGED <<threads, arrived, joinable, cancelling, held, rounds, joins>>
    BY DEF CondSignal, CondBroadcast, Calling
<1>2. waiters[c] \in Seq(Thread \X Mutex)
    BY TypedParts DEF Inv, QueuesTyped
<1>3. 1 \in 1..Len(waiters[c]) /\ Len(waiters[c]) \in 1..Len(waiters[c])
    BY <1>1, <1>2
<1>4. CASE CondSignal(c)
    <2>1. Wake(c, 1)
        BY <1>4 DEF CondSignal
    <2> QED BY <1>1, <1>3, <2>1, WakeKeeps
<1>5. CASE CondBroadcast(c)
    <2>1. Wake(c, Len(waiters[c]))
        BY <1>5 DEF CondBroadcast
    <2> QED BY <1>1, <1>3, <2>1, WakeKeeps
<1> QED BY <1>4, <1>5
---------------------------------------------------------------------------------------
(* The invariant *)

\* With one thread, free mutexes and empty queues it holds.
LEMMA Begins == Init => Inv
<1> SUFFICES ASSUME Init PROVE Inv
    OBVIOUS
<1> USE PthreadSimAssumption
<1>1. /\ 0 \in Thread /\ 0 # Nobody /\ Nobody \notin Thread /\ Thread \subseteq Nat
      /\ MaxThreads \in Nat /\ 1 \in 0..MaxThreads /\ 1 \in 0..MaxUint
    BY DEF Thread, Nobody
<1>2. \A m \in Mutex : mutex[m].count = 0 /\ mutex[m].owner = Nobody /\ mutex[m].spinning = <<>>
    BY DEF Init, FreeMutex
<1>3. /\ \A c \in Cond : Len(waiters[c]) = 0
      /\ \A b \in Barrier : Len(arrived[b]) = 0
      /\ \A m \in Mutex : Len(mutex[m].spinning) = 0
      /\ \A i : i \notin 1..0
    BY <1>2 DEF Init
<1>4. ThreadsTyped /\ SchedTyped /\ CancelTyped /\ DepthTyped
    BY <1>1 DEF Init, DataInit, ThreadsTyped, SchedTyped, CancelTyped, DepthTyped
<1>5. QueuesTyped
    <2>1. FreeMutex \in MutexType
        BY DEF FreeMutex, MutexType
    <2> QED BY <2>1 DEF Init, QueuesTyped
<1>6. /\ JoinableTyped
      /\ \A t \in Thread : joinable[t].joiner = Nobody /\ ~joinable[t].done
      /\ \A t \in Thread : joinable[t].joinable <=> t = 0
      /\ \A t \in Thread : t # 0 => joinable[t] = Detached
    BY <1>1 DEF Init, JoinableTyped, Joinable, Detached
<1>7. HistoryTyped
    BY DEF Init, HistoryTyped
<1>8. Typed
    BY <1>4, <1>5, <1>6, <1>7, TypedParts
<1>9. Hardware
    BY <1>1 DEF Init, Hardware
<1>10. Scheduled
    <2>1. Cardinality({0}) = 1
        BY FS_Singleton
    <2> QED BY <2>1 DEF Init, DataInit, Scheduled, NactiveCountsActive
<1>11. Keyed
    BY DEF Init, DataInit, Keyed, KeysAgree
<1>12. Joining
    BY <1>1, <1>6 DEF Init, Joining
<1>13. Queued
    <2>1. WaitsAre
        BY <1>5, WaitsRead
    <2>2. ASSUME NEW t \in Thread PROVE Waits(t) = {} /\ (t \in pthreads => t \in active)
        <3>1. \A m \in Mutex : ~Spins(mutex, t, m)
            BY <1>3 DEF Spins
        <3>2. \A c \in Cond : ~InCond(t, c)
            BY <1>3 DEF InCond
        <3>3. \A b \in Barrier : t \notin ToSet(arrived[b])
            BY <1>3 DEF ToSet
        <3>4. \A u \in Thread : joinable[u].joiner # t
            BY <1>1, <1>6
        <3>5. \A x : x \notin Waits(t)
            BY <2>1, <3>1, <3>2, <3>3, <3>4, Zenon DEF WaitsAre
        <3> QED BY <3>5 DEF Init
    <2>3. \A t \in Thread : Placed(t)
        BY <2>2 DEF Placed
    <2> QED BY <1>3, <2>3 DEF Queued, DistinctWaiters, Distinct
<1>14. Sound(mutex)
    BY <1>1, <1>2, <1>3 DEF Sound, SoundAt, Distinct, Own
<1>15. Balanced(mutex, waiters)
    <2> SUFFICES ASSUME NEW t \in Thread, NEW m \in Mutex
                 PROVE  held[t][m] = Asked(mutex, t, m) + Bit(Sleeps(waiters, t, m))
        BY DEF Balanced
    <2>1. held[t][m] = 0 /\ Own(mutex, t, m) = 0
        BY <1>2 DEF Init, Own
    <2>2. ~Spins(mutex, t, m) /\ ~Sleeps(waiters, t, m)
        BY <1>3 DEF Spins, Sleeps
    <2> QED BY <2>1, <2>2 DEF Asked, Bit
<1>16. Barriers
    <2> SUFFICES ASSUME NEW b \in Barrier
                 PROVE  Len(arrived[b]) < num_participants[b] /\ \E r \in 0..MaxRounds : AfterRounds(b, r)
        BY DEF Barriers
    <2>1. \A u : u \notin ToSet(arrived[b])
        BY <1>3 DEF ToSet
    <2>2. AfterRounds(b, 0)
        BY <2>1 DEF Init, AfterRounds
    <2> QED BY <1>3, <2>2
<1> QED BY <1>8, <1>9, <1>10, <1>11, <1>12, <1>13, <1>14, <1>15, <1>16 DEF Inv

\* A step that changes nothing keeps it.
LEMMA Stutters == ASSUME Inv, UNCHANGED vars PROVE Inv'
<1>1. /\ UNCHANGED <<program, data, threads, sched, mutex, waiters, arrived, joinable, cancelling,
                     held, rounds, joins>>
      /\ UNCHANGED <<pthreads, new_thread_id, active, hactive, keys, malloc, depth>>
    BY DEF vars, threads, sched, data, malloc
<1>2. Typed'
    BY <1>1, Frames, TypedParts, TypedPartsNext DEF Inv, DepthTyped
<1> QED BY <1>1, <1>2, Frames DEF Inv, Hardware

\* Every call of a program as the theorems suppose keeps it.
LEMMA Keeps == ASSUME IInv, [Next]_vars PROVE IInv'
<1> SUFFICES ASSUME Inv, Usual, UNCHANGED program PROVE Inv'
    <2>1. UNCHANGED program
        BY DEF Next, vars
    <2>2. Usual' <=> Usual
        BY <2>1 DEF Usual
    <2> QED BY <2>1, <2>2 DEF IInv
<1>1. CASE UNCHANGED vars
    BY <1>1, Stutters
<1>2. CASE UNCHANGED data /\ \/ Resume \/ Yield \/ SetCancelType \/ SetCancelState
                             \/ \E t \in Thread : Detach(t) \/ CancelDeferred(t)
    BY <1>2, ResumeKeeps, YieldKeeps, CancelTypesKeep, DetachKeeps
<1>3. CASE UNCHANGED data /\ \E m \in Mutex : MutexLock(m) \/ MutexTrylock(m) \/ MutexUnlock(m)
    BY <1>3, MutexLockKeeps, MutexTrylockKeeps, MutexUnlockKeeps
<1>4. CASE /\ UNCHANGED data
           /\ \E c \in Cond : CondSignal(c) \/ CondBroadcast(c) \/ \E m \in Mutex : CondWait(c, m)
    BY <1>4, SignalsKeep, CondWaitKeeps
<1>5. CASE UNCHANGED data /\ \E b \in Barrier : BarrierWait(b)
    BY <1>5, BarrierWaitKeeps
<1>6. CASE /\ OwnData
           /\ UNCHANGED <<threads, mutex, waiters, arrived, joinable, cancelling, held, rounds, joins>>
    BY <1>6, OwnDataKeeps
<1>7. CASE Create
    BY <1>7, CreateKeeps
<1>8. CASE Exit \/ CleanupRun \/ TestCancel
    <2>1. Running /\ depth = 0 /\ Exits
        BY <1>8 DEF Exit, CleanupRun, TestCancel, Calling
    <2> QED BY <2>1, ExitsKeep
<1>9. CASE \E t \in Thread : Join(t)
    BY <1>9, JoinKeeps
<1>10. CASE \E t \in Thread : CancelNow(t) \/ Kill(t)
    <2>1. Running /\ depth = 0 /\ \E t \in Thread : Kills(t)
        BY <1>10 DEF CancelNow, Kill, Calling
    <2> QED BY <2>1, KillsKeep
<1> QED BY <1>1, <1>2, <1>3, <1>4, <1>5, <1>6, <1>7, <1>8, <1>9, <1>10 DEF Next

\* Every part of the invariant always holds of a program that creates its threads before one
\* ends and cancels, asynchronously, no blocked one, whatever its threads, mutexes, condition
\* variables and barriers are and however their calls are interleaved.
THEOREM Invariance == Spec => []IInv
<1>1. Init => IInv
    BY Begins DEF IInv
<1> QED BY <1>1, Keeps, PTL DEF Spec
---------------------------------------------------------------------------------------
(* The properties *)

\* Ids stay within range, only valid threads are active, and nactive does not overflow.
THEOREM TypeCorrect == Spec => [](Usual => TypeOK)
<1>1. IInv => (Usual => TypeOK)
    BY DEF IInv, Inv, Typed
<1> QED BY <1>1, Invariance, PTL

LEMMA HoldersOwnHolds == ASSUME Inv PROVE HoldersOwn
<1> SUFFICES ASSUME NEW t \in active, NEW m \in Mutex, held[t][m] > 0
             PROVE  mutex[m].owner = t /\ mutex[m].count > 0
    BY DEF HoldersOwn
<1>1. t \in Thread /\ WaitsAre /\ Waits(t) = {}
    <2>1. active \subseteq pthreads /\ pthreads \subseteq Thread
        BY TypedParts DEF Inv, SchedTyped, ThreadsTyped
    <2>2. Placed(t)
        BY <2>1 DEF Inv, Queued
    <2> QED BY <2>1, <2>2, Alone, TypedParts, WaitsRead DEF Inv
<1>2. ~Spins(mutex, t, m) /\ \A c \in Cond : ~InCond(t, c)
    BY <1>1 DEF WaitsAre
<1>3. ~Sleeps(waiters, t, m)
    BY <1>2 DEF Sleeps, InCond
<1>4. held[t][m] = Asked(mutex, t, m) + 0
    BY <1>1, <1>3 DEF Inv, Balanced, Bit
<1>5. Asked(mutex, t, m) = Own(mutex, t, m) + 0
    BY <1>2 DEF Asked, Bit
<1>6. Own(mutex, t, m) \in Nat
    BY MutexTyped DEF Own, Inv, Typed
<1>7. Own(mutex, t, m) > 0
    BY <1>4, <1>5, <1>6
<1> QED BY <1>7 DEF Own

\* A thread that can run owns every mutex its calls promised it: whatever was handed over,
\* given up to wait for a condition, or asked for in vain.
THEOREM HoldersAlwaysOwn == Spec => [](Usual => HoldersOwn)
<1>1. IInv => (Usual => HoldersOwn)
    BY HoldersOwnHolds DEF IInv
<1> QED BY <1>1, Invariance, PTL

LEMMA BlockedIsQueuedHolds == ASSUME Inv PROVE BlockedIsQueued
<1>1. ASSUME NEW t \in pthreads
      PROVE  /\ Cardinality(Waits(t)) <= 1
             /\ t \in active => Cardinality(Waits(t)) = 0
             /\ "yield" \notin program.does /\ t \notin active => Cardinality(Waits(t)) # 0
    <2>1. Placed(t)
        BY TypedParts DEF Inv, ThreadsTyped, Queued
    <2>2. CASE Waits(t) = {}
        <3>1. Cardinality(Waits(t)) = 0
            BY <2>2, FS_EmptySet
        <3> QED BY <2>1, <2>2, <3>1 DEF Placed
    <2>3. CASE Waits(t) # {}
        <3>1. PICK x : Waits(t) = {x}
            BY <2>1, <2>3 DEF Placed
        <3>2. Cardinality(Waits(t)) = 1
            BY <3>1, FS_Singleton
        <3> QED BY <2>1, <2>3, <3>2 DEF Placed
    <2> QED BY <2>2, <2>3
<1>2. \A m \in Mutex : mutex[m].spinning # <<>> => mutex[m].count > 0
    BY DEF Inv, Sound, SoundAt
<1> QED BY <1>1, <1>2 DEF BlockedIsQueued

\* A blocked thread stands in one queue, from which it can be woken, one that can run stands
\* in none, and nobody waits for a free mutex: no call loses a thread, or wakes it twice.
THEOREM BlockedAlwaysQueued == Spec => [](Usual => BlockedIsQueued)
<1>1. IInv => (Usual => BlockedIsQueued)
    BY BlockedIsQueuedHolds DEF IInv
<1> QED BY <1>1, Invariance, PTL

\* The ASSERTs of the library fire only in a program that has deadlocked.
THEOREM AbortIsDeadlock == Spec => [](Usual => AbortMeansDeadlock)
<1>1. IInv => (Usual => AbortMeansDeadlock)
    BY DEF IInv, Inv, Scheduled, AbortMeansDeadlock
<1> QED BY <1>1, Invariance, PTL

LEMMA WaitsAreOverHolds ==
    ASSUME Inv, \A b \in Barrier : Shared(b) PROVE WaitsAreOver
<1>1. ASSUME NEW t \in active
      PROVE  t \in Thread /\ WaitsAre /\ Waits(t) = {}
    <2>1. active \subseteq pthreads /\ pthreads \subseteq Thread
        BY TypedParts DEF Inv, SchedTyped, ThreadsTyped
    <2>2. Placed(t)
        BY <2>1 DEF Inv, Queued
    <2> QED BY <2>1, <2>2, Alone, TypedParts, WaitsRead DEF Inv
<1>2. ASSUME NEW b \in Barrier, NEW t \in active, rounds[t][b] > 0
      PROVE  Cardinality({u \in Thread : rounds[u][b] >= rounds[t][b]}) >= num_participants[b]
    <2>1. PICK r \in 0..MaxRounds : AfterRounds(b, r)
        BY DEF Inv, Barriers
    <2>2. t \notin ToSet(arrived[b])
        BY <1>1 DEF WaitsAre
    <2>3. rounds[t][b] = r
        BY <1>1, <1>2, <2>1, <2>2 DEF AfterRounds
    <2> QED BY <1>2, <2>1, <2>3 DEF AfterRounds
<1>3. ASSUME NEW t \in active PROVE joins[t] \cap pthreads = {}
    <2> SUFFICES ASSUME NEW u \in joins[t] \cap pthreads PROVE FALSE
        OBVIOUS
    <2>1. u \in Thread /\ joinable[u].joiner = t
        BY <1>1, TypedParts DEF Inv, ThreadsTyped, Joining
    <2> QED BY <1>1, <2>1 DEF WaitsAre
<1> QED BY <1>2, <1>3 DEF WaitsAreOver, BarrierTogether, JoinedHaveEnded

\* Nobody passes a barrier before its participants arrived, as long as no more threads use it
\* than it has participants, and nobody returns from pthread_join before the other has ended.
THEOREM WaitsAreAlwaysOver ==
    Spec => [](Usual /\ (\A b \in Barrier : Shared(b)) => WaitsAreOver)
<1>1. IInv => (Usual /\ (\A b \in Barrier : Shared(b)) => WaitsAreOver)
    BY WaitsAreOverHolds DEF IInv
<1> QED BY <1>1, Invariance, PTL

LEMMA ManagersAgreeHolds == ASSUME Inv PROVE ManagersAgree
<1>1. \A t \in active : pth_to_hth[t] = t
    BY TypedParts DEF Inv, Hardware, SchedTyped
<1>2. SameActive
    BY <1>1 DEF Inv, Hardware, SameActive
<1> QED BY <1>2 DEF Inv, Scheduled, Keyed, ManagersAgree

\* The scheduler, the timing simulator and the managers agree about the threads there are and
\* those that can run, in whatever order these were made, blocked, woken and ended.
THEOREM ManagersAlwaysAgree == Spec => [](Usual => ManagersAgree)
<1>1. IInv => (Usual => ManagersAgree)
    BY ManagersAgreeHolds DEF IInv
<1> QED BY <1>1, Invariance, PTL
=======================================================================================
