---------------------------------- MODULE O3CoreProofs ----------------------------------
(* Proofs about the out-of-order cores: no instruction is dropped on its way into the    *)
(* buffer, an entry waits only for older ones that have yet to be told of, none runs     *)
(* before what it needs, and nobody goes through a barrier too early.                    *)
EXTENDS O3Core, FiniteSetTheorems, SequenceTheorems, WellFoundedInduction, TLAPS

\* What the buffer and the queue hold.
Word == {NoAddr} \cup UNION {ToSet(ins.reads) \cup {ins.write} : ins \in Instruction}
Id == Nat \X Nat
Entry ==
    [state : {"invalid", "issued", "executing", "completed"}, ready : Nat, addr : Word,
     isread : BOOLEAN, branch_miss : BOOLEAN, type : Kinds, after : SUBSET Index,
     instr_dep : Index \cup {None}, rw : {{}} \cup {ins.rw : ins \in Instruction},
     ip : {0} \cup Site, memlen : {0} \cup {ins.n : ins \in Instruction},
     id : Id, needs : SUBSET Id]
Queued == [pc : Nat, state : {"not_in_queue", "being_loaded", "ready"}, ready : Nat]
CoreState ==
    [queue : Seq(Queued), rob : [Index -> Entry], head : Index, size : 0..o3rob_max_size-1,
     complete : SUBSET Index, wake : SUBSET Nat, active : BOOLEAN, next : Nat]

\* The entry at position i.
E(s, i) == s.rob[At(s, i)]

\* Accesses are in the order of the program: by instruction, and in it reads before writes.
Before(a, b) == a[1] < b[1] \/ (a[1] = b[1] /\ a[2] < b[2])
Ordered(s) ==
    /\ \A i \in Positions(s) : \A j \in 0..i-1 : Before(E(s, j).id, E(s, i).id)
    /\ \A i \in Positions(s) : /\ E(s, i).id[2] \in 1..3
                               /\ E(s, i).id[2] = 3 => ~E(s, i).isread

\* An entry needs none but older ones, and of these at least those with the same word, and
\* the mispredicted branches.
Recorded(s) ==
    \A i \in Positions(s) : LET e == E(s, i) IN
        /\ \A x \in e.needs : Before(x, e.id)
        /\ \A j \in 0..i-1 : LET f == E(s, j) IN
              SameWord(f, e.addr) \/ (f.branch_miss /\ f.id[1] # e.id[1]) => f.id \in e.needs

\* An entry is of the kind its instruction is of.
Decoded(s) ==
    \A i \in Positions(s) : \E ins \in Instruction :
        E(s, i).type = ins.type /\ E(s, i).ip = ins.ip /\ E(s, i).memlen = ins.n

\* WaitsForOlder, of one core.
Older(s) ==
    \A i \in Positions(s) : \A d \in (E(s, i).after \cup {E(s, i).instr_dep}) \ {None} :
        /\ \E j \in 0..i-1 : At(s, j) = d
        /\ s.rob[d].state = "completed" => d \in s.complete

\* Who has yet to tell those that wait is complete, and who is not yet ready has yet to.
Told(s) ==
    /\ \A k \in s.complete : k \in InRob(s) /\ s.rob[k].state = "completed"
    /\ \A k \in InRob(s) : s.rob[k].state = "completed" /\ ~Done(s.rob[k]) => k \in s.complete

\* The access before it is all that instr_dep names; what has none has no access of its
\* instruction before it that is not done; and what was started waits for nothing else than,
\* if it is a read, the other read.
Chained(s) ==
    \A i \in Positions(s) : LET e == E(s, i) IN
        /\ e.instr_dep # None => /\ i > 0 /\ e.instr_dep = At(s, i-1)
                                 /\ E(s, i-1).id = <<e.id[1], e.id[2] - 1>>
        /\ e.instr_dep = None => \A j \in 0..i-1 : E(s, j).id[1] = e.id[1] => Done(E(s, j))
        /\ e.state # "invalid"
        /\ e.state # "issued" => e.after = {} /\ (e.instr_dep = None \/ e.isread)

\* An entry that was not started waits for whatever it needs that is not done, for a later
\* access of the same instruction, or for something that needs it too.
Holds(s, i, l) ==
    \/ At(s, l) \in E(s, i).after
    \/ ~E(s, i).isread /\ E(s, i).instr_dep = At(s, l)
Stands(s, j, l) ==
    \/ E(s, l).id[1] = E(s, j).id[1] /\ j <= l
    \/ E(s, j).id \in E(s, l).needs
Covered(s) ==
    \A i \in Positions(s) : E(s, i).state = "issued" =>
        \A j \in 0..i-1 : E(s, j).id \in E(s, i).needs /\ ~Done(E(s, j)) =>
            \E l \in 0..i-1 : Holds(s, i, l) /\ Stands(s, j, l)

\* DataFlow, of one core.
Flows(s) ==
    \A i \in Positions(s) : E(s, i).state # "issued" =>
        \A j \in Positions(s) : E(s, j).id \in E(s, i).needs => Done(E(s, j))

Buffer(s) ==
    Ordered(s) /\ Recorded(s) /\ Decoded(s) /\ Older(s) /\ Told(s) /\ Chained(s) /\ Covered(s) /\ Flows(s)

\* The queue holds the instructions that were fetched last, and the buffer earlier ones.
Fetched(c, s) ==
    /\ s.next \in 1..Len(Program[c])+1 /\ Len(s.queue) <= o3queue_max_size
    /\ \A k \in 1..Len(s.queue) : s.queue[k].pc = s.next - 1 - Len(s.queue) + k
    /\ Len(s.queue) < s.next
    /\ \A i \in Positions(s) : E(s, i).id[1] < s.next - Len(s.queue)

\* Who asks for data is in the buffer, and has been started.
Asked(s, o) == \A x \in o : x[1] = "data" => x[2] \in InRob(s) /\ s.rob[x[2]].state = "executing"
---------------------------------------------------------------------------------------
(* Constants, numbers and steps in turn *)

LEMMA Sizes ==
    /\ o3queue_max_size \in Nat /\ o3queue_max_size > 4
    /\ o3rob_max_size \in Nat /\ o3rob_max_size > 4
    /\ max_issue_width \in Nat /\ max_commit_width \in Nat
    /\ lock_t \in Nat /\ lock_t > 0 /\ unlock_t \in Nat /\ unlock_t > 0
    /\ barrier_t \in Nat /\ barrier_t > 0 /\ sse_t \in Nat /\ sse_t > 0
    /\ branch_miss_penalty \in Nat
BY CoreAssumption

\* A non-empty set of natural numbers has a least element.
LEMMA LeastNumber ==
    ASSUME NEW T \in SUBSET Nat, T # {}
    PROVE  \E x \in T : \A y \in T : x <= y
<1> DEFINE R == {ss \in Nat \X Nat : ss[1] < ss[2]}
<1>1. IsWellFoundedOn(R, Nat)
    BY NatLessThanWellFounded DEF OpToRel
<1>2. \E x \in T : \A y \in T : <<y, x>> \notin R
    <2> HIDE DEF R
    <2> QED BY <1>1, WFMin
<1>3. PICK x \in T : \A y \in T : <<y, x>> \notin R
    BY <1>2
<1>4. ASSUME NEW y \in T PROVE x <= y
    <2>1. <<y, x>> \in Nat \X Nat /\ <<y, x>> \notin R
        BY <1>3
    <2> QED BY <2>1
<1> QED BY <1>4

\* A set that holds 0, and with each number the next one, holds all of them.
LEMMA Induction ==
    ASSUME NEW T, 0 \in T, \A n \in Nat : n \in T => n + 1 \in T
    PROVE  Nat \subseteq T
<1> SUFFICES ASSUME Nat \ T # {} PROVE FALSE
    OBVIOUS
<1>1. PICK x \in Nat \ T : \A y \in Nat \ T : x <= y
    BY LeastNumber
<1>2. x - 1 \in Nat /\ x = (x - 1) + 1
    OBVIOUS
<1>3. x - 1 \in T
    BY <1>1, <1>2
<1> QED BY <1>2, <1>3

\* The largest of some positions.
LEMMA Largest ==
    ASSUME NEW n \in Nat, NEW S \in SUBSET (0..n), S # {}
    PROVE  Max(S) \in S /\ \A y \in S : y <= Max(S)
<1> DEFINE T == {n - y : y \in S}
<1>1. T \subseteq Nat /\ T # {}
    OBVIOUS
<1>2. PICK x \in T : \A y \in T : x <= y
    BY <1>1, LeastNumber
<1>3. PICK z \in S : x = n - z
    BY <1>2
<1>4. \A y \in S : z >= y
    <2> TAKE y \in S
    <2>1. n - y \in T
        OBVIOUS
    <2>2. n - z <= n - y
        BY <1>2, <1>3, <2>1
    <2> QED BY <2>2
<1>5. \E u \in S : \A y \in S : u >= y
    BY <1>4
<1>6. Max(S) \in S /\ \A y \in S : Max(S) >= y
    BY <1>5 DEF Max
<1> QED BY <1>6

\* Steps in turn, G[<<i, x>>] being the i-th from x: they are what a recursive function gives,
\* if they keep to P.
Steps(f, n, base, G) == f = [i \in 0..n |-> IF i = 0 THEN base ELSE G[<<i, f[i-1]>>]]

LEMMA StepsExist ==
    ASSUME NEW n \in Nat, NEW base, NEW G PROVE \E f : Steps(f, n, base, G)
<1> DEFINE T == {k \in Nat : \E f : Steps(f, k, base, G)}
<1>1. 0 \in T
    <2> DEFINE f == [i \in 0..0 |-> base]
    <2>1. \A i \in 0..0 : i = 0
        OBVIOUS
    <2>2. f = [i \in 0..0 |-> IF i = 0 THEN base ELSE G[<<i, f[i-1]>>]]
        BY <2>1, Zenon
    <2>3. Steps(f, 0, base, G)
        BY <2>2 DEF Steps
    <2> HIDE DEF f
    <2> QED BY <2>3
<1>2. ASSUME NEW k \in Nat, k \in T PROVE k + 1 \in T
    <2>1. PICK f : Steps(f, k, base, G)
        BY <1>2
    <2> DEFINE g == [i \in 0..k+1 |-> IF i = k + 1 THEN G[<<k + 1, f[k]>>] ELSE f[i]]
    <2>2. ASSUME NEW i \in 0..k+1
          PROVE  g[i] = IF i = 0 THEN base ELSE G[<<i, g[i-1]>>]
        <3>1. CASE i = 0
            <4>1. 0 \in 0..k /\ 0 # k + 1
                OBVIOUS
            <4>2. f[0] = base
                BY <2>1, <4>1 DEF Steps
            <4> QED BY <3>1, <4>1, <4>2
        <3>2. CASE i = k + 1
            <4>1. k \in 0..k+1 /\ k # k + 1 /\ i # 0 /\ i - 1 = k
                BY <3>2
            <4>2. g[k] = f[k]
                BY <4>1
            <4> QED BY <3>2, <4>1, <4>2
        <3>3. CASE i \in 1..k
            <4>1. i \in 0..k /\ i - 1 \in 0..k+1 /\ i # 0 /\ i # k + 1 /\ i - 1 # k + 1
                BY <3>3
            <4>2. f[i] = G[<<i, f[i-1]>>]
                BY <2>1, <4>1 DEF Steps
            <4>3. g[i-1] = f[i-1] /\ g[i] = f[i]
                BY <4>1
            <4> QED BY <4>1, <4>2, <4>3
        <3> QED BY <3>1, <3>2, <3>3
    <2>3. g = [i \in 0..k+1 |-> g[i]]
        BY Zenon
    <2> HIDE DEF g
    <2>4. g = [i \in 0..k+1 |-> IF i = 0 THEN base ELSE G[<<i, g[i-1]>>]]
        BY <2>2, <2>3, Zenon
    <2>5. Steps(g, k + 1, base, G)
        BY <2>4 DEF Steps
    <2> QED BY <2>5
<1> HIDE DEF T
<1>3. Nat \subseteq T
    BY <1>1, <1>2, Induction
<1> QED BY <1>3 DEF T

LEMMA StepsKeep ==
    ASSUME NEW n \in Nat, NEW base, NEW G, NEW f, Steps(f, n, base, G), NEW P, <<0, base>> \in P,
           \A i \in 1..n : \A x : <<i - 1, x>> \in P => <<i, G[<<i, x>>]>> \in P
    PROVE  \A i \in 0..n : <<i, f[i]>> \in P
<1> DEFINE T == {k \in Nat : k \in 0..n => <<k, f[k]>> \in P}
<1>1. 0 \in T
    <2>1. 0 \in 0..n
        OBVIOUS
    <2>2. f[0] = base
        BY <2>1 DEF Steps
    <2> QED BY <2>2
<1>2. ASSUME NEW k \in Nat, k \in T PROVE k + 1 \in T
    <2> SUFFICES ASSUME k + 1 \in 0..n PROVE <<k + 1, f[k + 1]>> \in P
        OBVIOUS
    <2>1. k \in 0..n /\ k + 1 \in 1..n /\ k + 1 # 0 /\ (k + 1) - 1 = k
        OBVIOUS
    <2>2. f[k + 1] = G[<<k + 1, f[k]>>]
        BY <2>1 DEF Steps
    <2>3. <<k, f[k]>> \in P
        BY <1>2, <2>1
    <2> QED BY <2>1, <2>2, <2>3
<1> HIDE DEF T
<1>3. Nat \subseteq T
    BY <1>1, <1>2, Induction
<1>4. \A k \in 0..n : k \in Nat
    OBVIOUS
<1> QED BY <1>3, <1>4 DEF T
---------------------------------------------------------------------------------------
(* Indices *)

\* The index of position i.
LEMMA Wrap ==
    ASSUME NEW m \in Nat, m > 0, NEW h \in 0..m-1, NEW i \in 0..m-1
    PROVE  (h + i) % m = IF h + i < m THEN h + i ELSE h + i - m
<1>1. CASE h + i < m
    <2>1. h + i \in 0..m-1
        BY <1>1
    <2> QED BY <1>1, <2>1
<1>2. CASE h + i >= m
    <2>1. h + i - m \in 0..m-1 /\ h + i = (h + i - m) + m
        BY <1>2
    <2>2. (h + i) % m = h + i - m
        BY <2>1
    <2> QED BY <1>2, <2>2
<1> QED BY <1>1, <1>2

LEMMA CoreFields ==
    ASSUME NEW s \in CoreState
    PROVE  /\ s.queue \in Seq(Queued) /\ s.rob \in [Index -> Entry] /\ s.head \in Index
           /\ s.size \in 0..o3rob_max_size-1 /\ s.complete \subseteq Index /\ s.wake \subseteq Nat
           /\ s.active \in BOOLEAN /\ s.next \in Nat
BY DEF CoreState

LEMMA EntryFields ==
    ASSUME NEW e \in Entry
    PROVE  /\ e.state \in {"invalid", "issued", "executing", "completed"} /\ e.ready \in Nat
           /\ e.addr \in Word /\ e.isread \in BOOLEAN /\ e.branch_miss \in BOOLEAN
           /\ e.type \in Kinds /\ e.after \subseteq Index /\ e.instr_dep \in Index \cup {None}
           /\ e.id \in Id /\ e.id[1] \in Nat /\ e.id[2] \in Nat /\ e.needs \subseteq Id
BY DEF Entry, Id

LEMMA Places ==
    ASSUME NEW s \in CoreState
    PROVE  /\ s.size \in Nat /\ s.size < o3rob_max_size
           /\ \A i \in Positions(s) : i \in Index /\ i \in Nat /\ 0..i-1 \subseteq Positions(s)
           /\ \A i \in Index : At(s, i) \in Index
           /\ \A i, j \in Index : At(s, i) = At(s, j) => i = j
           /\ \A k : k \in InRob(s) <=> \E i \in Positions(s) : k = At(s, i)
           /\ \A i \in Positions(s) : E(s, i) \in Entry /\ At(s, i) \in InRob(s)
           /\ s.size \in Index
<1> USE Sizes
<1>1. s.size \in Nat /\ s.size < o3rob_max_size /\ s.size \in Index /\ s.head \in Index
    BY CoreFields DEF Index
<1>2. ASSUME NEW i \in Positions(s) PROVE i \in Index /\ i \in Nat /\ 0..i-1 \subseteq Positions(s)
    BY <1>1 DEF Positions, Index
<1>3. ASSUME NEW i \in Index
      PROVE  At(s, i) = IF s.head + i < o3rob_max_size THEN s.head + i ELSE s.head + i - o3rob_max_size
    <2>1. s.head \in 0..o3rob_max_size-1 /\ i \in 0..o3rob_max_size-1
        BY <1>1 DEF Index
    <2>2. o3rob_max_size \in Nat /\ o3rob_max_size > 0
        OBVIOUS
    <2>3. (s.head + i) % o3rob_max_size
            = IF s.head + i < o3rob_max_size THEN s.head + i ELSE s.head + i - o3rob_max_size
        BY <2>1, <2>2, Wrap, Zenon
    <2> QED BY <2>3 DEF At
<1>4. \A i \in Index : At(s, i) \in Index
    BY <1>1, <1>3 DEF Index
<1>5. ASSUME NEW i \in Index, NEW j \in Index, At(s, i) = At(s, j) PROVE i = j
    <2>1. PICK m, h : m = o3rob_max_size /\ h = s.head
        OBVIOUS
    <2>2. /\ m \in Nat /\ h \in Nat /\ h < m /\ i \in Nat /\ i < m /\ j \in Nat /\ j < m
        BY <1>1, <2>1 DEF Index
    <2>3. (IF h + i < m THEN h + i ELSE h + i - m) = (IF h + j < m THEN h + j ELSE h + j - m)
        BY <1>3, <1>5, <2>1
    <2> QED BY <2>2, <2>3
<1>6. \A k : k \in InRob(s) <=> \E i \in Positions(s) : k = At(s, i)
    BY DEF InRob
<1>7. \A i \in Positions(s) : E(s, i) \in Entry /\ At(s, i) \in InRob(s)
    BY <1>2, <1>4, <1>6, CoreFields DEF E
<1> QED BY <1>1, <1>2, <1>4, <1>5, <1>6, <1>7

\* The positions after the first n of the buffer left.
LEMMA Shifted ==
    ASSUME NEW s \in CoreState, NEW t \in CoreState, NEW n \in 0..s.size, t.head = At(s, n)
    PROVE  \A i \in Nat : n + i < o3rob_max_size => At(t, i) = At(s, n + i)
<1> USE Sizes
<1>1. s.size \in Nat /\ s.size < o3rob_max_size /\ n \in Nat
    BY Places
<1> SUFFICES ASSUME NEW i \in Nat, n + i < o3rob_max_size PROVE At(t, i) = At(s, n + i)
    OBVIOUS
<1>2. PICK m, h, g : m = o3rob_max_size /\ h = s.head /\ g = t.head
    OBVIOUS
<1>3. /\ m \in Nat /\ m > 0 /\ h \in 0..m-1 /\ g \in 0..m-1
      /\ i \in 0..m-1 /\ n \in 0..m-1 /\ n + i \in 0..m-1
    BY <1>1, <1>2, CoreFields DEF Index
<1>4. /\ (h + n) % m = IF h + n < m THEN h + n ELSE h + n - m
      /\ (g + i) % m = IF g + i < m THEN g + i ELSE g + i - m
      /\ (h + (n + i)) % m = IF h + (n + i) < m THEN h + (n + i) ELSE h + (n + i) - m
    BY <1>3, Wrap, Zenon
<1>5. g = (h + n) % m /\ At(t, i) = (g + i) % m /\ At(s, n + i) = (h + (n + i)) % m
    BY <1>2 DEF At
<1> QED BY <1>3, <1>4, <1>5
---------------------------------------------------------------------------------------
(* The buffer, when what it holds stays where it is *)

SameShape(s, t) == t.head = s.head /\ t.size = s.size

\* What an entry is from the moment it enters.
SameEntry(e, f) ==
    /\ f.id = e.id /\ f.needs = e.needs /\ f.addr = e.addr
    /\ f.isread = e.isread /\ f.branch_miss = e.branch_miss
    /\ f.type = e.type /\ f.ip = e.ip /\ f.memlen = e.memlen

LEMMA SamePlaces ==
    ASSUME NEW s \in CoreState, NEW t \in CoreState, SameShape(s, t)
    PROVE  /\ Positions(t) = Positions(s) /\ InRob(t) = InRob(s)
           /\ \A i : At(t, i) = At(s, i) /\ E(t, i) = t.rob[At(s, i)]
BY DEF SameShape, Positions, InRob, At, E

LEMMA PlanKeeps ==
    ASSUME NEW s \in CoreState, NEW t \in CoreState, SameShape(s, t),
           \A i \in Positions(s) : SameEntry(E(s, i), E(t, i)), Ordered(s), Recorded(s),
           Decoded(s)
    PROVE  Ordered(t) /\ Recorded(t) /\ Decoded(t)
<1>1. Positions(t) = Positions(s) /\ \A i \in Positions(s) : \A j \in 0..i-1 : j \in Positions(s)
    BY SamePlaces, Places
<1>2. Ordered(t)
    BY <1>1 DEF Ordered, SameEntry
<1>3. Recorded(t)
    BY <1>1 DEF Recorded, SameEntry, SameWord
<1>4. Decoded(t)
    BY <1>1 DEF Decoded, SameEntry
<1> QED BY <1>2, <1>3, <1>4

LEMMA BufferSame ==
    ASSUME NEW s \in CoreState, NEW t \in CoreState, SameShape(s, t), Buffer(s),
           t.rob = s.rob, t.complete = s.complete
    PROVE  Buffer(t) /\ \A i : E(t, i) = E(s, i)
<1>1. /\ Positions(t) = Positions(s) /\ InRob(t) = InRob(s)
      /\ \A i : At(t, i) = At(s, i) /\ E(t, i) = E(s, i)
    BY SamePlaces DEF E
<1>2. Ordered(t) /\ Recorded(t) /\ Decoded(t)
    BY <1>1, PlanKeeps DEF Buffer, SameEntry
<1>3. Older(t) /\ Told(t)
    BY <1>1 DEF Buffer, Older, Told
<1>4. Chained(t)
    BY <1>1 DEF Buffer, Chained
<1>5. Covered(t) /\ Flows(t)
    BY <1>1 DEF Buffer, Covered, Flows, Holds, Stands
<1> QED BY <1>1, <1>2, <1>3, <1>4, <1>5 DEF Buffer

\* No entry needs itself, or a later one.
LEMMA NeedsOlder ==
    ASSUME NEW s \in CoreState, Buffer(s), NEW i \in Positions(s), NEW j \in Positions(s),
           E(s, j).id \in E(s, i).needs
    PROVE  j \in 0..i-1
<1>1. i \in Nat /\ j \in Nat /\ E(s, i) \in Entry /\ E(s, j) \in Entry
    BY Places
<1>2. Before(E(s, j).id, E(s, i).id)
    BY DEF Buffer, Recorded
<1>3. ASSUME j >= i PROVE FALSE
    <2>1. j = i \/ i \in 0..j-1
        BY <1>1, <1>3
    <2>2. j = i \/ Before(E(s, i).id, E(s, j).id)
        BY <2>1 DEF Buffer, Ordered
    <2>3. /\ E(s, i).id[1] \in Nat /\ E(s, i).id[2] \in Nat
          /\ E(s, j).id[1] \in Nat /\ E(s, j).id[2] \in Nat
        BY <1>1, EntryFields
    <2> QED BY <1>2, <2>2, <2>3 DEF Before
<1> QED BY <1>1, <1>3

\* A waiting entry that nothing holds up has all that it needs.
LEMMA FreeFlows ==
    ASSUME NEW s \in CoreState, Buffer(s), NEW i \in Positions(s), E(s, i).state = "issued",
           i = 0 \/ Free(E(s, i))
    PROVE  /\ E(s, i).after = {} /\ (E(s, i).instr_dep = None \/ E(s, i).isread)
           /\ \A j \in Positions(s) : E(s, j).id \in E(s, i).needs => Done(E(s, j))
<1>1. i \in Nat /\ E(s, i) \in Entry /\ None \notin Index /\ Index \subseteq Nat
    BY Places, Sizes DEF None, Index
<1>2. E(s, i).after = {} /\ (E(s, i).instr_dep = None \/ E(s, i).isread)
    <2>1. CASE i = 0
        <3>1. \A d \in (E(s, i).after \cup {E(s, i).instr_dep}) \ {None} : \E j \in 0..i-1 : At(s, j) = d
            BY DEF Buffer, Older
        <3>2. \A j : j \notin 0..i-1
            BY <2>1
        <3>3. E(s, i).after \subseteq Index
            BY <1>1, EntryFields
        <3> QED BY <1>1, <3>1, <3>2, <3>3
    <2>2. CASE Free(E(s, i))
        BY <2>2 DEF Free
    <2> QED BY <2>1, <2>2
<1>3. ASSUME NEW j \in Positions(s), E(s, j).id \in E(s, i).needs, ~Done(E(s, j)) PROVE FALSE
    <2>1. j \in 0..i-1
        BY <1>3, NeedsOlder
    <2>2. PICK l \in 0..i-1 : Holds(s, i, l)
        BY <1>3, <2>1 DEF Buffer, Covered
    <2>3. ~E(s, i).isread /\ At(s, l) = None
        BY <1>2, <2>2 DEF Holds
    <2>4. At(s, l) \in Index
        BY <2>2, Places
    <2> QED BY <1>1, <2>3, <2>4
<1> QED BY <1>2, <1>3

\* An entry with nothing to wait for is started, or finished.
Begun(s, t, i) ==
    LET k == At(s, i) IN
    /\ SameShape(s, t)
    /\ \A j \in Index : j # k => t.rob[j] = s.rob[j]
    /\ SameEntry(s.rob[k], t.rob[k])
    /\ t.rob[k].after = s.rob[k].after /\ t.rob[k].instr_dep = s.rob[k].instr_dep
    /\ \/ t.rob[k].state = "executing" /\ t.complete = s.complete
       \/ /\ t.rob[k].state = "completed" /\ t.rob[k].ready > 0
          /\ t.complete = s.complete \cup {k}

LEMMA BegunKeeps ==
    ASSUME NEW s \in CoreState, NEW t \in CoreState, Buffer(s), NEW i \in Positions(s),
           \/ E(s, i).state = "issued" /\ (i = 0 \/ Free(E(s, i)))
           \/ E(s, i).state = "executing",
           Begun(s, t, i)
    PROVE  Buffer(t)
<1>1. /\ Positions(t) = Positions(s) /\ InRob(t) = InRob(s)
      /\ \A j : At(t, j) = At(s, j) /\ E(t, j) = t.rob[At(s, j)]
    BY SamePlaces DEF Begun
<1>2. /\ \A j \in Positions(s) : j \in Nat /\ 0..j-1 \subseteq Positions(s) /\ At(s, j) \in Index
      /\ \A j, l \in Positions(s) : At(s, j) = At(s, l) => j = l
      /\ \A k : k \in InRob(s) <=> \E j \in Positions(s) : k = At(s, j)
    BY Places
<1>3. PICK k : k = At(s, i)
    OBVIOUS
<1>4. /\ \A j \in Positions(s) : j # i => E(t, j) = E(s, j)
      /\ E(t, i) = t.rob[k] /\ E(s, i) = s.rob[k] /\ k \in Index /\ k \in InRob(s)
      /\ \A j \in Index : j # k => t.rob[j] = s.rob[j]
    BY <1>1, <1>2, <1>3 DEF Begun, E
<1>5. /\ SameEntry(E(s, i), E(t, i)) /\ E(t, i).after = E(s, i).after
      /\ E(t, i).instr_dep = E(s, i).instr_dep
      /\ \/ E(t, i).state = "executing" /\ t.complete = s.complete
         \/ /\ E(t, i).state = "completed" /\ E(t, i).ready > 0
            /\ t.complete = s.complete \cup {k}
    BY <1>3, <1>4 DEF Begun
<1>6. \A j \in Positions(s) : /\ SameEntry(E(s, j), E(t, j)) /\ E(t, j).after = E(s, j).after
                              /\ E(t, j).instr_dep = E(s, j).instr_dep
    BY <1>4, <1>5 DEF SameEntry
<1>7. ~Done(E(s, i)) /\ ~Done(E(t, i))
    BY <1>5, Sizes DEF Done
<1>8. \A j \in Positions(s) : Done(E(t, j)) <=> Done(E(s, j))
    BY <1>4, <1>7
<1>9. Ordered(t) /\ Recorded(t) /\ Decoded(t)
    BY <1>6, PlanKeeps DEF Buffer, Begun
<1>10. Told(t)
    <2>1. k \notin s.complete
        BY <1>4 DEF Buffer, Told
    <2>2. ASSUME NEW x \in t.complete PROVE x \in InRob(t) /\ t.rob[x].state = "completed"
        <3>1. CASE x = k
            BY <1>1, <1>4, <1>5, <2>1, <2>2, <3>1
        <3>2. CASE x # k
            <4>1. x \in s.complete
                BY <1>5, <2>2, <3>2
            <4>2. x \in InRob(s) /\ s.rob[x].state = "completed"
                BY <4>1 DEF Buffer, Told
            <4>3. x \in Index
                BY <1>2, <4>2
            <4> QED BY <1>1, <1>4, <3>2, <4>2, <4>3
        <3> QED BY <3>1, <3>2
    <2>3. ASSUME NEW x \in InRob(t), t.rob[x].state = "completed", ~Done(t.rob[x])
          PROVE  x \in t.complete
        <3>1. x \in Index
            BY <1>1, <1>2
        <3>2. CASE x = k
            BY <1>4, <1>5, <2>3, <3>2
        <3>3. CASE x # k
            BY <1>1, <1>4, <1>5, <2>3, <3>1, <3>3 DEF Buffer, Told
        <3> QED BY <3>2, <3>3
    <2> QED BY <2>2, <2>3 DEF Told
<1>11. Older(t)
    <2> SUFFICES ASSUME NEW j \in Positions(s), NEW d \in (E(s, j).after \cup {E(s, j).instr_dep}) \ {None}
                 PROVE  /\ \E l \in 0..j-1 : At(s, l) = d
                        /\ t.rob[d].state = "completed" => d \in t.complete
        BY <1>1, <1>6 DEF Older
    <2>1. (\E l \in 0..j-1 : At(s, l) = d) /\ (s.rob[d].state = "completed" => d \in s.complete)
        BY DEF Buffer, Older
    <2>2. d \in Index
        BY <1>2, <2>1
    <2>3. t.rob[d].state = "completed" => d \in t.complete
        BY <1>4, <1>5, <2>1, <2>2
    <2> QED BY <2>1, <2>3
<1>12. /\ E(t, i).after = {} /\ (E(t, i).instr_dep = None \/ E(t, i).isread)
       /\ \A j \in Positions(s) : E(s, j).id \in E(s, i).needs => Done(E(s, j))
    <2>1. CASE E(s, i).state = "issued"
        <3>1. i = 0 \/ Free(E(s, i))
            BY <2>1
        <3> QED BY <1>5, <2>1, <3>1, FreeFlows DEF SameEntry
    <2>2. CASE E(s, i).state = "executing"
        BY <1>5, <2>2 DEF Buffer, Chained, Flows, SameEntry
    <2> QED BY <2>1, <2>2
<1>13. Chained(t)
    <2> SUFFICES ASSUME NEW j \in Positions(s)
                 PROVE  LET e == E(t, j) IN
        /\ e.instr_dep # None => /\ j > 0 /\ e.instr_dep = At(s, j-1)
                                 /\ E(t, j-1).id = <<e.id[1], e.id[2] - 1>>
        /\ e.instr_dep = None => \A l \in 0..j-1 : E(t, l).id[1] = e.id[1] => Done(E(t, l))
        /\ e.state # "invalid"
        /\ e.state # "issued" => e.after = {} /\ (e.instr_dep = None \/ e.isread)
        BY <1>1 DEF Chained
    <2>1. E(t, j).instr_dep # None => /\ j > 0 /\ E(t, j).instr_dep = At(s, j-1)
                                      /\ E(t, j-1).id = <<E(t, j).id[1], E(t, j).id[2] - 1>>
        <3> SUFFICES ASSUME E(s, j).instr_dep # None
                     PROVE  /\ j > 0 /\ E(s, j).instr_dep = At(s, j-1)
                            /\ E(t, j-1).id = <<E(t, j).id[1], E(t, j).id[2] - 1>>
            BY <1>6
        <3>1. /\ j > 0 /\ E(s, j).instr_dep = At(s, j-1)
              /\ E(s, j-1).id = <<E(s, j).id[1], E(s, j).id[2] - 1>>
            BY DEF Buffer, Chained
        <3>2. j - 1 \in Positions(s)
            BY <1>2, <3>1
        <3> QED BY <1>6, <3>1, <3>2 DEF SameEntry
    <2>2. ASSUME E(t, j).instr_dep = None, NEW l \in 0..j-1, E(t, l).id[1] = E(t, j).id[1]
          PROVE  Done(E(t, l))
        <3>1. l \in Positions(s)
            BY <1>2
        <3>2. E(s, j).instr_dep = None /\ E(s, l).id[1] = E(s, j).id[1]
            BY <1>6, <2>2, <3>1 DEF SameEntry
        <3>3. Done(E(s, l))
            BY <3>2 DEF Buffer, Chained
        <3> QED BY <1>8, <3>1, <3>3
    <2>3. /\ E(t, j).state # "invalid"
          /\ E(t, j).state # "issued" => E(t, j).after = {} /\ (E(t, j).instr_dep = None \/ E(t, j).isread)
        BY <1>4, <1>5, <1>12 DEF Buffer, Chained
    <2> QED BY <2>1, <2>2, <2>3
<1>14. Covered(t)
    <2> SUFFICES ASSUME NEW j \in Positions(s), E(t, j).state = "issued", NEW n \in 0..j-1,
                        E(t, n).id \in E(t, j).needs, ~Done(E(t, n))
                 PROVE  \E l \in 0..j-1 : Holds(t, j, l) /\ Stands(t, n, l)
        BY <1>1 DEF Covered
    <2>1. n \in Positions(s) /\ E(s, j).state = "issued"
        BY <1>2, <1>4, <1>5
    <2>2. E(s, n).id \in E(s, j).needs /\ ~Done(E(s, n))
        BY <1>6, <1>8, <2>1 DEF SameEntry
    <2>3. PICK l \in 0..j-1 : Holds(s, j, l) /\ Stands(s, n, l)
        BY <2>1, <2>2 DEF Buffer, Covered
    <2>4. l \in Positions(s)
        BY <1>2
    <2>5. Holds(t, j, l) /\ Stands(t, n, l)
        BY <1>1, <1>6, <2>1, <2>3, <2>4 DEF Holds, Stands, SameEntry
    <2> QED BY <2>5
<1>15. Flows(t)
    <2> SUFFICES ASSUME NEW j \in Positions(s), E(t, j).state # "issued", NEW n \in Positions(s),
                        E(s, n).id \in E(s, j).needs
                 PROVE  Done(E(s, n))
        BY <1>1, <1>6, <1>8 DEF Flows, SameEntry
    <2>1. CASE j = i
        BY <1>12, <2>1
    <2>2. CASE j # i
        BY <1>4, <2>2 DEF Buffer, Flows
    <2> QED BY <2>1, <2>2
<1> QED BY <1>9, <1>10, <1>11, <1>13, <1>14, <1>15 DEF Buffer

\* Time passes: what was ready, or done, stays so.
Aged(s, t) ==
    /\ SameShape(s, t) /\ t.complete = s.complete
    /\ \A k \in Index : t.rob[k] = Earlier(s.rob[k])

LEMMA AgedKeeps ==
    ASSUME NEW s \in CoreState, NEW t \in CoreState, Buffer(s), Aged(s, t) PROVE Buffer(t)
<1>1. /\ Positions(t) = Positions(s) /\ InRob(t) = InRob(s)
      /\ \A j : At(t, j) = At(s, j) /\ E(t, j) = t.rob[At(s, j)]
    BY SamePlaces DEF Aged
<1>2. /\ \A j \in Positions(s) : j \in Nat /\ 0..j-1 \subseteq Positions(s) /\ At(s, j) \in Index
      /\ \A k : k \in InRob(s) <=> \E j \in Positions(s) : k = At(s, j)
    BY Places
<1>3. ASSUME NEW k \in Index
      PROVE  /\ SameEntry(s.rob[k], t.rob[k]) /\ t.rob[k].after = s.rob[k].after
             /\ t.rob[k].instr_dep = s.rob[k].instr_dep /\ t.rob[k].state = s.rob[k].state
             /\ Done(s.rob[k]) => Done(t.rob[k])
    <2>1. s.rob[k] \in Entry /\ t.rob[k] = Earlier(s.rob[k])
        BY CoreFields DEF Aged
    <2> QED BY <2>1 DEF Entry, SameEntry, Done, Earlier
<1>4. \A j \in Positions(s) : /\ SameEntry(E(s, j), E(t, j)) /\ E(t, j).after = E(s, j).after
                              /\ E(t, j).instr_dep = E(s, j).instr_dep
                              /\ E(t, j).state = E(s, j).state
                              /\ Done(E(s, j)) => Done(E(t, j))
    BY <1>1, <1>2, <1>3 DEF E
<1>5. Ordered(t) /\ Recorded(t) /\ Decoded(t)
    BY <1>4, PlanKeeps DEF Buffer, Aged
<1>6. Told(t)
    <2>1. \A k \in InRob(s) : k \in Index
        BY <1>2
    <2> QED BY <1>1, <1>3, <2>1 DEF Buffer, Told, Aged
<1>7. Older(t)
    <2> SUFFICES ASSUME NEW j \in Positions(s), NEW d \in (E(s, j).after \cup {E(s, j).instr_dep}) \ {None}
                 PROVE  /\ \E l \in 0..j-1 : At(s, l) = d
                        /\ t.rob[d].state = "completed" => d \in t.complete
        BY <1>1, <1>4 DEF Older
    <2>1. (\E l \in 0..j-1 : At(s, l) = d) /\ (s.rob[d].state = "completed" => d \in s.complete)
        BY DEF Buffer, Older
    <2>2. d \in Index
        BY <1>2, <2>1
    <2> QED BY <1>3, <2>1, <2>2 DEF Aged
<1>8. Chained(t)
    <2> SUFFICES ASSUME NEW j \in Positions(s)
                 PROVE  LET e == E(t, j) IN
        /\ e.instr_dep # None => /\ j > 0 /\ e.instr_dep = At(s, j-1)
                                 /\ E(t, j-1).id = <<e.id[1], e.id[2] - 1>>
        /\ e.instr_dep = None => \A l \in 0..j-1 : E(t, l).id[1] = e.id[1] => Done(E(t, l))
        /\ e.state # "invalid"
        /\ e.state # "issued" => e.after = {} /\ (e.instr_dep = None \/ e.isread)
        BY <1>1 DEF Chained
    <2>1. E(t, j).instr_dep # None => /\ j > 0 /\ E(t, j).instr_dep = At(s, j-1)
                                      /\ E(t, j-1).id = <<E(t, j).id[1], E(t, j).id[2] - 1>>
        <3> SUFFICES ASSUME E(s, j).instr_dep # None
                     PROVE  /\ j > 0 /\ E(s, j).instr_dep = At(s, j-1)
                            /\ E(t, j-1).id = <<E(t, j).id[1], E(t, j).id[2] - 1>>
            BY <1>4
        <3>1. /\ j > 0 /\ E(s, j).instr_dep = At(s, j-1)
              /\ E(s, j-1).id = <<E(s, j).id[1], E(s, j).id[2] - 1>>
            BY DEF Buffer, Chained
        <3>2. j - 1 \in Positions(s)
            BY <1>2, <3>1
        <3> QED BY <1>4, <3>1, <3>2 DEF SameEntry
    <2>2. ASSUME E(t, j).instr_dep = None, NEW l \in 0..j-1, E(t, l).id[1] = E(t, j).id[1]
          PROVE  Done(E(t, l))
        <3>1. l \in Positions(s)
            BY <1>2
        <3>2. E(s, j).instr_dep = None /\ E(s, l).id[1] = E(s, j).id[1]
            BY <1>4, <2>2, <3>1 DEF SameEntry
        <3>3. Done(E(s, l))
            BY <3>2 DEF Buffer, Chained
        <3> QED BY <1>4, <3>1, <3>3
    <2>3. /\ E(t, j).state # "invalid"
          /\ E(t, j).state # "issued" => E(t, j).after = {} /\ (E(t, j).instr_dep = None \/ E(t, j).isread)
        BY <1>4 DEF Buffer, Chained, SameEntry
    <2> QED BY <2>1, <2>2, <2>3
<1>9. Covered(t)
    <2> SUFFICES ASSUME NEW j \in Positions(s), E(t, j).state = "issued", NEW n \in 0..j-1,
                        E(t, n).id \in E(t, j).needs, ~Done(E(t, n))
                 PROVE  \E l \in 0..j-1 : Holds(t, j, l) /\ Stands(t, n, l)
        BY <1>1 DEF Covered
    <2>1. n \in Positions(s) /\ E(s, j).state = "issued"
        BY <1>2, <1>4
    <2>2. E(s, n).id \in E(s, j).needs /\ ~Done(E(s, n))
        BY <1>4, <2>1 DEF SameEntry
    <2>3. PICK l \in 0..j-1 : Holds(s, j, l) /\ Stands(s, n, l)
        BY <2>1, <2>2 DEF Buffer, Covered
    <2>4. l \in Positions(s)
        BY <1>2
    <2>5. Holds(t, j, l) /\ Stands(t, n, l)
        BY <1>1, <1>4, <2>1, <2>3, <2>4 DEF Holds, Stands, SameEntry
    <2> QED BY <2>5
<1>10. Flows(t)
    BY <1>1, <1>4 DEF Buffer, Flows, SameEntry
<1> QED BY <1>5, <1>6, <1>7, <1>8, <1>9, <1>10 DEF Buffer
---------------------------------------------------------------------------------------
(* What is done lets go of those that wait for it, and leaves *)

\* Whoever lets go is done, and so are the accesses of its instruction before it.
LEMMA ResolvingDone ==
    ASSUME NEW s \in CoreState, Buffer(s), NEW k \in Resolving(s)
    PROVE  /\ k \in s.complete /\ k \in InRob(s) /\ Done(s.rob[k])
           /\ \A i \in Positions(s) : k = At(s, i) =>
                 \A j \in 0..i-1 : E(s, j).id[1] = E(s, i).id[1] => Done(E(s, j))
<1>1. k \in Complete(s)
    BY DEF Resolving
<1>2. \A x \in Complete(s) : x \in s.complete /\ x \in InRob(s) /\ Done(s.rob[x])
    BY DEF Complete, Buffer, Told, Done
<1>3. ASSUME NEW i \in Positions(s), k = At(s, i), NEW j \in 0..i-1, E(s, j).id[1] = E(s, i).id[1]
      PROVE  Done(E(s, j))
    <2>1. CASE s.rob[k].instr_dep = None
        BY <1>3, <2>1 DEF Buffer, Chained, E
    <2>2. CASE s.rob[k].instr_dep # None
        <3>1. /\ s.rob[k].instr_dep \in Complete(s)
              /\ s.rob[s.rob[k].instr_dep].instr_dep = None
            BY <2>2 DEF Resolving
        <3>2. /\ i > 0 /\ E(s, i).instr_dep = At(s, i-1)
              /\ E(s, i-1).id = <<E(s, i).id[1], E(s, i).id[2] - 1>>
            BY <1>3, <2>2 DEF Buffer, Chained, E
        <3>3. Done(E(s, i-1)) /\ E(s, i-1).instr_dep = None /\ E(s, i-1).id[1] = E(s, i).id[1]
            BY <1>2, <1>3, <3>1, <3>2 DEF E
        <3>4. i \in Nat /\ i - 1 \in Positions(s) /\ j \in Nat
            BY <3>2, Places
        <3>5. CASE j = i - 1
            BY <3>3, <3>5
        <3>6. CASE j # i - 1
            <4>1. j \in 0..(i-1)-1
                BY <3>4, <3>6
            <4> QED BY <1>3, <3>3, <3>4, <4>1 DEF Buffer, Chained
        <3> QED BY <3>5, <3>6
    <2> QED BY <2>1, <2>2
<1> QED BY <1>1, <1>2, <1>3

\* What an entry is after those in R let it go.
LetGo(e, R) ==
    IF e.state = "issued"
    THEN [e EXCEPT !.after = @ \ R, !.instr_dep = IF @ \in R THEN None ELSE @]
    ELSE [e EXCEPT !.instr_dep = IF e.isread /\ @ \in R THEN None ELSE @]

LEMMA ResolveIs ==
    ASSUME NEW s \in CoreState, NEW t, t = Resolve(s)
    PROVE  /\ t \in CoreState /\ SameShape(s, t) /\ t.complete = s.complete \ Resolving(s)
           /\ t.queue = s.queue /\ t.active = s.active /\ t.next = s.next
           /\ \A k \in InRob(s) : t.rob[k] = LetGo(s.rob[k], Resolving(s))
           /\ \A k \in InRob(s) : SameEntry(s.rob[k], t.rob[k]) /\ t.rob[k].state = s.rob[k].state
                 /\ t.rob[k].ready = s.rob[k].ready
<1> DEFINE R == Resolving(s)
<1> HIDE DEF R
<1>1. /\ s.rob \in [Index -> Entry] /\ s.complete \subseteq Index /\ s.wake \subseteq Nat
      /\ \A k \in InRob(s) : k \in Index
    BY CoreFields, Places
<1>2. ASSUME NEW e \in Entry
      PROVE  LetGo(e, R) \in Entry /\ SameEntry(e, LetGo(e, R)) /\ LetGo(e, R).state = e.state
             /\ LetGo(e, R).ready = e.ready
    BY ZenonT(60) DEF LetGo, Entry, SameEntry
<1>3. PICK rob : rob = [k \in Index |-> IF k \in InRob(s) THEN LetGo(s.rob[k], R) ELSE s.rob[k]]
    OBVIOUS
<1>4. rob \in [Index -> Entry]
    BY <1>1, <1>2, <1>3
<1>5. PICK wake : /\ wake \subseteq Nat
                  /\ t = [s EXCEPT !.rob = rob, !.complete = s.complete \ R, !.wake = wake]
    <2>1. PICK w : w = IF \E k \in InRob(s) : Done(s.rob[k]) /\ s.rob[k].instr_dep = None
                       THEN s.wake \cup {1} ELSE s.wake
        OBVIOUS
    <2>2. w \subseteq Nat
        BY <1>1, <2>1
    <2>3. t = [s EXCEPT !.rob = rob, !.complete = s.complete \ R, !.wake = w]
        BY <1>3, <2>1 DEF Resolve, Unresolved, LetGo, R
    <2> QED BY <2>2, <2>3
<1>6. /\ t \in CoreState /\ t.head = s.head /\ t.size = s.size /\ t.complete = s.complete \ R
      /\ t.queue = s.queue /\ t.active = s.active /\ t.next = s.next /\ t.rob = rob
    BY <1>1, <1>4, <1>5 DEF CoreState
<1>7. \A k \in InRob(s) : t.rob[k] = LetGo(s.rob[k], R) /\ s.rob[k] \in Entry
    BY <1>1, <1>3, <1>6
<1> QED BY <1>2, <1>6, <1>7 DEF R, SameShape

\* When those that are done up to a position have let go, none of them has yet to.
Clean(s) ==
    \A i \in Positions(s) : (\A l \in 0..i : Done(E(s, l))) => At(s, i) \notin s.complete

LEMMA ResolveCleans ==
    ASSUME NEW s \in CoreState, Buffer(s), NEW i \in Positions(s), \A l \in 0..i : Done(E(s, l)),
           At(s, i) \in s.complete
    PROVE  At(s, i) \in Resolving(s)
<1>1. /\ i \in Nat /\ i \in 0..i /\ E(s, i) \in Entry /\ At(s, i) \in Index
      /\ \A l \in 0..i-1 : l \in 0..i /\ l \in Positions(s)
    BY Places
<1>2. Done(E(s, i)) /\ At(s, i) \in Complete(s)
    BY <1>1 DEF Complete, Done, E
<1>3. CASE E(s, i).instr_dep = None
    BY <1>2, <1>3 DEF Resolving, E
<1>4. CASE E(s, i).instr_dep # None
    <2>1. /\ i > 0 /\ E(s, i).instr_dep = At(s, i-1) /\ E(s, i-1).id[2] = E(s, i).id[2] - 1
        BY <1>4 DEF Buffer, Chained
    <2>2. E(s, i).isread
        BY <1>2, <1>4 DEF Buffer, Chained, Done
    <2>3. i - 1 \in Positions(s) /\ i - 1 \in 0..i-1 /\ Done(E(s, i-1)) /\ E(s, i-1) \in Entry
        BY <1>1, <2>1, Places
    <2>4. E(s, i).id[2] \in 1..3 /\ E(s, i).id[2] # 3 /\ E(s, i-1).id[2] \in 1..3
        BY <2>2, <2>3 DEF Buffer, Ordered
    <2>5. E(s, i-1).id[2] = 1
        BY <2>1, <2>4
    <2>6. E(s, i-1).instr_dep = None
        <3> SUFFICES ASSUME E(s, i-1).instr_dep # None PROVE FALSE
            OBVIOUS
        <3>1. /\ i - 1 > 0 /\ E(s, (i-1)-1).id[2] = 0
            BY <2>3, <2>5 DEF Buffer, Chained
        <3>2. (i-1)-1 \in Positions(s)
            BY <1>1, <3>1
        <3>3. E(s, (i-1)-1).id[2] \in 1..3
            BY <3>2 DEF Buffer, Ordered
        <3> QED BY <3>1, <3>3
    <2>7. At(s, i-1) \in s.complete
        <3>1. E(s, i).instr_dep \in (E(s, i).after \cup {E(s, i).instr_dep}) \ {None}
            BY <1>4
        <3>2. s.rob[E(s, i).instr_dep].state = "completed" => E(s, i).instr_dep \in s.complete
            BY <3>1 DEF Buffer, Older
        <3> QED BY <2>1, <2>3, <3>2 DEF Done, E
    <2>8. At(s, i-1) \in Complete(s)
        BY <2>3, <2>7 DEF Complete, Done, E
    <2> QED BY <1>2, <2>1, <2>2, <2>6, <2>8 DEF Resolving, E
<1> QED BY <1>3, <1>4

LEMMA ResolveKeeps ==
    ASSUME NEW s \in CoreState, NEW t, t = Resolve(s), Buffer(s) PROVE Buffer(t) /\ Clean(t)
<1> DEFINE R == Resolving(s)
<1>1. /\ t \in CoreState /\ SameShape(s, t) /\ t.complete = s.complete \ R
      /\ \A k \in InRob(s) : t.rob[k] = LetGo(s.rob[k], R)
    BY ResolveIs
<1>2. \A k \in R : k \in InRob(s) /\ Done(s.rob[k])
    BY ResolvingDone
<1>3. \A i \in Positions(s) : At(s, i) \in R =>
         \A j \in 0..i-1 : E(s, j).id[1] = E(s, i).id[1] => Done(E(s, j))
    BY ResolvingDone
<1>4. \A i \in Positions(s) :
         (\A l \in 0..i : Done(E(s, l))) /\ At(s, i) \in s.complete => At(s, i) \in R
    BY ResolveCleans
<1> HIDE DEF R
<1>5. /\ Positions(t) = Positions(s) /\ InRob(t) = InRob(s)
      /\ \A j : At(t, j) = At(s, j) /\ E(t, j) = t.rob[At(s, j)]
    BY <1>1, SamePlaces
<1>6. /\ \A j \in Positions(s) : j \in Nat /\ 0..j-1 \subseteq Positions(s) /\ 0..j \subseteq Positions(s)
            /\ At(s, j) \in Index
      /\ \A k : k \in InRob(s) <=> \E j \in Positions(s) : k = At(s, j)
      /\ None \notin Index /\ R \subseteq Index
    <2>1. \A j \in Positions(s) : j \in Nat /\ 0..j-1 \subseteq Positions(s) /\ At(s, j) \in Index
        BY Places
    <2>2. \A k : k \in InRob(s) <=> \E j \in Positions(s) : k = At(s, j)
        BY Places
    <2>3. \A j \in Positions(s) : 0..j \subseteq Positions(s)
        BY <2>1
    <2> QED BY <1>2, <2>1, <2>2, <2>3, Sizes DEF None, Index
<1>7. ASSUME NEW i \in Positions(s)
      PROVE  /\ SameEntry(E(s, i), E(t, i)) /\ E(t, i).state = E(s, i).state
             /\ (Done(E(t, i)) <=> Done(E(s, i)))
             /\ E(t, i).after \subseteq E(s, i).after /\ E(s, i).after \subseteq E(t, i).after \cup R
             /\ E(t, i).after \cap R = {} /\ E(t, i).instr_dep \notin R
             /\ \/ E(t, i).instr_dep = E(s, i).instr_dep
                \/ E(t, i).instr_dep = None /\ E(s, i).instr_dep \in R
    <2>1. E(s, i) \in Entry /\ E(t, i) = LetGo(E(s, i), R)
        BY <1>1, <1>5, <1>6, Places DEF E
    <2>2. SameEntry(E(s, i), E(t, i)) /\ E(t, i).state = E(s, i).state /\ E(t, i).ready = E(s, i).ready
        BY <1>1, <1>5, <1>6, ResolveIs DEF E
    <2>3. E(s, i).state # "issued" => E(s, i).after = {} /\ (E(s, i).instr_dep = None \/ E(s, i).isread)
        BY DEF Buffer, Chained
    <2>4. None \notin R
        BY <1>6
    <2>5. CASE E(s, i).state = "issued"
        <3>1. /\ E(t, i).after = E(s, i).after \ R
              /\ E(t, i).instr_dep = IF E(s, i).instr_dep \in R THEN None ELSE E(s, i).instr_dep
            BY <2>1, <2>5 DEF LetGo, Entry
        <3> QED BY <2>2, <2>4, <3>1 DEF Done
    <2>6. CASE E(s, i).state # "issued"
        <3>1. /\ E(t, i).after = E(s, i).after
              /\ E(t, i).instr_dep = IF E(s, i).isread /\ E(s, i).instr_dep \in R THEN None
                                     ELSE E(s, i).instr_dep
            BY <2>1, <2>6 DEF LetGo, Entry
        <3> QED BY <2>2, <2>3, <2>4, <2>6, <3>1 DEF Done
    <2> QED BY <2>5, <2>6
<1>8. Ordered(t) /\ Recorded(t) /\ Decoded(t)
    BY <1>1, <1>7, PlanKeeps DEF Buffer
<1>9. Told(t)
    <2>1. ASSUME NEW k \in InRob(s) PROVE t.rob[k].state = s.rob[k].state /\ t.rob[k].ready = s.rob[k].ready
        BY ResolveIs
    <2>2. ASSUME NEW k \in t.complete PROVE k \in InRob(t) /\ t.rob[k].state = "completed"
        BY <1>1, <1>5, <2>1, <2>2 DEF Buffer, Told
    <2>3. ASSUME NEW k \in InRob(t), t.rob[k].state = "completed", ~Done(t.rob[k])
          PROVE  k \in t.complete
        <3>1. s.rob[k].state = "completed" /\ ~Done(s.rob[k])
            BY <1>5, <2>1, <2>3 DEF Done
        <3>2. k \in s.complete
            BY <1>5, <2>3, <3>1 DEF Buffer, Told
        <3> QED BY <1>1, <1>2, <3>1, <3>2
    <2> QED BY <2>2, <2>3 DEF Told
<1>10. Older(t)
    <2> SUFFICES ASSUME NEW j \in Positions(s), NEW d \in (E(t, j).after \cup {E(t, j).instr_dep}) \ {None}
                 PROVE  /\ \E l \in 0..j-1 : At(s, l) = d
                        /\ t.rob[d].state = "completed" => d \in t.complete
        BY <1>5 DEF Older
    <2>1. d \in (E(s, j).after \cup {E(s, j).instr_dep}) \ {None} /\ d \notin R
        BY <1>7
    <2>2. (\E l \in 0..j-1 : At(s, l) = d) /\ (s.rob[d].state = "completed" => d \in s.complete)
        BY <2>1 DEF Buffer, Older
    <2>3. d \in InRob(s)
        BY <1>6, <2>2
    <2>4. t.rob[d].state = s.rob[d].state
        BY <2>3, ResolveIs
    <2> QED BY <1>1, <2>1, <2>2, <2>4
<1>11. Chained(t)
    <2> SUFFICES ASSUME NEW j \in Positions(s)
                 PROVE  LET e == E(t, j) IN
        /\ e.instr_dep # None => /\ j > 0 /\ e.instr_dep = At(s, j-1)
                                 /\ E(t, j-1).id = <<e.id[1], e.id[2] - 1>>
        /\ e.instr_dep = None => \A l \in 0..j-1 : E(t, l).id[1] = e.id[1] => Done(E(t, l))
        /\ e.state # "invalid"
        /\ e.state # "issued" => e.after = {} /\ (e.instr_dep = None \/ e.isread)
        BY <1>5 DEF Chained
    <2>1. E(t, j).instr_dep # None => /\ j > 0 /\ E(t, j).instr_dep = At(s, j-1)
                                      /\ E(t, j-1).id = <<E(t, j).id[1], E(t, j).id[2] - 1>>
        <3> SUFFICES ASSUME E(t, j).instr_dep # None
                     PROVE  /\ j > 0 /\ E(t, j).instr_dep = At(s, j-1)
                            /\ E(t, j-1).id = <<E(t, j).id[1], E(t, j).id[2] - 1>>
            OBVIOUS
        <3>1. E(t, j).instr_dep = E(s, j).instr_dep
            BY <1>7
        <3>2. /\ j > 0 /\ E(s, j).instr_dep = At(s, j-1)
              /\ E(s, j-1).id = <<E(s, j).id[1], E(s, j).id[2] - 1>>
            BY <3>1 DEF Buffer, Chained
        <3>3. j - 1 \in Positions(s)
            BY <1>6, <3>2
        <3> QED BY <1>7, <3>1, <3>2, <3>3 DEF SameEntry
    <2>2. ASSUME E(t, j).instr_dep = None, NEW l \in 0..j-1, E(t, l).id[1] = E(t, j).id[1]
          PROVE  Done(E(t, l))
        <3>1. l \in Positions(s)
            BY <1>6
        <3>2. E(s, l).id[1] = E(s, j).id[1]
            BY <1>7, <2>2, <3>1 DEF SameEntry
        <3>3. Done(E(s, l))
            <4>1. CASE E(s, j).instr_dep = None
                BY <3>2, <4>1 DEF Buffer, Chained
            <4>2. CASE E(s, j).instr_dep # None
                <5>1. E(s, j).instr_dep \in R
                    BY <1>7, <2>2, <4>2
                <5>2. /\ j > 0 /\ E(s, j).instr_dep = At(s, j-1)
                      /\ E(s, j-1).id = <<E(s, j).id[1], E(s, j).id[2] - 1>>
                    BY <4>2 DEF Buffer, Chained
                <5>3. j \in Nat /\ j - 1 \in Positions(s) /\ l \in Nat
                    BY <1>6, <5>2
                <5>4. CASE l = j - 1
                    BY <1>2, <5>1, <5>2, <5>4 DEF E
                <5>5. CASE l # j - 1
                    <6>1. l \in 0..(j-1)-1 /\ E(s, l).id[1] = E(s, j-1).id[1]
                        BY <3>2, <5>2, <5>3, <5>5
                    <6> QED BY <1>3, <5>1, <5>2, <5>3, <6>1
                <5> QED BY <5>4, <5>5
            <4> QED BY <4>1, <4>2
        <3> QED BY <1>7, <3>1, <3>3
    <2>3. /\ E(t, j).state # "invalid"
          /\ E(t, j).state # "issued" => E(t, j).after = {} /\ (E(t, j).instr_dep = None \/ E(t, j).isread)
        <3>1. /\ E(s, j).state # "invalid"
              /\ E(s, j).state # "issued" => E(s, j).after = {} /\ (E(s, j).instr_dep = None \/ E(s, j).isread)
            BY DEF Buffer, Chained
        <3> QED BY <1>7, <3>1 DEF SameEntry
    <2> QED BY <2>1, <2>2, <2>3
<1>12. Covered(t)
    <2> SUFFICES ASSUME NEW j \in Positions(s), E(t, j).state = "issued", NEW n \in 0..j-1,
                        E(t, n).id \in E(t, j).needs, ~Done(E(t, n))
                 PROVE  \E l \in 0..j-1 : Holds(t, j, l) /\ Stands(t, n, l)
        BY <1>5 DEF Covered
    <2>1. n \in Positions(s) /\ E(s, j).state = "issued" /\ n \in Nat
        BY <1>6, <1>7
    <2>2. E(s, n).id \in E(s, j).needs /\ ~Done(E(s, n))
        BY <1>7, <2>1 DEF SameEntry
    <2>3. PICK l \in 0..j-1 : Holds(s, j, l) /\ Stands(s, n, l)
        BY <2>1, <2>2 DEF Buffer, Covered
    <2>4. l \in Positions(s) /\ l \in Nat
        BY <1>6
    <2>5. At(s, l) \notin R
        <3> SUFFICES ASSUME At(s, l) \in R PROVE FALSE
            OBVIOUS
        <3>1. Done(E(s, l))
            BY <1>2 DEF E
        <3>2. CASE E(s, l).id[1] = E(s, n).id[1] /\ n <= l
            <4>1. n = l \/ n \in 0..l-1
                BY <2>1, <2>4, <3>2
            <4> QED BY <1>3, <2>2, <2>4, <3>1, <3>2, <4>1
        <3>3. CASE E(s, n).id \in E(s, l).needs
            BY <2>1, <2>2, <2>4, <3>1, <3>3 DEF Buffer, Flows, Done
        <3> QED BY <2>3, <3>2, <3>3 DEF Stands
    <2>6. Holds(t, j, l)
        <3>1. CASE At(s, l) \in E(s, j).after
            BY <1>5, <1>7, <2>5, <3>1 DEF Holds
        <3>2. CASE ~E(s, j).isread /\ E(s, j).instr_dep = At(s, l)
            BY <1>5, <1>7, <2>5, <3>2 DEF Holds, SameEntry
        <3> QED BY <2>3, <3>1, <3>2 DEF Holds
    <2>7. Stands(t, n, l)
        BY <1>7, <2>1, <2>3, <2>4 DEF Stands, SameEntry
    <2> QED BY <2>6, <2>7
<1>13. Flows(t)
    BY <1>5, <1>7 DEF Buffer, Flows, SameEntry
<1>14. Clean(t)
    <2> SUFFICES ASSUME NEW i \in Positions(s), \A l \in 0..i : Done(E(t, l)), At(s, i) \in t.complete
                 PROVE  FALSE
        BY <1>5 DEF Clean
    <2>1. \A l \in 0..i : Done(E(s, l))
        BY <1>6, <1>7
    <2> QED BY <1>1, <1>4, <2>1
<1> QED BY <1>8, <1>9, <1>10, <1>11, <1>12, <1>13, <1>14 DEF Buffer

\* The smaller of two numbers, the larger one.
LEMMA Smaller ==
    ASSUME NEW a \in Int, NEW b \in Int
    PROVE  Min({a, b}) = (IF a <= b THEN a ELSE b) /\ Max({a, b}) = (IF a <= b THEN b ELSE a)
<1>1. \E x \in {a, b} : \A y \in {a, b} : x <= y
    OBVIOUS
<1>2. Min({a, b}) \in {a, b} /\ \A y \in {a, b} : Min({a, b}) <= y
    BY <1>1 DEF Min
<1>3. \E x \in {a, b} : \A y \in {a, b} : x >= y
    OBVIOUS
<1>4. Max({a, b}) \in {a, b} /\ \A y \in {a, b} : Max({a, b}) >= y
    BY <1>3 DEF Max
<1> QED BY <1>2, <1>4

\* The first n of the buffer leave.
LeftFirst(s, t, n) ==
    /\ n \in 0..s.size /\ \A i \in 0..n-1 : Done(E(s, i))
    /\ t \in CoreState /\ t.head = At(s, n) /\ t.size = s.size - n /\ t.complete = s.complete
    /\ t.queue = s.queue /\ t.active = s.active /\ t.next = s.next
    /\ \A i \in Positions(s) : i >= n => t.rob[At(s, i)] = s.rob[At(s, i)]

LEMMA EmptyEntry == NoEntry \in Entry
BY DEF NoEntry, Entry, Id, Word, Kinds

LEMMA CommitIs ==
    ASSUME NEW s \in CoreState, NEW t, t = Commit(s) PROVE \E n \in Nat : LeftFirst(s, t, n)
<1> USE Sizes
<1> DEFINE whole == {n \in 0..s.size : \A i \in 0..n-1 : Done(s.rob[At(s, i)])}
           n == Min({Max(whole), max_commit_width})
           left == {At(s, i) : i \in 0..n-1}
<1>1. s.size \in Nat /\ s.size < o3rob_max_size
    BY Places
<1>2. Max(whole) \in whole
    <2>1. 0 \in whole /\ whole \in SUBSET (0..s.size)
        BY <1>1
    <2> HIDE DEF whole
    <2> QED BY <1>1, <2>1, Largest
<1>3. n \in Nat /\ n <= Max(whole)
    <2> HIDE DEF whole
    <2>1. Max(whole) \in Nat
        BY <1>2 DEF whole
    <2> QED BY <2>1, Smaller
<1>4. n \in 0..s.size /\ \A i \in 0..n-1 : Done(E(s, i))
    <2>1. PICK w : w = Max(whole)
        OBVIOUS
    <2>2. w \in 0..s.size /\ \A i \in 0..w-1 : Done(s.rob[At(s, i)])
        BY <1>2, <2>1
    <2> HIDE DEF n
    <2>3. n \in Nat /\ n <= w
        BY <1>3, <2>1
    <2>4. n \in 0..s.size /\ \A i \in 0..n-1 : i \in 0..w-1
        BY <1>1, <2>2, <2>3
    <2> QED BY <2>2, <2>4 DEF E
<1>5. PICK rob : rob = [k \in Index |-> IF k \in left THEN NoEntry ELSE s.rob[k]]
    OBVIOUS
<1>6. PICK wake : wake \subseteq Nat /\ t = [s EXCEPT !.rob = rob, !.head = At(s, n), !.size = @ - n,
                                                      !.wake = wake]
    <2>1. PICK w : w = IF n < Max(whole) THEN s.wake \cup {1} ELSE s.wake
        OBVIOUS
    <2>2. w \subseteq Nat
        BY <2>1, CoreFields
    <2>3. t = [s EXCEPT !.rob = rob, !.head = At(s, n), !.size = @ - n, !.wake = w]
        BY <1>5, <2>1 DEF Commit
    <2> QED BY <2>2, <2>3
<1>7. rob \in [Index -> Entry]
    BY <1>5, CoreFields, EmptyEntry
<1>8. At(s, n) \in Index /\ n \in Index
    <2>1. n \in Index
        BY <1>1, <1>4 DEF Index
    <2> QED BY <2>1, Places
<1> HIDE DEF n
<1>9. /\ t \in CoreState /\ t.head = At(s, n) /\ t.size = s.size - n /\ t.complete = s.complete
      /\ t.queue = s.queue /\ t.active = s.active /\ t.next = s.next /\ t.rob = rob
    <2>1. s.size - n \in 0..o3rob_max_size-1
        BY <1>1, <1>4
    <2> QED BY <1>6, <1>7, <1>8, <2>1 DEF CoreState
<1>10. ASSUME NEW i \in Positions(s), i >= n PROVE t.rob[At(s, i)] = s.rob[At(s, i)]
    <2>1. At(s, i) \notin left
        <3> SUFFICES ASSUME NEW j \in 0..n-1, At(s, i) = At(s, j) PROVE FALSE
            OBVIOUS
        <3>1. i \in Index /\ j \in Index
            BY <1>1, <1>4, Places DEF Index
        <3>2. i = j
            BY <3>1, Places
        <3> QED BY <1>4, <1>10, <3>2
    <2>2. At(s, i) \in Index
        BY Places
    <2> QED BY <1>5, <1>9, <2>1, <2>2
<1> QED BY <1>3, <1>4, <1>9, <1>10 DEF LeftFirst

LEMMA LeftPlaces ==
    ASSUME NEW s \in CoreState, NEW t, NEW n \in Nat, LeftFirst(s, t, n)
    PROVE  /\ \A i \in Positions(t) : i \in Nat /\ n + i \in Positions(s) /\ At(t, i) = At(s, n + i)
                                      /\ E(t, i) = E(s, n + i)
           /\ \A i \in Positions(s) : i >= n => i - n \in Positions(t)
           /\ \A k \in InRob(t) : k \in InRob(s) /\ t.rob[k] = s.rob[k]
           /\ \A k \in InRob(s) : k \in InRob(t) \/ \E i \in 0..n-1 : i \in Positions(s) /\ k = At(s, i)
<1> USE Sizes
<1>1. s.size \in Nat /\ s.size < o3rob_max_size /\ n <= s.size /\ t \in CoreState
      /\ t.size = s.size - n /\ t.head = At(s, n)
    BY Places DEF LeftFirst
<1>2. ASSUME NEW i \in Positions(t)
      PROVE  i \in Nat /\ n + i \in Positions(s) /\ At(t, i) = At(s, n + i) /\ E(t, i) = E(s, n + i)
    <2>1. i \in Nat /\ n + i \in Positions(s) /\ n + i >= n /\ n + i < o3rob_max_size
        BY <1>1 DEF Positions
    <2>2. n \in 0..s.size
        BY <1>1
    <2>3. At(t, i) = At(s, n + i)
        BY <1>1, <2>1, <2>2, Shifted
    <2>4. E(t, i) = E(s, n + i)
        BY <2>1, <2>3 DEF LeftFirst, E
    <2> QED BY <2>1, <2>3, <2>4
<1>3. ASSUME NEW i \in Positions(s), i >= n PROVE i - n \in Positions(t)
    BY <1>1, <1>3 DEF Positions
<1>4. ASSUME NEW k \in InRob(t) PROVE k \in InRob(s) /\ t.rob[k] = s.rob[k]
    <2>1. PICK i \in Positions(t) : k = At(t, i)
        BY DEF InRob
    <2> QED BY <1>2, <2>1 DEF InRob, E
<1>5. ASSUME NEW k \in InRob(s), k \notin InRob(t) PROVE \E i \in 0..n-1 : i \in Positions(s) /\ k = At(s, i)
    <2>1. PICK i \in Positions(s) : k = At(s, i)
        BY DEF InRob
    <2>2. i \in Nat
        BY Places
    <2>3. CASE i >= n
        <3>1. i - n \in Positions(t) /\ n + (i - n) = i
            BY <1>3, <2>2, <2>3
        <3>2. At(t, i - n) = k
            BY <1>2, <2>1, <3>1
        <3> QED BY <1>5, <3>1, <3>2 DEF InRob
    <2>4. CASE ~(i >= n)
        <3>1. i \in 0..n-1
            BY <2>2, <2>4
        <3> QED BY <2>1, <3>1
    <2> QED BY <2>3, <2>4
<1> QED BY <1>2, <1>3, <1>4, <1>5

LEMMA CommitKeeps ==
    ASSUME NEW s \in CoreState, NEW t, NEW n \in Nat, LeftFirst(s, t, n), Buffer(s), Clean(s)
    PROVE  Buffer(t)
<1>1. /\ \A i \in Positions(t) : i \in Nat /\ n + i \in Positions(s) /\ At(t, i) = At(s, n + i)
                                 /\ E(t, i) = E(s, n + i)
      /\ \A i \in Positions(s) : i >= n => i - n \in Positions(t)
      /\ \A k \in InRob(t) : k \in InRob(s) /\ t.rob[k] = s.rob[k]
      /\ \A k \in InRob(s) : k \in InRob(t) \/ \E i \in 0..n-1 : i \in Positions(s) /\ k = At(s, i)
    BY LeftPlaces
<1>2. /\ t \in CoreState /\ \A i \in 0..n-1 : Done(E(s, i)) /\ i \in Positions(s)
      /\ \A i \in Positions(t) : 0..i-1 \subseteq Positions(t)
      /\ \A i \in Positions(s) : i \in Nat /\ 0..i-1 \subseteq Positions(s)
      /\ t.complete = s.complete
    <2>1. t \in CoreState /\ t.complete = s.complete /\ n \in 0..s.size /\ \A i \in 0..n-1 : Done(E(s, i))
        BY DEF LeftFirst
    <2>2. s.size \in Nat
        BY Places
    <2>3. \A i \in 0..n-1 : i \in Positions(s)
        BY <2>1, <2>2 DEF Positions
    <2> QED BY <2>1, <2>3, Places
<1>3. ASSUME NEW i \in 0..n-1 PROVE At(s, i) \notin s.complete
    <2>1. i \in Positions(s) /\ \A l \in 0..i : l \in 0..n-1
        BY <1>2
    <2> QED BY <1>2, <2>1 DEF Clean
<1>4. ASSUME NEW i \in Positions(t), NEW d \in (E(t, i).after \cup {E(t, i).instr_dep}) \ {None},
             NEW l \in 0..(n+i)-1, At(s, l) = d
      PROVE  l >= n /\ l - n \in 0..i-1 /\ At(t, l - n) = d /\ t.rob[d] = s.rob[d]
             /\ E(t, l - n) = E(s, l)
    <2>1. d \in (E(s, n + i).after \cup {E(s, n + i).instr_dep}) \ {None} /\ n + i \in Positions(s)
          /\ i \in Nat
        BY <1>1
    <2>2. s.rob[d].state = "completed" => d \in s.complete
        BY <2>1 DEF Buffer, Older
    <2>3. l \in Positions(s) /\ l \in Nat
        BY <1>2, <2>1
    <2>4. l >= n
        <3> SUFFICES ASSUME ~(l >= n) PROVE FALSE
            OBVIOUS
        <3>1. l \in 0..n-1
            BY <2>3
        <3>2. s.rob[d].state = "completed"
            BY <1>2, <1>4, <3>1 DEF Done, E
        <3> QED BY <1>3, <1>4, <2>2, <3>1, <3>2
    <2>5. l - n \in 0..i-1 /\ n + (l - n) = l
        BY <2>1, <2>3, <2>4
    <2>6. l - n \in Positions(t)
        BY <1>2, <2>5
    <2>7. At(t, l - n) = d /\ E(t, l - n) = E(s, l)
        BY <1>1, <1>4, <2>5, <2>6
    <2> QED BY <1>4, <2>4, <2>5, <2>7 DEF E
<1>5. Ordered(t)
    <2>1. ASSUME NEW i \in Positions(t), NEW j \in 0..i-1 PROVE Before(E(t, j).id, E(t, i).id)
        <3>1. j \in Positions(t) /\ n + j \in 0..(n+i)-1
            BY <1>1, <1>2
        <3> QED BY <1>1, <3>1 DEF Buffer, Ordered
    <2>2. \A i \in Positions(t) : /\ E(t, i).id[2] \in 1..3
                                  /\ E(t, i).id[2] = 3 => ~E(t, i).isread
        BY <1>1 DEF Buffer, Ordered
    <2> QED BY <2>1, <2>2 DEF Ordered
<1>6. Recorded(t)
    <2>1. ASSUME NEW i \in Positions(t), NEW j \in 0..i-1
          PROVE  SameWord(E(t, j), E(t, i).addr) \/ (E(t, j).branch_miss /\ E(t, j).id[1] # E(t, i).id[1])
                 => E(t, j).id \in E(t, i).needs
        <3>1. j \in Positions(t) /\ n + j \in 0..(n+i)-1 /\ n + i \in Positions(s)
            BY <1>1, <1>2
        <3>2. E(t, j) = E(s, n + j) /\ E(t, i) = E(s, n + i)
            BY <1>1, <3>1
        <3>3. LET e == E(s, n + i) f == E(s, n + j) IN
              SameWord(f, e.addr) \/ (f.branch_miss /\ f.id[1] # e.id[1]) => f.id \in e.needs
            BY <3>1 DEF Buffer, Recorded
        <3> QED BY <3>2, <3>3
    <2>2. \A i \in Positions(t) : \A x \in E(t, i).needs : Before(x, E(t, i).id)
        BY <1>1 DEF Buffer, Recorded
    <2> QED BY <2>1, <2>2 DEF Recorded
<1>12. Decoded(t)
    BY <1>1 DEF Buffer, Decoded
<1>7. Older(t)
    <2> SUFFICES ASSUME NEW i \in Positions(t), NEW d \in (E(t, i).after \cup {E(t, i).instr_dep}) \ {None}
                 PROVE  /\ \E l \in 0..i-1 : At(t, l) = d
                        /\ t.rob[d].state = "completed" => d \in t.complete
        BY DEF Older
    <2>1. d \in (E(s, n + i).after \cup {E(s, n + i).instr_dep}) \ {None} /\ n + i \in Positions(s)
        BY <1>1
    <2>2. (\E l \in 0..(n+i)-1 : At(s, l) = d) /\ (s.rob[d].state = "completed" => d \in s.complete)
        BY <2>1 DEF Buffer, Older
    <2>3. PICK l \in 0..(n+i)-1 : At(s, l) = d
        BY <2>2
    <2>4. l - n \in 0..i-1 /\ At(t, l - n) = d /\ t.rob[d] = s.rob[d]
        BY <1>4, <2>3
    <2> QED BY <1>2, <2>2, <2>4
<1>8. Told(t)
    <2>1. ASSUME NEW k \in t.complete PROVE k \in InRob(t) /\ t.rob[k].state = "completed"
        <3>1. k \in InRob(s) /\ s.rob[k].state = "completed"
            BY <1>2, <2>1 DEF Buffer, Told
        <3>2. k \in InRob(t)
            BY <1>1, <1>2, <1>3, <2>1, <3>1
        <3> QED BY <1>1, <3>1, <3>2
    <2>2. ASSUME NEW k \in InRob(t), t.rob[k].state = "completed", ~Done(t.rob[k]) PROVE k \in t.complete
        BY <1>1, <1>2, <2>2 DEF Buffer, Told
    <2> QED BY <2>1, <2>2 DEF Told
<1>9. Chained(t)
    <2> SUFFICES ASSUME NEW j \in Positions(t)
                 PROVE  LET e == E(t, j) IN
        /\ e.instr_dep # None => /\ j > 0 /\ e.instr_dep = At(t, j-1)
                                 /\ E(t, j-1).id = <<e.id[1], e.id[2] - 1>>
        /\ e.instr_dep = None => \A l \in 0..j-1 : E(t, l).id[1] = e.id[1] => Done(E(t, l))
        /\ e.state # "invalid"
        /\ e.state # "issued" => e.after = {} /\ (e.instr_dep = None \/ e.isread)
        BY DEF Chained
    <2>0. j \in Nat /\ n + j \in Positions(s) /\ E(t, j) = E(s, n + j)
        BY <1>1
    <2>1. ASSUME E(t, j).instr_dep # None
          PROVE  /\ j > 0 /\ E(t, j).instr_dep = At(t, j-1)
                 /\ E(t, j-1).id = <<E(t, j).id[1], E(t, j).id[2] - 1>>
        <3>1. /\ n + j > 0 /\ E(s, n + j).instr_dep = At(s, (n + j) - 1)
              /\ E(s, (n + j) - 1).id = <<E(s, n + j).id[1], E(s, n + j).id[2] - 1>>
            BY <2>0, <2>1 DEF Buffer, Chained
        <3>2. (n + j) - 1 \in 0..(n+j)-1 /\ ((n + j) - 1) - n = j - 1
            BY <2>0, <3>1
        <3>3. E(t, j).instr_dep \in (E(t, j).after \cup {E(t, j).instr_dep}) \ {None}
            BY <2>1
        <3>4. j - 1 \in 0..j-1 /\ At(t, j - 1) = E(t, j).instr_dep /\ E(t, j - 1) = E(s, (n + j) - 1)
            BY <1>4, <2>0, <3>1, <3>2, <3>3
        <3> QED BY <2>0, <3>1, <3>4
    <2>2. ASSUME E(t, j).instr_dep = None, NEW l \in 0..j-1, E(t, l).id[1] = E(t, j).id[1]
          PROVE  Done(E(t, l))
        <3>1. l \in Positions(t) /\ n + l \in 0..(n+j)-1
            BY <1>1, <1>2
        <3> QED BY <1>1, <2>0, <2>2, <3>1 DEF Buffer, Chained
    <2>3. /\ E(t, j).state # "invalid"
          /\ E(t, j).state # "issued" => E(t, j).after = {} /\ (E(t, j).instr_dep = None \/ E(t, j).isread)
        BY <2>0 DEF Buffer, Chained
    <2> QED BY <2>1, <2>2, <2>3
<1>10. Covered(t)
    <2> SUFFICES ASSUME NEW j \in Positions(t), E(t, j).state = "issued", NEW m \in 0..j-1,
                        E(t, m).id \in E(t, j).needs, ~Done(E(t, m))
                 PROVE  \E l \in 0..j-1 : Holds(t, j, l) /\ Stands(t, m, l)
        BY DEF Covered
    <2>1. /\ j \in Nat /\ m \in Nat /\ m \in Positions(t) /\ n + j \in Positions(s) /\ n + m \in 0..(n+j)-1
          /\ E(t, j) = E(s, n + j) /\ E(t, m) = E(s, n + m)
        BY <1>1, <1>2
    <2>2. PICK l \in 0..(n+j)-1 : Holds(s, n + j, l) /\ Stands(s, n + m, l)
        BY <2>1 DEF Buffer, Covered
    <2>3. At(s, l) \in (E(t, j).after \cup {E(t, j).instr_dep}) \ {None}
        <3>1. At(s, l) \in Index /\ None \notin Index
            <4>1. l \in Positions(s)
                BY <1>2, <2>1
            <4> QED BY <4>1, Places, Sizes DEF None, Index
        <3> QED BY <2>1, <2>2, <3>1 DEF Holds
    <2>4. l >= n /\ l - n \in 0..j-1 /\ At(t, l - n) = At(s, l) /\ E(t, l - n) = E(s, l)
        BY <1>4, <2>3
    <2>5. Holds(t, j, l - n)
        BY <2>1, <2>2, <2>4 DEF Holds
    <2>6. Stands(t, m, l - n)
        BY <2>1, <2>2, <2>4 DEF Stands
    <2> QED BY <2>4, <2>5, <2>6
<1>11. Flows(t)
    BY <1>1 DEF Buffer, Flows
<1> QED BY <1>5, <1>6, <1>7, <1>8, <1>9, <1>10, <1>11, <1>12 DEF Buffer
---------------------------------------------------------------------------------------
(* An instruction enters the buffer *)

LEMMA Instructions ==
    ASSUME NEW ins \in Instruction
    PROVE  /\ ins.type \in Kinds /\ ins.rw \in {j.rw : j \in Instruction} /\ ins.ip \in Site
           /\ ins.n \in {j.n : j \in Instruction}
           /\ Len(Accesses(ins)) \in 1..3
           /\ \A n \in 1..Len(Accesses(ins)) :
                 /\ Accesses(ins)[n].addr \in Word /\ Accesses(ins)[n].isread \in BOOLEAN
                 /\ n = 3 => ~Accesses(ins)[n].isread
<1>1. /\ ins.type \in Kinds /\ ins.reads \in Seq(ToSet(ins.reads)) /\ Len(ins.reads) <= 2
    BY CoreAssumption
<1>2. PICK m : m = Len(ins.reads) /\ m \in 0..2 /\ DOMAIN ins.reads = 1..m
               /\ \A i \in 1..m : ins.reads[i] \in ToSet(ins.reads)
    BY <1>1
<1>3. NoAddr \in Word /\ ins.write \in Word /\ \A i \in 1..m : ins.reads[i] \in Word
    BY <1>2 DEF Word
<1> DEFINE A == [addr : Word, isread : BOOLEAN]
<1>4. PICK reads : reads = [i \in 1..m |-> [addr |-> ins.reads[i], isread |-> TRUE]]
    OBVIOUS
<1>5. reads \in Seq(A) /\ Len(reads) = m /\ \A i \in 1..m : reads[i] \in A
    <2>1. reads \in [1..m -> A]
        BY <1>3, <1>4
    <2> HIDE DEF A
    <2> QED BY <1>2, <2>1
<1>6. CASE ins.write # NoAddr
    <2>1. Accesses(ins) = Append(reads, [addr |-> ins.write, isread |-> FALSE])
        <3>1. Append(reads, [addr |-> ins.write, isread |-> FALSE]) # <<>>
            <4>1. PICK w : w = [addr |-> ins.write, isread |-> FALSE]
                OBVIOUS
            <4>4. w \in A
                BY <1>3, <4>1
            <4> HIDE DEF A
            <4>2. Len(Append(reads, w)) = m + 1
                BY <1>5, <4>4
            <4>3. Len(Append(reads, w)) # Len(<<>>)
                BY <1>2, <4>2
            <4> QED BY <4>1, <4>3
        <3> QED BY <1>2, <1>4, <1>6, <3>1 DEF Accesses
    <2>2. [addr |-> ins.write, isread |-> FALSE] \in A
        BY <1>3
    <2>3. PICK w : w = [addr |-> ins.write, isread |-> FALSE]
        OBVIOUS
    <2>4. w \in A /\ w.isread = FALSE /\ Accesses(ins) = Append(reads, w)
        BY <2>1, <2>2, <2>3
    <2>5. Len(Accesses(ins)) = m + 1 /\ Accesses(ins)[m+1] = w
          /\ \A n \in 1..m : Accesses(ins)[n] = reads[n]
        <3> HIDE DEF A
        <3> QED BY <1>2, <1>5, <2>4
    <2>6. \A n \in 1..m+1 : n \in 1..m \/ n = m + 1
        BY <1>2
    <2>7. \A n \in 1..m+1 : n = 3 => n = m + 1
        BY <1>2
    <2> QED BY <1>1, <1>2, <1>5, <2>4, <2>5, <2>6, <2>7 DEF Site
<1>7. CASE ins.write = NoAddr /\ m # 0
    <2>1. Accesses(ins) = reads
        BY <1>2, <1>4, <1>5, <1>7 DEF Accesses
    <2>2. \A n \in 1..m : n # 3
        BY <1>2
    <2> QED BY <1>1, <1>2, <1>5, <1>7, <2>1, <2>2 DEF Site
<1>8. CASE ins.write = NoAddr /\ m = 0
    <2>1. Accesses(ins) = <<[addr |-> NoAddr, isread |-> FALSE]>>
        <3>1. reads = <<>>
            <4> HIDE DEF A
            <4> QED BY <1>5, <1>8, EmptySeq
        <3>2. Accesses(ins) = IF reads = <<>> THEN <<[addr |-> NoAddr, isread |-> FALSE]>> ELSE reads
            BY <1>2, <1>4, <1>8 DEF Accesses
        <3> QED BY <3>1, <3>2
    <2>2. PICK w : w = [addr |-> NoAddr, isread |-> FALSE]
        OBVIOUS
    <2>3. Accesses(ins) = <<w>> /\ w.addr \in Word /\ w.isread = FALSE
        BY <1>3, <2>1, <2>2
    <2>4. Len(Accesses(ins)) = 1 /\ \A n \in 1..1 : Accesses(ins)[n] = w
        BY <2>3
    <2>5. \A n \in 1..Len(Accesses(ins)) :
             /\ Accesses(ins)[n].addr \in Word /\ Accesses(ins)[n].isread \in BOOLEAN
             /\ n = 3 => ~Accesses(ins)[n].isread
        BY <2>3, <2>4
    <2>6. Len(Accesses(ins)) \in 1..3
        BY <2>4
    <2> QED BY <1>1, <2>5, <2>6 DEF Site
<1> QED BY <1>6, <1>7, <1>8

\* The last of some entries that is not done is waited for; none that is not done is later.
LEMMA LastOfThem ==
    ASSUME NEW s \in CoreState, NEW S \in SUBSET Positions(s)
    PROVE  /\ \A k \in LastOf(s, S) : \E l \in S : k = At(s, l) /\ ~Done(E(s, l))
           /\ \A j \in S : ~Done(E(s, j)) =>
                 \E l \in S : j <= l /\ ~Done(E(s, l)) /\ At(s, l) \in LastOf(s, S)
<1> DEFINE left == {i \in S : ~Done(E(s, i))}
<1>1. LastOf(s, S) = IF left = {} THEN {} ELSE {At(s, Max(left))}
    BY DEF LastOf, E
<1>2. left # {} => Max(left) \in left /\ \A y \in left : y <= Max(left)
    <2>1. s.size \in Nat /\ Positions(s) \subseteq 0..s.size
        BY Places DEF Positions
    <2>2. left \in SUBSET (0..s.size)
        BY <2>1
    <2> HIDE DEF left
    <2> QED BY <2>1, <2>2, Largest
<1> QED BY <1>1, <1>2

\* What is asked of an entry that joins the buffer.
Joining(t, e) ==
    /\ e \in Entry /\ e.state = "issued"
    /\ \A j \in Positions(t) : Before(E(t, j).id, e.id)
    /\ e.id[2] \in 1..3 /\ (e.id[2] = 3 => ~e.isread)
    /\ \A x \in e.needs : Before(x, e.id)
    /\ \A j \in Positions(t) : LET f == E(t, j) IN
          SameWord(f, e.addr) \/ (f.branch_miss /\ f.id[1] # e.id[1]) => f.id \in e.needs
    /\ \E ins \in Instruction : e.type = ins.type /\ e.ip = ins.ip /\ e.memlen = ins.n
    /\ \A d \in (e.after \cup {e.instr_dep}) \ {None} :
          \E j \in Positions(t) : At(t, j) = d /\ ~Done(E(t, j))
    /\ e.instr_dep # None => /\ t.size > 0 /\ e.instr_dep = At(t, t.size - 1)
                             /\ E(t, t.size - 1).id = <<e.id[1], e.id[2] - 1>>
    /\ e.instr_dep = None => \A j \in Positions(t) : E(t, j).id[1] # e.id[1]
    /\ \A j \in Positions(t) : E(t, j).id \in e.needs /\ ~Done(E(t, j)) =>
          \E l \in Positions(t) :
              /\ At(t, l) \in e.after \/ (~e.isread /\ e.instr_dep = At(t, l))
              /\ Stands(t, j, l)

Joins(t, e) == [t EXCEPT !.size = @ + 1, !.rob[At(t, t.size)] = e]

LEMMA JoinKeeps ==
    ASSUME NEW t \in CoreState, Buffer(t), NEW e, Joining(t, e), t.size + 1 < o3rob_max_size,
           NEW u, u = Joins(t, e)
    PROVE  /\ u \in CoreState /\ Buffer(u)
           /\ u.head = t.head /\ u.size = t.size + 1 /\ u.complete = t.complete
           /\ u.queue = t.queue /\ u.active = t.active /\ u.next = t.next
           /\ E(u, t.size) = e /\ \A i \in Positions(t) : At(u, i) = At(t, i) /\ E(u, i) = E(t, i)
<1> USE Sizes
<1>1. PICK p, k : p = t.size /\ k = At(t, p)
    OBVIOUS
<1>2. p \in Nat /\ p \in Index /\ k \in Index /\ p + 1 < o3rob_max_size /\ Positions(t) = 0..p-1
    BY <1>1, Places DEF Positions
<1>3. /\ u \in CoreState /\ u.head = t.head /\ u.size = p + 1 /\ u.complete = t.complete
      /\ u.queue = t.queue /\ u.active = t.active /\ u.next = t.next
      /\ u.rob = [t.rob EXCEPT ![k] = e]
    <2>1. e \in Entry
        BY DEF Joining
    <2>2. [t.rob EXCEPT ![k] = e] \in [Index -> Entry]
        BY <1>2, <2>1, CoreFields
    <2>3. u = [t EXCEPT !.size = p + 1, !.rob = [t.rob EXCEPT ![k] = e]]
        BY <1>1 DEF Joins
    <2>4. p + 1 \in 0..o3rob_max_size-1
        BY <1>2
    <2> QED BY <2>2, <2>3, <2>4 DEF CoreState
<1>4. Positions(u) = 0..p /\ \A i : At(u, i) = At(t, i)
    BY <1>2, <1>3 DEF Positions, At
<1>5. ASSUME NEW i \in Positions(t)
      PROVE  i \in Nat /\ i \in Positions(u) /\ At(t, i) \in Index /\ At(t, i) # k /\ E(u, i) = E(t, i)
             /\ E(t, i) \in Entry
    <2>1. i \in Nat /\ i \in Index /\ i # p /\ i \in Positions(u)
        BY <1>2, <1>4, Places
    <2>2. At(t, i) \in Index /\ At(t, i) # k
        BY <1>1, <1>2, <2>1, Places
    <2>3. u.rob[At(t, i)] = t.rob[At(t, i)]
        BY <1>2, <1>3, <2>2, CoreFields
    <2> QED BY <1>4, <2>1, <2>2, <2>3, Places DEF E
<1>6. E(u, p) = e /\ p \in Positions(u) /\ e \in Entry
    <2>1. u.rob[k] = e
        BY <1>2, <1>3, CoreFields
    <2> QED BY <1>1, <1>2, <1>4, <2>1 DEF E, Joining
<1>7. \A i \in Positions(u) : i \in Positions(t) \/ i = p
    BY <1>2, <1>4
<1>8. \A i \in Positions(u) : \A j \in 0..i-1 : j \in Positions(t)
    BY <1>2, <1>4
<1>9. /\ \A x : x \in InRob(t) => x \in InRob(u) /\ x # k /\ u.rob[x] = t.rob[x]
      /\ \A x : x \in InRob(u) => x \in InRob(t) \/ x = k
      /\ k \in InRob(u) /\ u.rob[k] = e
    <2>1. ASSUME NEW x \in InRob(t) PROVE x \in InRob(u) /\ x # k /\ u.rob[x] = t.rob[x]
        <3>1. PICK i \in Positions(t) : x = At(t, i)
            BY DEF InRob
        <3> QED BY <1>4, <1>5, <3>1 DEF InRob, E
    <2>2. ASSUME NEW x \in InRob(u) PROVE x \in InRob(t) \/ x = k
        <3>1. PICK i \in Positions(u) : x = At(u, i)
            BY DEF InRob
        <3> QED BY <1>1, <1>4, <1>7, <3>1 DEF InRob
    <2>3. k \in InRob(u) /\ u.rob[k] = e
        BY <1>1, <1>4, <1>6 DEF InRob, E
    <2> QED BY <2>1, <2>2, <2>3
<1>10. Ordered(u)
    <2>1. ASSUME NEW i \in Positions(u), NEW j \in 0..i-1 PROVE Before(E(u, j).id, E(u, i).id)
        <3>1. j \in Positions(t)
            BY <1>8
        <3>2. CASE i \in Positions(t)
            BY <1>5, <3>1, <3>2 DEF Buffer, Ordered
        <3>3. CASE i = p
            BY <1>5, <1>6, <3>1, <3>3 DEF Joining
        <3> QED BY <1>7, <3>2, <3>3
    <2>2. ASSUME NEW i \in Positions(u)
          PROVE  E(u, i).id[2] \in 1..3 /\ (E(u, i).id[2] = 3 => ~E(u, i).isread)
        <3>2. CASE i \in Positions(t)
            BY <1>5, <3>2 DEF Buffer, Ordered
        <3>3. CASE i = p
            BY <1>6, <3>3 DEF Joining
        <3> QED BY <1>7, <3>2, <3>3
    <2> QED BY <2>1, <2>2 DEF Ordered
<1>11. Recorded(u)
    <2>1. ASSUME NEW i \in Positions(u), NEW x \in E(u, i).needs PROVE Before(x, E(u, i).id)
        <3>2. CASE i \in Positions(t)
            BY <1>5, <2>1, <3>2 DEF Buffer, Recorded
        <3>3. CASE i = p
            BY <1>6, <2>1, <3>3 DEF Joining
        <3> QED BY <1>7, <3>2, <3>3
    <2>2. ASSUME NEW i \in Positions(u), NEW j \in 0..i-1,
                 SameWord(E(u, j), E(u, i).addr) \/ (E(u, j).branch_miss /\ E(u, j).id[1] # E(u, i).id[1])
          PROVE  E(u, j).id \in E(u, i).needs
        <3>1. j \in Positions(t) /\ E(u, j) = E(t, j)
            BY <1>5, <1>8
        <3>2. CASE i \in Positions(t)
            BY <1>5, <2>2, <3>1, <3>2 DEF Buffer, Recorded
        <3>3. CASE i = p
            BY <1>6, <2>2, <3>1, <3>3 DEF Joining
        <3> QED BY <1>7, <3>2, <3>3
    <2> QED BY <2>1, <2>2 DEF Recorded
<1>12. Decoded(u)
    <2>1. ASSUME NEW i \in Positions(u)
          PROVE  \E ins \in Instruction :
                    E(u, i).type = ins.type /\ E(u, i).ip = ins.ip /\ E(u, i).memlen = ins.n
        <3>2. CASE i \in Positions(t)
            BY <1>5, <3>2 DEF Buffer, Decoded
        <3>3. CASE i = p
            BY <1>6, <3>3 DEF Joining
        <3> QED BY <1>7, <3>2, <3>3
    <2> QED BY <2>1 DEF Decoded
<1>13. Told(u)
    <2>1. ASSUME NEW x \in u.complete PROVE x \in InRob(u) /\ u.rob[x].state = "completed"
        BY <1>3, <1>9 DEF Buffer, Told
    <2>2. ASSUME NEW x \in InRob(u), u.rob[x].state = "completed", ~Done(u.rob[x]) PROVE x \in u.complete
        <3>1. x # k
            BY <1>9, <2>2 DEF Joining
        <3> QED BY <1>3, <1>9, <2>2, <3>1 DEF Buffer, Told
    <2> QED BY <2>1, <2>2 DEF Told
<1>14. Older(u)
    <2> SUFFICES ASSUME NEW i \in Positions(u), NEW d \in (E(u, i).after \cup {E(u, i).instr_dep}) \ {None}
                 PROVE  /\ \E j \in 0..i-1 : At(u, j) = d
                        /\ u.rob[d].state = "completed" => d \in u.complete
        BY DEF Older
    <2>2. CASE i \in Positions(t)
        <3>1. (\E j \in 0..i-1 : At(t, j) = d) /\ (t.rob[d].state = "completed" => d \in t.complete)
            BY <1>5, <2>2 DEF Buffer, Older
        <3>2. d \in InRob(t)
            BY <1>8, <3>1 DEF InRob
        <3> QED BY <1>3, <1>4, <1>9, <3>1, <3>2
    <2>3. CASE i = p
        <3>1. PICK j \in Positions(t) : At(t, j) = d /\ ~Done(E(t, j))
            BY <1>6, <2>3 DEF Joining
        <3>2. d \in InRob(t) /\ t.rob[d] = E(t, j)
            BY <3>1 DEF InRob, E
        <3>3. t.rob[d].state = "completed" => d \in t.complete
            BY <3>1, <3>2 DEF Buffer, Told
        <3>4. j \in 0..i-1
            BY <1>2, <2>3
        <3> QED BY <1>3, <1>4, <1>9, <3>1, <3>2, <3>3, <3>4
    <2> QED BY <1>7, <2>2, <2>3
<1>15. Chained(u)
    <2> SUFFICES ASSUME NEW i \in Positions(u)
                 PROVE  LET f == E(u, i) IN
        /\ f.instr_dep # None => /\ i > 0 /\ f.instr_dep = At(u, i-1)
                                 /\ E(u, i-1).id = <<f.id[1], f.id[2] - 1>>
        /\ f.instr_dep = None => \A l \in 0..i-1 : E(u, l).id[1] = f.id[1] => Done(E(u, l))
        /\ f.state # "invalid"
        /\ f.state # "issued" => f.after = {} /\ (f.instr_dep = None \/ f.isread)
        BY DEF Chained
    <2>2. CASE i \in Positions(t)
        <3>1. /\ E(t, i).instr_dep # None => /\ i > 0 /\ E(t, i).instr_dep = At(t, i-1)
                                             /\ E(t, i-1).id = <<E(t, i).id[1], E(t, i).id[2] - 1>>
              /\ E(t, i).instr_dep = None => \A l \in 0..i-1 : E(t, l).id[1] = E(t, i).id[1] => Done(E(t, l))
              /\ E(t, i).state # "invalid"
              /\ E(t, i).state # "issued" => E(t, i).after = {} /\ (E(t, i).instr_dep = None \/ E(t, i).isread)
            BY <2>2 DEF Buffer, Chained
        <3>2. i > 0 => i - 1 \in Positions(t)
            BY <1>2, <2>2
        <3>3. \A l \in 0..i-1 : E(u, l) = E(t, l)
            BY <1>5, <1>8
        <3>4. E(u, i) = E(t, i) /\ (i > 0 => E(u, i-1) = E(t, i-1))
            BY <1>5, <2>2, <3>2
        <3> QED BY <1>4, <3>1, <3>3, <3>4
    <2>3. CASE i = p
        <3>1. /\ e.instr_dep # None => /\ p > 0 /\ e.instr_dep = At(t, p - 1)
                                       /\ E(t, p - 1).id = <<e.id[1], e.id[2] - 1>>
              /\ e.instr_dep = None => \A j \in Positions(t) : E(t, j).id[1] # e.id[1]
              /\ e.state = "issued"
            BY <1>1 DEF Joining
        <3>2. p > 0 => p - 1 \in Positions(t)
            BY <1>2
        <3>3. \A l \in 0..i-1 : l \in Positions(t) /\ E(u, l) = E(t, l)
            BY <1>5, <1>8
        <3>4. E(u, i) = e /\ (i > 0 => E(u, i-1) = E(t, i-1))
            BY <1>5, <1>6, <2>3, <3>2
        <3> QED BY <1>4, <2>3, <3>1, <3>3, <3>4
    <2> QED BY <1>7, <2>2, <2>3
<1>16. Covered(u)
    <2> SUFFICES ASSUME NEW i \in Positions(u), E(u, i).state = "issued", NEW j \in 0..i-1,
                        E(u, j).id \in E(u, i).needs, ~Done(E(u, j))
                 PROVE  \E l \in 0..i-1 : Holds(u, i, l) /\ Stands(u, j, l)
        BY DEF Covered
    <2>1. j \in Positions(t) /\ E(u, j) = E(t, j)
        BY <1>5, <1>8
    <2>2. CASE i \in Positions(t)
        <3>1. PICK l \in 0..i-1 : Holds(t, i, l) /\ Stands(t, j, l)
            BY <1>5, <2>1, <2>2 DEF Buffer, Covered
        <3>2. l \in Positions(t)
            BY <1>8
        <3> QED BY <1>4, <1>5, <2>1, <2>2, <3>1, <3>2 DEF Holds, Stands
    <2>3. CASE i = p
        <3>1. PICK l \in Positions(t) :
                  /\ At(t, l) \in e.after \/ (~e.isread /\ e.instr_dep = At(t, l))
                  /\ Stands(t, j, l)
            BY <1>6, <2>1, <2>3 DEF Joining
        <3>2. l \in 0..i-1
            BY <1>2, <2>3
        <3>3. Holds(u, i, l) /\ Stands(u, j, l)
            BY <1>4, <1>5, <1>6, <2>1, <2>3, <3>1 DEF Holds, Stands
        <3> QED BY <3>2, <3>3
    <2> QED BY <1>7, <2>2, <2>3
<1>17. Flows(u)
    <2> SUFFICES ASSUME NEW i \in Positions(u), E(u, i).state # "issued", NEW j \in Positions(u),
                        E(u, j).id \in E(u, i).needs
                 PROVE  Done(E(u, j))
        BY DEF Flows
    <2>1. i \in Positions(t) /\ E(u, i) = E(t, i)
        BY <1>5, <1>6, <1>7 DEF Joining
    <2>2. j # p
        <3> SUFFICES ASSUME e.id \in E(t, i).needs PROVE FALSE
            BY <1>6, <2>1
        <3>1. Before(e.id, E(t, i).id)
            BY <2>1 DEF Buffer, Recorded
        <3>2. Before(E(t, i).id, e.id)
            BY <2>1 DEF Joining
        <3>3. E(t, i) \in Entry /\ e \in Entry
            BY <1>5, <1>6, <2>1
        <3>4. /\ E(t, i).id[1] \in Nat /\ E(t, i).id[2] \in Nat /\ e.id[1] \in Nat /\ e.id[2] \in Nat
            BY <3>3, EntryFields
        <3> QED BY <3>1, <3>2, <3>4 DEF Before
    <2>3. j \in Positions(t) /\ E(u, j) = E(t, j)
        BY <1>5, <1>7, <2>2
    <2> QED BY <2>1, <2>3 DEF Buffer, Flows
<1>18. Buffer(u)
    BY <1>10, <1>11, <1>12, <1>13, <1>14, <1>15, <1>16, <1>17 DEF Buffer
<1> QED BY <1>1, <1>3, <1>4, <1>5, <1>6, <1>18

\* All that is in the buffer is of earlier instructions.
Precede(s, pc) == \A i \in Positions(s) : E(s, i).id[1] < pc

\* The first n accesses of the instruction pc have joined what was in s.
Entering(s, t, pc, n) ==
    /\ t \in CoreState /\ Buffer(t)
    /\ t.head = s.head /\ t.size = s.size + n /\ t.complete = s.complete
    /\ t.queue = Tail(s.queue) /\ t.active = s.active /\ t.next = s.next
    /\ \A i \in Positions(s) : At(t, i) = At(s, i) /\ E(t, i) = E(s, i)
    /\ \A i \in Positions(t) \ Positions(s) :
          E(t, i).id = <<pc, i - s.size + 1>> /\ E(t, i).state = "issued"

NewEntry(s, t, pc, ins, miss, n) ==
    LET a == Accesses(ins)[n] IN
    [state |-> "issued", ready |-> 1, addr |-> a.addr, isread |-> a.isread,
     branch_miss |-> miss /\ ins.type = "branch", type |-> ins.type,
     after |-> (ForRegisters(s, ins) \cup ForBranch(s)) \cup ForMemory(t, a.addr),
     instr_dep |-> IF n = 1 THEN None ELSE At(t, t.size - 1),
     rw |-> ins.rw, ip |-> ins.ip, memlen |-> ins.n,
     id |-> <<pc, n>>, needs |-> Needed(t, ins, pc, a.addr, a.isread)]

\* Later entries are of later instructions, or later accesses of the same.
LEMMA InOrder ==
    ASSUME NEW s \in CoreState, Buffer(s), NEW i \in Positions(s), NEW j \in Positions(s)
    PROVE  /\ j <= i => E(s, j).id[1] <= E(s, i).id[1]
           /\ E(s, j).id = E(s, i).id => j = i
<1>1. i \in Nat /\ j \in Nat /\ E(s, i) \in Entry /\ E(s, j) \in Entry
    BY Places
<1>2. /\ E(s, i).id[1] \in Nat /\ E(s, j).id[1] \in Nat
      /\ E(s, i).id[2] \in Nat /\ E(s, j).id[2] \in Nat
    BY <1>1, EntryFields
<1>3. j < i => Before(E(s, j).id, E(s, i).id)
    <2>1. j < i => j \in 0..i-1
        BY <1>1
    <2> QED BY <2>1 DEF Buffer, Ordered
<1>4. i < j => Before(E(s, i).id, E(s, j).id)
    <2>1. i < j => i \in 0..j-1
        BY <1>1
    <2> QED BY <2>1 DEF Buffer, Ordered
<1>5. j <= i => E(s, j).id[1] <= E(s, i).id[1]
    BY <1>1, <1>2, <1>3 DEF Before
<1>6. E(s, j).id = E(s, i).id => j = i
    BY <1>1, <1>2, <1>3, <1>4 DEF Before
<1> QED BY <1>5, <1>6

\* What is in s is where it was.
Extends(s, t) ==
    \A i \in Positions(s) : i \in Positions(t) /\ At(t, i) = At(s, i) /\ E(t, i) = E(s, i)

\* What the new entry waits for is in the buffer, and not done.
LEMMA NewWaits ==
    ASSUME NEW s \in CoreState, NEW t \in CoreState, NEW ins, NEW a,
           Extends(s, t), NEW d \in (ForRegisters(s, ins) \cup ForBranch(s)) \cup ForMemory(t, a)
    PROVE  \E j \in Positions(t) : At(t, j) = d /\ ~Done(E(t, j))
<1>1. ASSUME NEW S \in SUBSET Positions(s), d \in LastOf(s, S)
      PROVE  \E j \in Positions(t) : At(t, j) = d /\ ~Done(E(t, j))
    <2>1. PICK l \in S : d = At(s, l) /\ ~Done(E(s, l))
        BY <1>1, LastOfThem
    <2> QED BY <2>1 DEF Extends
<1>2. CASE d \in ForRegisters(s, ins)
    <2>1. PICK r \in ins.rr : d \in LastOf(s, {i \in Positions(s) : Writes(s.rob[At(s, i)], r)})
        BY <1>2 DEF ForRegisters
    <2>2. {i \in Positions(s) : Writes(s.rob[At(s, i)], r)} \in SUBSET Positions(s)
        OBVIOUS
    <2> QED BY <1>1, <2>1, <2>2
<1>3. CASE d \in ForBranch(s)
    <2>2. {i \in Positions(s) : s.rob[At(s, i)].branch_miss} \in SUBSET Positions(s)
        OBVIOUS
    <2> QED BY <1>1, <1>3, <2>2 DEF ForBranch
<1>4. CASE d \in ForMemory(t, a)
    <2> DEFINE S == {i \in Positions(t) : SameWord(t.rob[At(t, i)], a)}
    <2>1. S \in SUBSET Positions(t) /\ d \in LastOf(t, S)
        BY <1>4 DEF ForMemory
    <2> HIDE DEF S
    <2>2. PICK l \in S : d = At(t, l) /\ ~Done(E(t, l))
        BY <2>1, LastOfThem
    <2> QED BY <2>1, <2>2
<1> QED BY <1>2, <1>3, <1>4

\* And it waits for all that it needs, or for something that does.
LEMMA NewStands ==
    ASSUME NEW s \in CoreState, Buffer(s), NEW t, NEW pc \in Nat, NEW n \in Nat, Entering(s, t, pc, n),
           Precede(s, pc), NEW ins, NEW a, NEW isread \in BOOLEAN,
           NEW j \in Positions(t), E(t, j).id \in Needed(t, ins, pc, a, isread), ~Done(E(t, j))
    PROVE  \/ \E l \in Positions(t) :
                 /\ At(t, l) \in (ForRegisters(s, ins) \cup ForBranch(s)) \cup ForMemory(t, a)
                 /\ Stands(t, j, l)
           \/ ~isread /\ j \notin Positions(s)
<1>0. t \in CoreState /\ Buffer(t)
    BY DEF Entering
<1>1. s.size \in Nat /\ t.size = s.size + n /\ Positions(s) = 0..s.size-1 /\ Positions(t) = 0..t.size-1
    BY Places DEF Entering, Positions
<1>2. \A i \in Positions(s) : /\ i \in Positions(t) /\ i \in Nat /\ At(t, i) = At(s, i)
                              /\ E(t, i) = E(s, i) /\ E(t, i).id[1] < pc
    BY <1>1 DEF Entering, Precede
<1>3. \A i \in Positions(t) : i \notin Positions(s) => E(t, i).id[1] = pc
    BY DEF Entering
<1>4. PICK x \in Positions(t) :
        /\ E(t, x).id = E(t, j).id
        /\ \/ \E r \in ins.rr : x \in Writer(t, r, pc)
           \/ SameWord(E(t, x), a)
           \/ E(t, x).branch_miss /\ E(t, x).id[1] # pc
           \/ ~isread /\ E(t, x).id[1] = pc
    BY DEF Needed, E
<1>5. x = j
    BY <1>0, <1>4, InOrder
<1>6. ASSUME NEW l \in Positions(t), j <= l, E(t, l).id[1] = E(t, j).id[1] \/ E(t, j).id \in E(t, l).needs
      PROVE  Stands(t, j, l)
    BY <1>6 DEF Stands
<1>7. \A l \in Positions(t) : /\ l \in Nat /\ 0..l-1 \subseteq Positions(t)
                              /\ j < l => j \in 0..l-1
    <2>1. \A l \in Positions(t) : l \in Nat /\ 0..l-1 \subseteq Positions(t)
        BY <1>0, Places
    <2> QED BY <2>1
<1>8. CASE \E r \in ins.rr : j \in Writer(t, r, pc)
    <2>1. PICK r \in ins.rr : j \in Writer(t, r, pc)
        BY <1>8
    <2> DEFINE S == {i \in Positions(s) : Writes(s.rob[At(s, i)], r)}
    <2>2. {i \in Positions(t) : Writes(t.rob[At(t, i)], r) /\ t.rob[At(t, i)].id[1] # pc} = S
        <3>1. \A i \in Positions(t) : t.rob[At(t, i)].id[1] # pc => i \in Positions(s)
            BY <1>3 DEF E
        <3>2. \A i \in Positions(s) : /\ i \in Positions(t) /\ t.rob[At(t, i)] = s.rob[At(s, i)]
                                      /\ t.rob[At(t, i)].id[1] # pc
            <4>1. \A i \in Positions(s) : E(t, i).id[1] \in Nat
                BY <1>0, <1>2, Places, EntryFields
            <4> QED BY <1>2, <4>1 DEF E
        <3> QED BY <3>1, <3>2
    <2>3. j \in S /\ E(t, j).id[1] = E(t, Max(S)).id[1]
        BY <2>1, <2>2 DEF Writer, E
    <2>4. S \in SUBSET Positions(s) /\ LastOf(s, S) \subseteq ForRegisters(s, ins)
        BY DEF ForRegisters
    <2> HIDE DEF S
    <2>5. Max(S) \in S /\ \A y \in S : y <= Max(S)
        <3>1. S \in SUBSET (0..s.size)
            BY <1>1, <2>4
        <3> QED BY <1>1, <2>3, <3>1, Largest
    <2>6. j \in Positions(s) /\ ~Done(E(s, j))
        BY <1>2, <2>3, <2>4
    <2>7. PICK l \in S : j <= l /\ ~Done(E(s, l)) /\ At(s, l) \in LastOf(s, S)
        BY <2>3, <2>4, <2>6, LastOfThem
    <2>8. l \in Positions(t) /\ Max(S) \in Positions(t) /\ l <= Max(S) /\ At(t, l) = At(s, l)
        BY <1>2, <2>4, <2>5, <2>7
    <2>9. E(t, j).id[1] <= E(t, l).id[1] /\ E(t, l).id[1] <= E(t, Max(S)).id[1]
        BY <1>0, <2>7, <2>8, InOrder
    <2>10. E(t, j).id[1] \in Nat /\ E(t, l).id[1] \in Nat
        BY <1>0, <2>8, Places, EntryFields
    <2>11. E(t, l).id[1] = E(t, j).id[1]
        BY <2>3, <2>9, <2>10
    <2> QED BY <1>6, <2>4, <2>7, <2>8, <2>11
<1>9. CASE SameWord(E(t, j), a)
    <2> DEFINE S == {i \in Positions(t) : SameWord(t.rob[At(t, i)], a)}
    <2>1. S \in SUBSET Positions(t) /\ j \in S /\ LastOf(t, S) = ForMemory(t, a)
        BY <1>9 DEF ForMemory, E
    <2>2. \A l \in S : SameWord(E(t, l), a)
        BY DEF E
    <2> HIDE DEF S
    <2>3. PICK l \in S : j <= l /\ ~Done(E(t, l)) /\ At(t, l) \in LastOf(t, S)
        BY <1>0, <2>1, LastOfThem
    <2>4. j = l \/ E(t, j).id \in E(t, l).needs
        <3> SUFFICES ASSUME j # l PROVE E(t, j).id \in E(t, l).needs
            OBVIOUS
        <3>1. l \in Positions(t) /\ j \in Nat /\ j \in 0..l-1
            BY <1>7, <2>1, <2>3
        <3>2. SameWord(E(t, j), E(t, l).addr)
            BY <1>9, <2>2 DEF SameWord
        <3> QED BY <1>0, <3>1, <3>2 DEF Buffer, Recorded
    <2> QED BY <1>6, <2>1, <2>3, <2>4
<1>10. CASE E(t, j).branch_miss /\ E(t, j).id[1] # pc
    <2> DEFINE S == {i \in Positions(s) : s.rob[At(s, i)].branch_miss}
    <2>0. j \in Positions(s)
        BY <1>3, <1>10
    <2>1. S \in SUBSET Positions(s) /\ j \in S /\ LastOf(s, S) = ForBranch(s)
        BY <1>2, <1>10, <2>0 DEF ForBranch, E
    <2> HIDE DEF S
    <2>2. PICK l \in S : j <= l /\ ~Done(E(s, l)) /\ At(s, l) \in LastOf(s, S)
        BY <1>2, <2>0, <2>1, LastOfThem
    <2>3. l \in Positions(t) /\ At(t, l) = At(s, l) /\ j \in Nat
        BY <1>2, <1>7, <2>1, <2>2
    <2>4. E(t, l).id[1] = E(t, j).id[1] \/ E(t, j).id \in E(t, l).needs
        <3> SUFFICES ASSUME E(t, l).id[1] # E(t, j).id[1] PROVE E(t, j).id \in E(t, l).needs
            OBVIOUS
        <3>1. j \in 0..l-1
            BY <1>7, <2>2, <2>3
        <3> QED BY <1>0, <1>10, <2>3, <3>1 DEF Buffer, Recorded
    <2> QED BY <1>6, <2>1, <2>2, <2>3, <2>4
<1>11. CASE ~isread /\ E(t, j).id[1] = pc
    <2>1. j \notin Positions(s)
        <3> SUFFICES ASSUME j \in Positions(s) PROVE FALSE
            OBVIOUS
        <3>1. E(t, j).id[1] \in Nat /\ E(t, j).id[1] < pc
            BY <1>0, <1>2, Places, EntryFields
        <3> QED BY <1>11, <3>1
    <2> QED BY <1>11, <2>1
<1> QED BY <1>4, <1>5, <1>8, <1>9, <1>10, <1>11

LEMMA NewJoins ==
    ASSUME NEW s \in CoreState, Buffer(s), NEW pc \in Nat, Precede(s, pc),
           NEW ins \in Instruction, NEW miss \in BOOLEAN, NEW n \in 1..Len(Accesses(ins)),
           NEW t, Entering(s, t, pc, n - 1), NEW e, e = NewEntry(s, t, pc, ins, miss, n)
    PROVE  Joining(t, e) /\ e.id = <<pc, n>>
<1>0. t \in CoreState /\ Buffer(t)
    BY DEF Entering
<1>1. PICK a : a = Accesses(ins)[n]
    OBVIOUS
<1>2. /\ n \in 1..3 /\ n \in Nat /\ a.addr \in Word /\ a.isread \in BOOLEAN /\ (n = 3 => ~a.isread)
      /\ ins.type \in Kinds /\ ins.rw \in {j.rw : j \in Instruction} /\ ins.ip \in Site
      /\ ins.n \in {j.n : j \in Instruction}
    <2>1. PICK m : m = Len(Accesses(ins))
        OBVIOUS
    <2>2. m \in 1..3
        BY <2>1, Instructions
    <2>3. n \in 1..3
        BY <2>1, <2>2
    <2> QED BY <1>1, <2>3, Instructions
<1>3. PICK after, needs, dep :
        /\ after = (ForRegisters(s, ins) \cup ForBranch(s)) \cup ForMemory(t, a.addr)
        /\ needs = Needed(t, ins, pc, a.addr, a.isread)
        /\ dep = IF n = 1 THEN None ELSE At(t, t.size - 1)
    OBVIOUS
<1>4. e = [state |-> "issued", ready |-> 1, addr |-> a.addr, isread |-> a.isread,
           branch_miss |-> miss /\ ins.type = "branch", type |-> ins.type,
           after |-> after, instr_dep |-> dep,
           rw |-> ins.rw, ip |-> ins.ip, memlen |-> ins.n,
           id |-> <<pc, n>>, needs |-> needs]
    BY <1>1, <1>3 DEF NewEntry
<1>5. /\ e.state = "issued" /\ e.addr = a.addr /\ e.isread = a.isread /\ e.type = ins.type
      /\ e.after = after /\ e.instr_dep = dep /\ e.ip = ins.ip /\ e.memlen = ins.n
      /\ e.id = <<pc, n>> /\ e.id[1] = pc /\ e.id[2] = n /\ e.needs = needs
    BY <1>4
<1>6. /\ s.size \in Nat /\ t.size = s.size + (n - 1) /\ Positions(s) = 0..s.size-1
      /\ Positions(t) = 0..t.size-1
    BY <1>2, Places DEF Entering, Positions
<1>7. \A i \in Positions(s) : /\ i \in Positions(t) /\ At(t, i) = At(s, i)
                              /\ E(t, i) = E(s, i) /\ E(t, i).id[1] < pc
    <2>1. \A i \in Positions(s) : i \in Positions(t)
        BY <1>2, <1>6
    <2> QED BY <2>1 DEF Entering, Precede
<1>8. \A i \in Positions(t) : i \notin Positions(s) =>
         /\ E(t, i).id = <<pc, i - s.size + 1>> /\ E(t, i).state = "issued"
    BY DEF Entering
<1>9. \A j \in Positions(t) : /\ j \in Nat /\ E(t, j) \in Entry
                              /\ E(t, j).id[1] \in Nat /\ E(t, j).id[2] \in Nat /\ E(t, j).id \in Id
                              /\ At(t, j) \in Index
    BY <1>0, Places, EntryFields
<1>10. \A j \in Positions(t) : Before(E(t, j).id, e.id)
    <2>1. ASSUME NEW j \in Positions(t), j \notin Positions(s) PROVE Before(E(t, j).id, e.id)
        <3>1. E(t, j).id[1] = pc /\ E(t, j).id[2] = j - s.size + 1
            BY <1>8, <2>1
        <3>2. j - s.size + 1 < n
            BY <1>2, <1>6
        <3> QED BY <1>5, <3>1, <3>2 DEF Before
    <2> QED BY <1>5, <1>7, <2>1 DEF Before
<1>11. \A x \in needs : \E j \in Positions(t) : x = E(t, j).id
    BY <1>3 DEF Needed, E
<1>12. \A d \in after : \E j \in Positions(t) : At(t, j) = d /\ ~Done(E(t, j))
    <2>1. Extends(s, t)
        BY <1>7 DEF Extends
    <2> SUFFICES ASSUME NEW d \in after PROVE \E j \in Positions(t) : At(t, j) = d /\ ~Done(E(t, j))
        OBVIOUS
    <2>2. d \in (ForRegisters(s, ins) \cup ForBranch(s)) \cup ForMemory(t, a.addr)
        BY <1>3
    <2> QED BY <1>0, <2>1, <2>2, NewWaits
<1>13. n > 1 => /\ t.size > 0 /\ t.size - 1 \in Positions(t) /\ t.size - 1 \notin Positions(s)
                /\ E(t, t.size - 1).id = <<pc, n - 1>> /\ E(t, t.size - 1).state = "issued"
    <2>1. n > 1 => t.size > 0 /\ t.size - 1 \in Positions(t) /\ t.size - 1 \notin Positions(s)
                   /\ (t.size - 1) - s.size + 1 = n - 1
        BY <1>2, <1>6, SMTT(60)
    <2> QED BY <1>8, <2>1
<1>14. e \in Entry
    <2>1. after \subseteq Index
        BY <1>9, <1>12
    <2>2. needs \subseteq Id
        BY <1>9, <1>11
    <2>3. dep \in Index \cup {None}
        BY <1>2, <1>3, <1>9, <1>13
    <2>4. <<pc, n>> \in Id
        BY <1>2 DEF Id
    <2>5. (miss /\ ins.type = "branch") \in BOOLEAN
        OBVIOUS
    <2> QED BY <1>2, <1>4, <2>1, <2>2, <2>3, <2>4, <2>5 DEF Entry
<1>15. \A x \in e.needs : Before(x, e.id)
    BY <1>5, <1>10, <1>11
<1>16. ASSUME NEW j \in Positions(t),
              SameWord(E(t, j), e.addr) \/ (E(t, j).branch_miss /\ E(t, j).id[1] # e.id[1])
       PROVE  E(t, j).id \in e.needs
    BY <1>3, <1>5, <1>16 DEF Needed, E
<1>17. ASSUME NEW d \in (e.after \cup {e.instr_dep}) \ {None}
       PROVE  \E j \in Positions(t) : At(t, j) = d /\ ~Done(E(t, j))
    <2>1. CASE d \in after
        BY <1>12, <2>1
    <2>2. CASE d = dep /\ d # None
        <3>1. n > 1 /\ d = At(t, t.size - 1)
            BY <1>2, <1>3, <2>2
        <3> QED BY <1>13, <3>1 DEF Done
    <2> QED BY <1>5, <1>17, <2>1, <2>2
<1>18. e.instr_dep # None => /\ t.size > 0 /\ e.instr_dep = At(t, t.size - 1)
                             /\ E(t, t.size - 1).id = <<e.id[1], e.id[2] - 1>>
    BY <1>2, <1>3, <1>5, <1>13
<1>19. ASSUME e.instr_dep = None, NEW j \in Positions(t) PROVE E(t, j).id[1] # e.id[1]
    <2>1. n = 1
        <3>1. n # 1 => At(t, t.size - 1) \in Index
            BY <1>2, <1>9, <1>13
        <3>2. None \notin Index
            BY Sizes DEF None, Index
        <3> QED BY <1>3, <1>5, <1>19, <3>1, <3>2
    <2>2. j \in Positions(s)
        BY <1>6, <2>1
    <2> QED BY <1>5, <1>7, <1>9, <2>2
<1>20. ASSUME NEW j \in Positions(t), E(t, j).id \in e.needs, ~Done(E(t, j))
       PROVE  \E l \in Positions(t) :
                  /\ At(t, l) \in e.after \/ (~e.isread /\ e.instr_dep = At(t, l))
                  /\ Stands(t, j, l)
    <2>1. \/ \E l \in Positions(t) : At(t, l) \in after /\ Stands(t, j, l)
          \/ ~a.isread /\ j \notin Positions(s)
        <3>1. PICK k, w, r : k = n - 1 /\ w = a.addr /\ r = a.isread
            OBVIOUS
        <3>2. /\ k \in Nat /\ r \in BOOLEAN /\ Entering(s, t, pc, k)
              /\ E(t, j).id \in Needed(t, ins, pc, w, r)
            BY <1>2, <1>3, <1>5, <1>20, <3>1
        <3>3. \/ \E l \in Positions(t) :
                    /\ At(t, l) \in (ForRegisters(s, ins) \cup ForBranch(s)) \cup ForMemory(t, w)
                    /\ Stands(t, j, l)
              \/ ~r /\ j \notin Positions(s)
            BY <1>20, <3>2, NewStands
        <3> QED BY <1>3, <3>1, <3>3
    <2>2. CASE ~a.isread /\ j \notin Positions(s)
        <3>0. E(t, j).id[1] = pc
            BY <1>8, <2>2
        <3>1. E(t, j).id[1] = pc /\ n > 1 /\ j <= t.size - 1
            BY <1>2, <1>6, <2>2, <3>0
        <3>2. E(t, t.size - 1).id[1] = pc
            BY <1>13, <3>1
        <3>3. Stands(t, j, t.size - 1)
            BY <3>1, <3>2 DEF Stands
        <3>4. e.instr_dep = At(t, t.size - 1)
            BY <1>2, <1>3, <1>5, <3>1
        <3> QED BY <1>5, <1>13, <2>2, <3>1, <3>3, <3>4
    <2> QED BY <1>5, <2>1, <2>2
<1> QED BY <1>2, <1>5, <1>10, <1>14, <1>15, <1>16, <1>17, <1>18, <1>19, <1>20 DEF Joining

Enter(s, t, pc, ins, miss, n) == Joins(t, NewEntry(s, t, pc, ins, miss, n))

LEMMA EnterKeeps ==
    ASSUME NEW s \in CoreState, Buffer(s), NEW pc \in Nat, Precede(s, pc),
           s.size < o3rob_max_size - 3, NEW ins \in Instruction, NEW miss \in BOOLEAN,
           NEW n \in 1..Len(Accesses(ins)), NEW t, Entering(s, t, pc, n - 1)
    PROVE  Entering(s, Enter(s, t, pc, ins, miss, n), pc, n)
<1>1. PICK u, e : u = Enter(s, t, pc, ins, miss, n) /\ e = NewEntry(s, t, pc, ins, miss, n)
    OBVIOUS
<1>2. /\ t \in CoreState /\ Buffer(t) /\ Joining(t, e) /\ e.id = <<pc, n>> /\ e.state = "issued"
    <2>1. t \in CoreState /\ Buffer(t)
        BY DEF Entering
    <2>2. Joining(t, e) /\ e.id = <<pc, n>>
        BY <1>1, NewJoins
    <2> QED BY <2>1, <2>2 DEF Joining
<1>3. n \in 1..3 /\ s.size \in Nat /\ t.size = s.size + (n - 1) /\ t.size + 1 < o3rob_max_size
    <2>1. PICK m : m = Len(Accesses(ins))
        OBVIOUS
    <2>2. m \in 1..3
        BY <2>1, Instructions
    <2>3. n \in 1..3
        BY <2>1, <2>2
    <2> QED BY <2>3, Places, Sizes DEF Entering
<1>4. /\ u \in CoreState /\ Buffer(u)
      /\ u.head = t.head /\ u.size = t.size + 1 /\ u.complete = t.complete
      /\ u.queue = t.queue /\ u.active = t.active /\ u.next = t.next
      /\ E(u, t.size) = e /\ \A i \in Positions(t) : At(u, i) = At(t, i) /\ E(u, i) = E(t, i)
    <2>1. u = Joins(t, e)
        BY <1>1 DEF Enter
    <2> QED BY <1>2, <1>3, <2>1, JoinKeeps
<1>5. \A i \in Positions(s) : i \in Positions(t)
    BY <1>3 DEF Positions
<1>6. ASSUME NEW i \in Positions(u) \ Positions(s)
      PROVE  E(u, i).id = <<pc, i - s.size + 1>> /\ E(u, i).state = "issued"
    <2>1. CASE i = t.size
        <3>1. i - s.size + 1 = n
            BY <1>3, <2>1
        <3> QED BY <1>2, <1>4, <2>1, <3>1
    <2>2. CASE i # t.size
        <3>1. i \in Positions(t)
            BY <1>3, <1>4, <2>2 DEF Positions
        <3> QED BY <1>4, <1>6, <3>1 DEF Entering
    <2> QED BY <2>1, <2>2
<1>7. u.size = s.size + n
    BY <1>3, <1>4
<1> QED BY <1>1, <1>4, <1>5, <1>6, <1>7 DEF Entering

\* f[i]: what the core is when i accesses of the instruction have entered.
Dispatched(s) == [s EXCEPT !.queue = Tail(@), !.wake = @ \cup {1}]
DispatchTurns(f, s, pc, ins, miss) ==
    f = [i \in 0..Len(Accesses(ins)) |->
            IF i = 0 THEN Dispatched(s)
            ELSE CHOOSE r \in {Enter(s, before, pc, ins, miss, i) : before \in {f[i-1]}} : TRUE]

LEMMA DispatchIs ==
    ASSUME NEW s, NEW pc, NEW ins, NEW miss, \E f : DispatchTurns(f, s, pc, ins, miss)
    PROVE  \E f : /\ Dispatch(s, pc, ins, miss) = f[Len(Accesses(ins))]
                  /\ DispatchTurns(f, s, pc, ins, miss)
<1>1. Dispatch(s, pc, ins, miss)
        = (CHOOSE f : DispatchTurns(f, s, pc, ins, miss))[Len(Accesses(ins))]
    BY DEF Dispatch, Through, DispatchTurns, Dispatched, Enter, Joins, NewEntry
<1>2. DispatchTurns(CHOOSE f : DispatchTurns(f, s, pc, ins, miss), s, pc, ins, miss)
    BY Zenon
<1> QED BY <1>1, <1>2

LEMMA DispatchedIs ==
    ASSUME NEW s \in CoreState, Buffer(s), s.queue # <<>>, NEW pc
    PROVE  Entering(s, Dispatched(s), pc, 0)
<1>1. PICK t : t = Dispatched(s)
    OBVIOUS
<1>2. /\ t \in CoreState /\ t.head = s.head /\ t.size = s.size /\ t.complete = s.complete
      /\ t.queue = Tail(s.queue) /\ t.active = s.active /\ t.next = s.next /\ t.rob = s.rob
    <2>1. Tail(s.queue) \in Seq(Queued) /\ s.wake \cup {1} \subseteq Nat
        BY CoreFields, HeadTailProperties
    <2> QED BY <1>1, <2>1 DEF Dispatched, CoreState
<1>3. Buffer(t) /\ \A i : E(t, i) = E(s, i)
    BY <1>2, BufferSame DEF SameShape
<1>4. Positions(t) = Positions(s) /\ \A i : At(t, i) = At(s, i)
    BY <1>2 DEF Positions, At
<1>5. t.size = s.size + 0
    BY <1>2, Places
<1> QED BY <1>1, <1>2, <1>3, <1>4, <1>5 DEF Entering

LEMMA DispatchKeeps ==
    ASSUME NEW s \in CoreState, Buffer(s), s.queue # <<>>, NEW pc \in Nat, Precede(s, pc),
           s.size < o3rob_max_size - 3, NEW ins \in Instruction, NEW miss \in BOOLEAN
    PROVE  \E n \in 1..3 : Entering(s, Dispatch(s, pc, ins, miss), pc, n)
<1> DEFINE G == [z \in (1..Len(Accesses(ins))) \X CoreState |-> Enter(s, z[2], pc, ins, miss, z[1])]
           P == {z \in (0..Len(Accesses(ins))) \X CoreState : Entering(s, z[2], pc, z[1])}
<1>1. PICK n : n = Len(Accesses(ins)) /\ n \in 1..3
    BY Instructions
<1>2. n \in Nat /\ n \in 0..n /\ 0 \in 0..n /\ \A i \in 1..n : i - 1 \in 0..n /\ i \in 0..n /\ i # 0
    BY <1>1
<1>3. <<0, Dispatched(s)>> \in P
    <2>1. Entering(s, Dispatched(s), pc, 0)
        BY DispatchedIs
    <2>2. Dispatched(s) \in CoreState
        BY <2>1 DEF Entering
    <2> QED BY <1>1, <1>2, <2>1, <2>2
<1>4. ASSUME NEW i \in 1..n, NEW x, <<i - 1, x>> \in P
      PROVE  /\ G[<<i, x>>] = Enter(s, x, pc, ins, miss, i)
             /\ <<i, Enter(s, x, pc, ins, miss, i)>> \in P
    <2>1. x \in CoreState /\ Entering(s, x, pc, i - 1) /\ i \in 1..Len(Accesses(ins))
        BY <1>1, <1>4
    <2>2. Entering(s, Enter(s, x, pc, ins, miss, i), pc, i)
        BY <2>1, EnterKeeps
    <2>3. Enter(s, x, pc, ins, miss, i) \in CoreState
        BY <2>2 DEF Entering
    <2> QED BY <1>1, <1>2, <2>1, <2>2, <2>3
<1> HIDE DEF G, P
<1>5. PICK g : Steps(g, n, Dispatched(s), G)
    BY <1>2, StepsExist
<1>6. \A i \in 0..n : <<i, g[i]>> \in P
    BY <1>2, <1>3, <1>4, <1>5, StepsKeep
<1>7. DispatchTurns(g, s, pc, ins, miss)
    <2>1. ASSUME NEW i \in 0..n
          PROVE  g[i] = IF i = 0 THEN Dispatched(s)
                        ELSE CHOOSE r \in {Enter(s, before, pc, ins, miss, i) : before \in {g[i-1]}} : TRUE
        <3>1. g[i] = IF i = 0 THEN Dispatched(s) ELSE G[<<i, g[i-1]>>]
            BY <1>5, <2>1 DEF Steps
        <3>2. CASE i # 0
            <4>1. i \in 1..n /\ i - 1 \in 0..n
                BY <1>2, <3>2
            <4>2. G[<<i, g[i-1]>>] = Enter(s, g[i-1], pc, ins, miss, i)
                BY <1>4, <1>6, <4>1
            <4>3. (CHOOSE r \in {Enter(s, before, pc, ins, miss, i) : before \in {g[i-1]}} : TRUE)
                    = Enter(s, g[i-1], pc, ins, miss, i)
                OBVIOUS
            <4> QED BY <3>1, <3>2, <4>2, <4>3
        <3> QED BY <3>1, <3>2
    <2>2. g = [i \in 0..n |-> g[i]]
        BY <1>5 DEF Steps
    <2>3. g = [i \in 0..n |->
                 IF i = 0 THEN Dispatched(s)
                 ELSE CHOOSE r \in {Enter(s, before, pc, ins, miss, i) : before \in {g[i-1]}} : TRUE]
        BY <2>1, <2>2, Zenon
    <2> QED BY <1>1, <2>3 DEF DispatchTurns
<1>8. PICK f : Dispatch(s, pc, ins, miss) = f[n] /\ DispatchTurns(f, s, pc, ins, miss)
    BY <1>1, <1>7, DispatchIs
<1>9. f[0] = Dispatched(s) /\ \A i \in 1..n : f[i] = Enter(s, f[i-1], pc, ins, miss, i)
    <2>1. f[0] = Dispatched(s)
        BY <1>1, <1>2, <1>8 DEF DispatchTurns
    <2>2. ASSUME NEW i \in 1..n PROVE f[i] = Enter(s, f[i-1], pc, ins, miss, i)
        <3>1. i \in 0..n /\ i # 0
            BY <1>2
        <3>2. f[i] = CHOOSE r \in {Enter(s, before, pc, ins, miss, i) : before \in {f[i-1]}} : TRUE
            BY <1>1, <1>8, <3>1 DEF DispatchTurns
        <3>3. (CHOOSE r \in {Enter(s, before, pc, ins, miss, i) : before \in {f[i-1]}} : TRUE)
                = Enter(s, f[i-1], pc, ins, miss, i)
            OBVIOUS
        <3> QED BY <3>2, <3>3
    <2> QED BY <2>1, <2>2
<1>10. \A i \in 0..n : <<i, f[i]>> \in P
    <2> DEFINE T == {i \in Nat : i \in 0..n => <<i, f[i]>> \in P}
    <2>1. 0 \in T
        BY <1>3, <1>9
    <2>2. ASSUME NEW i \in Nat, i \in T PROVE i + 1 \in T
        <3> SUFFICES ASSUME i + 1 \in 0..n PROVE <<i + 1, f[i+1]>> \in P
            OBVIOUS
        <3>1. i \in 0..n /\ i + 1 \in 1..n /\ (i + 1) - 1 = i
            BY <1>2
        <3>2. <<(i + 1) - 1, f[i]>> \in P
            BY <2>2, <3>1
        <3>3. f[i+1] = Enter(s, f[i], pc, ins, miss, i + 1)
            BY <1>9, <3>1
        <3> QED BY <1>4, <3>1, <3>2, <3>3
    <2> HIDE DEF T
    <2>3. Nat \subseteq T
        BY <2>1, <2>2, Induction
    <2>4. \A i \in 0..n : i \in Nat
        OBVIOUS
    <2> QED BY <2>3, <2>4 DEF T
<1> QED BY <1>1, <1>2, <1>8, <1>10 DEF P
---------------------------------------------------------------------------------------
(* The queue is loaded, and empties into the buffer *)

\* The core c, which was s, has gone on to t without losing anything.
GoneTo(c, s, t) ==
    /\ t \in CoreState /\ Buffer(t) /\ Fetched(c, t)
    /\ t.active = s.active /\ t.next = s.next /\ Len(t.queue) <= Len(s.queue)
    /\ \A k \in InRob(s) : k \in InRob(t) /\ t.rob[k] = s.rob[k]

\* Only the state of what is in the queue is new.
Requeued(s, t) ==
    /\ t \in CoreState /\ t.head = s.head /\ t.size = s.size /\ t.rob = s.rob
    /\ t.complete = s.complete /\ t.active = s.active /\ t.next = s.next
    /\ Len(t.queue) = Len(s.queue) /\ \A k \in 1..Len(s.queue) : t.queue[k].pc = s.queue[k].pc

LEMMA RequeuedKeeps ==
    ASSUME NEW c \in Core, NEW s \in CoreState, NEW t, Buffer(s), Fetched(c, s), Requeued(s, t)
    PROVE  GoneTo(c, s, t)
<1>1. /\ t \in CoreState /\ SameShape(s, t) /\ t.rob = s.rob /\ t.complete = s.complete
      /\ t.active = s.active /\ t.next = s.next /\ Len(t.queue) = Len(s.queue)
      /\ \A k \in 1..Len(s.queue) : t.queue[k].pc = s.queue[k].pc
    BY DEF Requeued, SameShape
<1>2. Buffer(t) /\ \A i : E(t, i) = E(s, i)
    BY <1>1, BufferSame
<1>3. Positions(t) = Positions(s) /\ InRob(t) = InRob(s)
    BY <1>1, SamePlaces
<1>4. Fetched(c, t)
    BY <1>1, <1>2, <1>3 DEF Fetched
<1>5. Len(s.queue) \in Nat
    BY CoreFields, LenProperties
<1> QED BY <1>1, <1>2, <1>3, <1>4, <1>5 DEF GoneTo

\* A queue whose members were replaced one by one.
LEMMA Replaced ==
    ASSUME NEW q \in Seq(Queued), NEW r \in [DOMAIN q -> Queued]
    PROVE  r \in Seq(Queued) /\ Len(r) = Len(q)
<1>1. PICK m : m = Len(q) /\ m \in Nat /\ DOMAIN q = 1..m
    BY LenProperties
<1>2. r \in [1..m -> Queued]
    BY <1>1
<1> HIDE DEF Queued
<1> QED BY <1>1, <1>2

LEMMA LoadKeeps ==
    ASSUME NEW c \in Core, NEW s \in CoreState, Buffer(s), Fetched(c, s)
    PROVE  GoneTo(c, s, Load(c, s))
<1>1. PICK t : t = Load(c, s)
    OBVIOUS
<1>2. PICK q, r : /\ q = s.queue
                  /\ r = [i \in DOMAIN q |->
                            IF q[i].state = "not_in_queue" /\ Line(c, q[i]) \in FirstLine(c, s)
                            THEN [q[i] EXCEPT !.state = "being_loaded"] ELSE q[i]]
    OBVIOUS
<1>3. q \in Seq(Queued) /\ DOMAIN q = 1..Len(q) /\ \A i \in DOMAIN q : q[i] \in Queued
    BY <1>2, CoreFields, LenProperties, ElementOfSeq
<1>4. \A i \in DOMAIN q : r[i] \in Queued /\ r[i].pc = q[i].pc
    BY <1>2, <1>3, ZenonT(60) DEF Queued
<1>5. r \in [DOMAIN q -> Queued]
    BY <1>2, <1>4
<1>6. r \in Seq(Queued) /\ Len(r) = Len(q)
    BY <1>3, <1>5, Replaced
<1>7. t = [s EXCEPT !.queue = r]
    BY <1>1, <1>2 DEF Load
<1>8. Requeued(s, t)
    BY <1>2, <1>3, <1>4, <1>6, <1>7 DEF Requeued, CoreState
<1> QED BY <1>1, <1>8, RequeuedKeeps

IssueOne(c, t, miss) ==
    IF CanDispatch(t) THEN Dispatch(t, Head(t.queue).pc, Program[c][Head(t.queue).pc], miss) ELSE t

LEMMA IssueOneKeeps ==
    ASSUME NEW c \in Core, NEW s \in CoreState, NEW t, NEW miss \in BOOLEAN, GoneTo(c, s, t)
    PROVE  GoneTo(c, s, IssueOne(c, t, miss))
<1>1. t \in CoreState /\ Buffer(t) /\ Fetched(c, t)
    BY DEF GoneTo
<1>2. CASE ~CanDispatch(t)
    BY <1>2 DEF IssueOne
<1>3. CASE CanDispatch(t)
    <2>1. PICK pc, ins, u, len :
            /\ pc = Head(t.queue).pc /\ ins = Program[c][pc] /\ u = Dispatch(t, pc, ins, miss)
            /\ len = Len(t.queue)
        OBVIOUS
    <2>2. /\ t.queue \in Seq(Queued) /\ t.queue # <<>> /\ t.size < o3rob_max_size - 3
          /\ len \in Nat /\ len > 0
        BY <1>1, <1>3, <2>1, CoreFields, EmptySeq, LenProperties DEF CanDispatch
    <2>3. /\ Len(Tail(t.queue)) = len - 1
          /\ \A k \in 1..len-1 : Tail(t.queue)[k] = t.queue[k+1]
          /\ Head(t.queue) = t.queue[1]
        BY <2>1, <2>2, HeadTailProperties
    <2>4. /\ t.next \in Nat /\ t.next \in 1..Len(Program[c])+1 /\ len < t.next
          /\ len <= o3queue_max_size
          /\ \A k \in 1..len : t.queue[k].pc = t.next - 1 - len + k
          /\ \A i \in Positions(t) : E(t, i).id[1] < t.next - len
        BY <1>1, <2>1, CoreFields DEF Fetched
    <2>5. pc = t.next - len /\ pc \in Nat
        <3>1. 1 \in 1..len
            BY <2>2
        <3>2. t.queue[1].pc = t.next - 1 - len + 1
            BY <2>4, <3>1
        <3>3. PICK next \in Nat : next = t.next /\ len < next
            BY <2>4
        <3>4. pc = next - 1 - len + 1
            BY <2>1, <2>3, <3>2, <3>3
        <3>5. len \in Nat
            BY <2>2
        <3>6. pc = next - len /\ next - len \in Nat
            BY <3>3, <3>4, <3>5
        <3> QED BY <3>3, <3>6
    <2>6. Precede(t, pc)
        BY <2>4, <2>5 DEF Precede
    <2>7. ins \in Instruction
        <3>1. PICK n : n = Len(Program[c]) /\ n \in Nat
            BY CoreAssumption, LenProperties
        <3>2. pc \in 1..n
            BY <2>2, <2>4, <2>5, <3>1
        <3> QED BY <2>1, <3>1, <3>2 DEF Instruction
    <2>8. PICK n \in 1..3 : Entering(t, u, pc, n)
        BY <1>1, <2>1, <2>2, <2>5, <2>6, <2>7, DispatchKeeps
    <2>9. u \in CoreState /\ Buffer(u) /\ u.active = t.active /\ u.next = t.next
          /\ u.queue = Tail(t.queue)
        BY <2>8 DEF Entering
    <2>10. \A i \in Positions(t) : i \in Positions(u) /\ At(u, i) = At(t, i) /\ E(u, i) = E(t, i)
        <3>1. t.size \in Nat /\ u.size = t.size + n
            BY <1>1, <2>8, Places DEF Entering
        <3> QED BY <2>8, <3>1 DEF Entering, Positions
    <2>11. \A k \in InRob(t) : k \in InRob(u) /\ u.rob[k] = t.rob[k]
        <3> SUFFICES ASSUME NEW i \in Positions(t)
                     PROVE  At(t, i) \in InRob(u) /\ u.rob[At(t, i)] = t.rob[At(t, i)]
            BY DEF InRob
        <3> QED BY <2>10 DEF InRob, E
    <2>12. \A i \in Positions(u) : E(u, i).id[1] < u.next - Len(u.queue)
        <3> SUFFICES ASSUME NEW i \in Positions(u) PROVE E(u, i).id[1] < u.next - Len(u.queue)
            OBVIOUS
        <3>1. u.next - Len(u.queue) = pc + 1
            BY <2>2, <2>3, <2>4, <2>5, <2>9
        <3>2. CASE i \in Positions(t)
            <4>1. E(u, i).id[1] < pc
                BY <2>6, <2>10, <3>2 DEF Precede
            <4>2. E(u, i) \in Entry
                BY <2>9, Places
            <4>3. E(u, i).id[1] \in Nat
                BY <4>2, EntryFields
            <4> QED BY <2>5, <3>1, <4>1, <4>3
        <3>3. CASE i \notin Positions(t)
            <4>1. E(u, i).id[1] = pc
                BY <2>8, <3>3 DEF Entering
            <4> QED BY <2>5, <3>1, <4>1
        <3> QED BY <3>2, <3>3
    <2>13. \A k \in 1..Len(u.queue) : u.queue[k].pc = u.next - 1 - Len(u.queue) + k
        <3> SUFFICES ASSUME NEW k \in 1..len-1 PROVE Tail(t.queue)[k].pc = t.next - 1 - (len - 1) + k
            BY <2>3, <2>9
        <3>1. k + 1 \in 1..len /\ Tail(t.queue)[k] = t.queue[k+1]
            BY <2>2, <2>3
        <3>2. t.queue[k+1].pc = t.next - 1 - len + (k + 1)
            BY <2>4, <3>1
        <3>3. PICK x : x = t.next /\ x \in Nat
            BY <2>4
        <3>4. x - 1 - len + (k + 1) = x - 1 - (len - 1) + k
            BY <2>2, <3>3, SMTT(60)
        <3> QED BY <3>1, <3>2, <3>3, <3>4
    <2>14. Fetched(c, u)
        <3>1. /\ u.next \in 1..Len(Program[c])+1 /\ Len(u.queue) <= o3queue_max_size
              /\ Len(u.queue) < u.next
            BY <2>2, <2>3, <2>4, <2>9, Sizes
        <3> QED BY <2>12, <2>13, <3>1 DEF Fetched
    <2>15. Len(u.queue) <= Len(s.queue)
        <3>1. len <= Len(s.queue) /\ Len(s.queue) \in Nat
            BY <2>1, CoreFields, LenProperties DEF GoneTo
        <3> QED BY <2>2, <2>3, <2>9, <3>1
    <2>16. GoneTo(c, s, u)
        BY <2>9, <2>11, <2>14, <2>15 DEF GoneTo
    <2> QED BY <1>3, <2>1, <2>16 DEF IssueOne
<1> QED BY <1>2, <1>3

\* t[i]: what the core is after i instructions at most were dispatched.
IssueTurns(f, c, s, miss) ==
    f = [i \in 0..max_issue_width |->
            IF i = 0 THEN s
            ELSE CHOOSE r \in {IssueOne(c, before, miss) : before \in {f[i-1]}} : TRUE]

LEMMA IssueIs ==
    ASSUME NEW c, NEW s, NEW miss, \E f : IssueTurns(f, c, s, miss)
    PROVE  \E f : Issue(c, s, miss) = f[max_issue_width] /\ IssueTurns(f, c, s, miss)
<1>1. Issue(c, s, miss) = (CHOOSE f : IssueTurns(f, c, s, miss))[max_issue_width]
    BY DEF Issue, Through, IssueTurns, IssueOne
<1>2. IssueTurns(CHOOSE f : IssueTurns(f, c, s, miss), c, s, miss)
    BY Zenon
<1> QED BY <1>1, <1>2

LEMMA IssueKeeps ==
    ASSUME NEW c \in Core, NEW s \in CoreState, NEW miss \in BOOLEAN, GoneTo(c, s, s)
    PROVE  GoneTo(c, s, Issue(c, s, miss))
<1> DEFINE n == max_issue_width
           G == [z \in (1..n) \X CoreState |-> IssueOne(c, z[2], miss)]
           P == {z \in (0..n) \X CoreState : GoneTo(c, s, z[2])}
<1> HIDE DEF n
<1>2. n \in Nat /\ n \in 0..n /\ 0 \in 0..n /\ \A i \in 1..n : i - 1 \in 0..n /\ i \in 0..n /\ i # 0
    BY Sizes DEF n
<1>3. <<0, s>> \in P
    BY <1>2
<1>4. ASSUME NEW i \in 1..n, NEW x, <<i - 1, x>> \in P
      PROVE  G[<<i, x>>] = IssueOne(c, x, miss) /\ <<i, IssueOne(c, x, miss)>> \in P
    <2>1. x \in CoreState /\ GoneTo(c, s, x)
        BY <1>4
    <2>2. GoneTo(c, s, IssueOne(c, x, miss))
        BY <2>1, IssueOneKeeps
    <2>3. IssueOne(c, x, miss) \in CoreState
        BY <2>2 DEF GoneTo
    <2> QED BY <1>2, <2>1, <2>2, <2>3
<1> HIDE DEF G, P
<1>5. PICK g : Steps(g, n, s, G)
    BY <1>2, StepsExist
<1>6. \A i \in 0..n : <<i, g[i]>> \in P
    BY <1>2, <1>3, <1>4, <1>5, StepsKeep
<1>7. IssueTurns(g, c, s, miss)
    <2>1. ASSUME NEW i \in 0..n
          PROVE  g[i] = IF i = 0 THEN s
                        ELSE CHOOSE r \in {IssueOne(c, before, miss) : before \in {g[i-1]}} : TRUE
        <3>1. g[i] = IF i = 0 THEN s ELSE G[<<i, g[i-1]>>]
            BY <1>5, <2>1 DEF Steps
        <3>2. CASE i # 0
            <4>1. i \in 1..n /\ i - 1 \in 0..n
                BY <1>2, <3>2
            <4>2. G[<<i, g[i-1]>>] = IssueOne(c, g[i-1], miss)
                BY <1>4, <1>6, <4>1
            <4>3. (CHOOSE r \in {IssueOne(c, before, miss) : before \in {g[i-1]}} : TRUE)
                    = IssueOne(c, g[i-1], miss)
                OBVIOUS
            <4> QED BY <3>1, <3>2, <4>2, <4>3
        <3> QED BY <3>1, <3>2
    <2>2. g = [i \in 0..n |-> g[i]]
        BY <1>5 DEF Steps
    <2>3. g = [i \in 0..n |->
                 IF i = 0 THEN s
                 ELSE CHOOSE r \in {IssueOne(c, before, miss) : before \in {g[i-1]}} : TRUE]
        BY <2>1, <2>2, Zenon
    <2> QED BY <2>3 DEF IssueTurns, n
<1>8. PICK f : Issue(c, s, miss) = f[n] /\ IssueTurns(f, c, s, miss)
    BY <1>7, IssueIs DEF n
<1>9. f[0] = s /\ \A i \in 1..n : f[i] = IssueOne(c, f[i-1], miss)
    <2>1. f[0] = s
        BY <1>2, <1>8 DEF IssueTurns, n
    <2>2. ASSUME NEW i \in 1..n PROVE f[i] = IssueOne(c, f[i-1], miss)
        <3>1. i \in 0..n /\ i # 0
            BY <1>2
        <3>2. f[i] = CHOOSE r \in {IssueOne(c, before, miss) : before \in {f[i-1]}} : TRUE
            BY <1>8, <3>1 DEF IssueTurns, n
        <3>3. (CHOOSE r \in {IssueOne(c, before, miss) : before \in {f[i-1]}} : TRUE)
                = IssueOne(c, f[i-1], miss)
            OBVIOUS
        <3> QED BY <3>2, <3>3
    <2> QED BY <2>1, <2>2
<1>10. \A i \in 0..n : <<i, f[i]>> \in P
    <2> DEFINE T == {i \in Nat : i \in 0..n => <<i, f[i]>> \in P}
    <2>1. 0 \in T
        BY <1>3, <1>9
    <2>2. ASSUME NEW i \in Nat, i \in T PROVE i + 1 \in T
        <3> SUFFICES ASSUME i + 1 \in 0..n PROVE <<i + 1, f[i+1]>> \in P
            OBVIOUS
        <3>1. i \in 0..n /\ i + 1 \in 1..n /\ (i + 1) - 1 = i
            BY <1>2
        <3>2. <<(i + 1) - 1, f[i]>> \in P
            BY <2>2, <3>1
        <3>3. f[i+1] = IssueOne(c, f[i], miss)
            BY <1>9, <3>1
        <3> QED BY <1>4, <3>1, <3>2, <3>3
    <2> HIDE DEF T
    <2>3. Nat \subseteq T
        BY <2>1, <2>2, Induction
    <2>4. \A i \in 0..n : i \in Nat
        OBVIOUS
    <2> QED BY <2>3, <2>4 DEF T
<1> QED BY <1>2, <1>8, <1>10 DEF P
---------------------------------------------------------------------------------------
(* One pass over the buffer *)

Register == UNION {ins.rw : ins \in Instruction}
Shared == [wait_all : [Site -> Nat], notify_all : SUBSET Core, migrate : SUBSET Register]
Request == ({"data"} \X Index) \cup ({"prefetch"} \X Id)
             \cup ({"line"} \X {ins.line : ins \in Instruction})
Pass == [s : CoreState, sh : Shared, r : Nat \X Nat, o : SUBSET Request, stop : BOOLEAN,
         alu : Nat, ld : Nat, st : Nat, sse : Nat]

\* What a pass that began with s keeps.
Passing(s, a) ==
    /\ a \in Pass /\ Buffer(a.s) /\ SameShape(s, a.s)
    /\ a.s.queue = s.queue /\ a.s.active = s.active /\ a.s.next = s.next
    /\ \A i \in Positions(s) : E(a.s, i).id = E(s, i).id
    /\ Asked(a.s, a.o)

\* A step of a pass, at position i: it starts the entry there, or leaves the buffer alone.
Moves(a, b, i) ==
    LET k == At(a.s, i) IN
    /\ b \in Pass
    /\ b.s.queue = a.s.queue /\ b.s.active = a.s.active /\ b.s.next = a.s.next
    /\ \/ /\ SameShape(a.s, b.s) /\ b.s.rob = a.s.rob /\ b.s.complete = a.s.complete
          /\ b.o = a.o
       \/ /\ E(a.s, i).state = "issued" /\ (i = 0 \/ Free(E(a.s, i)))
          /\ Begun(a.s, b.s, i)
          /\ \A x \in b.o : \/ x \in a.o \/ x[1] = "prefetch"
                            \/ x = <<"data", k>> /\ b.s.rob[k].state = "executing"

LEMMA PassFields ==
    ASSUME NEW a \in Pass
    PROVE  /\ a.s \in CoreState /\ a.sh \in Shared /\ a.r \in Nat \X Nat /\ a.o \subseteq Request
           /\ a.stop \in BOOLEAN /\ a.alu \in Nat /\ a.ld \in Nat /\ a.st \in Nat /\ a.sse \in Nat
BY DEF Pass

LEMMA MovesKeeps ==
    ASSUME NEW s \in CoreState, NEW a, Passing(s, a), NEW i \in Positions(a.s), NEW b, Moves(a, b, i)
    PROVE  Passing(s, b)
<1>1. PICK u, t, k : u = a.s /\ t = b.s /\ k = At(u, i)
    OBVIOUS
<1>2. /\ a \in Pass /\ b \in Pass /\ u \in CoreState /\ t \in CoreState /\ Buffer(u) /\ SameShape(s, u)
      /\ u.queue = s.queue /\ u.active = s.active /\ u.next = s.next
      /\ \A j \in Positions(s) : E(u, j).id = E(s, j).id
      /\ Asked(u, a.o) /\ i \in Positions(u)
      /\ t.queue = s.queue /\ t.active = s.active /\ t.next = s.next
    BY <1>1, PassFields DEF Passing, Moves
<1>3. CASE /\ SameShape(u, t) /\ t.rob = u.rob /\ t.complete = u.complete
           /\ b.o = a.o
    <2>1. Buffer(t) /\ \A j : E(t, j) = E(u, j)
        BY <1>2, <1>3, BufferSame
    <2>2. SameShape(s, t) /\ InRob(t) = InRob(u)
        BY <1>2, <1>3, SamePlaces DEF SameShape
    <2>3. Asked(t, b.o)
        BY <1>2, <1>3, <2>2 DEF Asked
    <2> QED BY <1>1, <1>2, <2>1, <2>2, <2>3 DEF Passing
<1>4. CASE /\ E(u, i).state = "issued" /\ (i = 0 \/ Free(E(u, i)))
           /\ Begun(u, t, i)
           /\ \A x \in b.o : \/ x \in a.o \/ x[1] = "prefetch"
                             \/ x = <<"data", k>> /\ t.rob[k].state = "executing"
    <2>1. Buffer(t)
        BY <1>2, <1>4, BegunKeeps
    <2>2. SameShape(u, t) /\ (\A j \in Index : j # k => t.rob[j] = u.rob[j])
          /\ SameEntry(u.rob[k], t.rob[k])
        BY <1>1, <1>4 DEF Begun
    <2>3. SameShape(s, t) /\ Positions(t) = Positions(s) /\ InRob(t) = InRob(u) /\ Positions(u) = Positions(s)
          /\ \A j : At(t, j) = At(u, j)
        BY <1>2, <2>2, SamePlaces DEF SameShape
    <2>4. ASSUME NEW j \in Positions(s) PROVE E(t, j).id = E(s, j).id
        <3>1. At(u, j) \in Index /\ E(t, j) = t.rob[At(u, j)] /\ E(u, j) = u.rob[At(u, j)]
            BY <1>2, <2>3, Places DEF E
        <3> QED BY <1>2, <2>2, <3>1 DEF SameEntry
    <2>5. Asked(t, b.o)
        <3> SUFFICES ASSUME NEW x \in b.o, x[1] = "data"
                     PROVE  x[2] \in InRob(u) /\ t.rob[x[2]].state = "executing"
            BY <2>3 DEF Asked
        <3>1. CASE x \in a.o
            <4>1. x[2] \in InRob(u) /\ u.rob[x[2]].state = "executing"
                BY <1>2, <3>1 DEF Asked
            <4>2. x[2] # k /\ x[2] \in Index
                BY <1>1, <1>2, <1>4, <4>1, Places DEF E
            <4> QED BY <2>2, <4>1, <4>2
        <3>2. CASE x = <<"data", k>> /\ t.rob[k].state = "executing"
            BY <1>1, <1>2, <3>2, Places
        <3> QED BY <1>4, <3>1, <3>2
    <2> QED BY <1>1, <1>2, <2>1, <2>3, <2>4, <2>5 DEF Passing
<1> QED BY <1>1, <1>3, <1>4 DEF Moves

LEMMA FinishesIs ==
    ASSUME NEW a \in Pass, Buffer(a.s), NEW i \in Positions(a.s), E(a.s, i).state = "issued",
           i = 0 \/ Free(E(a.s, i)), NEW delay \in Nat, delay > 0,
           NEW b, b = Finishes(a, At(a.s, i), delay)
    PROVE  /\ Moves(a, b, i) /\ b.o = a.o /\ b.sh = a.sh /\ b.r = a.r
           /\ b.alu = a.alu /\ b.ld = a.ld /\ b.st = a.st /\ b.sse = a.sse /\ b.stop = a.stop
           /\ Begun(a.s, b.s, i)
<1>1. PICK u, k, e : u = a.s /\ k = At(u, i) /\ e = [u.rob[k] EXCEPT !.state = "completed", !.ready = delay]
    OBVIOUS
<1>2. u \in CoreState /\ u.rob \in [Index -> Entry] /\ k \in Index /\ u.rob[k] \in Entry
      /\ u.complete \subseteq Index /\ u.wake \subseteq Nat
    BY <1>1, PassFields, Places, CoreFields
<1>3. e \in Entry /\ e.state = "completed" /\ e.ready = delay /\ SameEntry(u.rob[k], e)
      /\ e.after = u.rob[k].after /\ e.instr_dep = u.rob[k].instr_dep
    BY <1>1, <1>2, ZenonT(60) DEF Entry, SameEntry
<1>4. PICK t : t = [u EXCEPT !.rob = [u.rob EXCEPT ![k] = e], !.complete = u.complete \cup {k},
                             !.wake = u.wake \cup {delay}]
    OBVIOUS
<1>5. b = [a EXCEPT !.s = t]
    <2>1. PICK e1 : e1 = [u.rob[k] EXCEPT !.state = "completed"]
        OBVIOUS
    <2>2. e = [e1 EXCEPT !.ready = delay]
        BY <1>1, <1>2, <2>1 DEF Entry
    <2>3. PICK t1, t2, t3 : /\ t1 = [u EXCEPT !.rob = [u.rob EXCEPT ![k] = e1]]
                            /\ t2 = [t1 EXCEPT !.rob = [t1.rob EXCEPT ![k] = e]]
                            /\ t3 = [t2 EXCEPT !.complete = u.complete \cup {k}]
        OBVIOUS
    <2>4. /\ t1.rob = [u.rob EXCEPT ![k] = e1] /\ t1.rob[k] = e1
          /\ t2 = [u EXCEPT !.rob = [u.rob EXCEPT ![k] = e]]
          /\ t3 = [u EXCEPT !.rob = [u.rob EXCEPT ![k] = e], !.complete = u.complete \cup {k}]
          /\ t = [t3 EXCEPT !.wake = u.wake \cup {delay}]
        BY <1>2, <1>4, <2>3 DEF CoreState
    <2>5. b = [[[[a EXCEPT !.s = t1] EXCEPT !.s = t2] EXCEPT !.s = t3] EXCEPT !.s = t]
        <3>1. PICK a1, a2, a3, a4 : /\ a1 = [a EXCEPT !.s.rob[k].state = "completed"]
                                    /\ a2 = [a1 EXCEPT !.s.rob[k].ready = delay]
                                    /\ a3 = [a2 EXCEPT !.s.complete = u.complete \cup {k}]
                                    /\ a4 = [a3 EXCEPT !.s.wake = u.wake \cup {delay}]
            OBVIOUS
        <3>2. b = a4
            BY <1>1, <3>1 DEF Finishes
        <3>3. a1 = [a EXCEPT !.s = t1] /\ a1.s = t1
            BY <1>1, <2>1, <2>3, <3>1 DEF Pass
        <3>4. a2 = [a1 EXCEPT !.s = t2] /\ a2.s = t2
            BY <2>2, <2>3, <2>4, <3>1, <3>3 DEF Pass
        <3>5. a3 = [a2 EXCEPT !.s = t3] /\ a3.s = t3
            BY <2>3, <3>1, <3>3, <3>4 DEF Pass
        <3>6. a4 = [a3 EXCEPT !.s = t]
            BY <2>4, <3>1, <3>5
        <3> QED BY <3>2, <3>3, <3>4, <3>5, <3>6
    <2> QED BY <2>5 DEF Pass
<1>6. /\ t \in CoreState /\ t.rob = [u.rob EXCEPT ![k] = e] /\ t.complete = u.complete \cup {k}
      /\ SameShape(u, t) /\ t.queue = u.queue /\ t.active = u.active /\ t.next = u.next
    <2>1. [u.rob EXCEPT ![k] = e] \in [Index -> Entry] /\ u.complete \cup {k} \subseteq Index
          /\ u.wake \cup {delay} \subseteq Nat
        BY <1>2, <1>3
    <2> QED BY <1>2, <1>4, <2>1 DEF CoreState, SameShape
<1>7. /\ b \in Pass /\ b.s = t /\ b.o = a.o /\ b.sh = a.sh /\ b.r = a.r
      /\ b.alu = a.alu /\ b.ld = a.ld /\ b.st = a.st /\ b.sse = a.sse /\ b.stop = a.stop
    BY <1>5, <1>6 DEF Pass
<1>8. Begun(u, t, i)
    <2>1. t.rob[k] = e /\ \A j \in Index : j # k => t.rob[j] = u.rob[j]
        BY <1>2, <1>6
    <2> QED BY <1>1, <1>3, <1>6, <2>1, ZenonT(60) DEF Begun
<1> QED BY <1>1, <1>6, <1>7, <1>8 DEF Moves

LEMMA ComesBackIs ==
    ASSUME NEW a \in Pass, NEW i, NEW b, b = ComesBack(a)
    PROVE  /\ Moves(a, b, i) /\ b.o = a.o /\ b.sh = a.sh /\ b.r = a.r
<1>1. PICK t : t = [a.s EXCEPT !.wake = a.s.wake \cup {1}]
    OBVIOUS
<1>2. t \in CoreState /\ SameShape(a.s, t) /\ t.rob = a.s.rob /\ t.complete = a.s.complete
      /\ t.queue = a.s.queue /\ t.active = a.s.active /\ t.next = a.s.next
    <2>1. PICK u : u = a.s /\ u \in CoreState
        BY PassFields
    <2>2. u.wake \cup {1} \subseteq Nat
        BY <2>1, CoreFields
    <2> QED BY <1>1, <2>1, <2>2 DEF CoreState, SameShape
<1>3. b = [a EXCEPT !.stop = TRUE, !.s = t]
    BY <1>1 DEF ComesBack
<1>4. b \in Pass /\ b.s = t /\ b.o = a.o /\ b.sh = a.sh /\ b.r = a.r
    BY <1>2, <1>3 DEF Pass
<1> QED BY <1>2, <1>4 DEF Moves

\* The same with other things that the pass counts.
LEMMA MovesWith ==
    ASSUME NEW a, NEW i, NEW b, Moves(a, b, i), NEW d \in Pass, d.s = b.s, d.o = b.o,
           NEW g, g.s = a.s, g.o = a.o
    PROVE  Moves(g, d, i)
BY DEF Moves

\* A step that has nothing to do with barriers.
Steady(a, b) ==
    b.r = a.r /\ b.sh.wait_all = a.sh.wait_all /\ b.sh.notify_all = a.sh.notify_all

\* An entry that may be looked at by a pass.
Waiting(a, i) ==
    a \in Pass /\ Buffer(a.s) /\ i \in Positions(a.s) /\ E(a.s, i).state = "issued"

LEMMA WaitingFields ==
    ASSUME NEW a, NEW i, Waiting(a, i)
    PROVE  /\ a \in Pass /\ Buffer(a.s) /\ i \in Positions(a.s) /\ E(a.s, i).state = "issued"
           /\ a.s \in CoreState /\ At(a.s, i) \in Index /\ a.s.rob[At(a.s, i)] = E(a.s, i)
           /\ E(a.s, i) \in Entry /\ E(a.s, i).rw \subseteq Register /\ E(a.s, i).id \in Id
           /\ E(a.s, i).addr \in Word /\ E(a.s, i).isread \in BOOLEAN
           /\ \E ins \in Instruction : /\ E(a.s, i).type = ins.type /\ E(a.s, i).ip = ins.ip
                                       /\ E(a.s, i).memlen = ins.n
<1>1. /\ a \in Pass /\ Buffer(a.s) /\ i \in Positions(a.s) /\ E(a.s, i).state = "issued"
      /\ a.s \in CoreState
    BY PassFields DEF Waiting
<1>2. At(a.s, i) \in Index /\ E(a.s, i) \in Entry
    BY <1>1, Places
<1>3. E(a.s, i).rw \subseteq Register
    <2>1. E(a.s, i).rw \in {{}} \cup {ins.rw : ins \in Instruction}
        BY <1>2 DEF Entry
    <2> QED BY <2>1 DEF Register
<1>4. \E ins \in Instruction : /\ E(a.s, i).type = ins.type /\ E(a.s, i).ip = ins.ip
                               /\ E(a.s, i).memlen = ins.n
    BY <1>1 DEF Buffer, Decoded
<1> QED BY <1>1, <1>2, <1>3, <1>4, EntryFields DEF E

LEMMA NotifyIs ==
    ASSUME NEW a, NEW i, Waiting(a, i), NEW b, b = Notify(a, i)
    PROVE  Moves(a, b, i) /\ Steady(a, b)
<1>1. CASE i = 0
    <2>1. PICK k, f : k = At(a.s, i) /\ f = Finishes(a, k, barrier_t)
        OBVIOUS
    <2>2. Moves(a, f, i) /\ f.sh = a.sh /\ f.r = a.r /\ f \in Pass
        <3>1. barrier_t \in Nat /\ barrier_t > 0
            BY Sizes
        <3> QED BY <1>1, <2>1, <3>1, WaitingFields, FinishesIs DEF Moves
    <2>3. b = [f EXCEPT !.sh.migrate = @ \cup a.s.rob[k].rw]
        BY <1>1, <2>1 DEF Notify
    <2>4. a.s.rob[k].rw \subseteq Register
        BY <2>1, WaitingFields
    <2>5. b \in Pass /\ b.s = f.s /\ b.o = f.o /\ b.r = a.r /\ b.sh.wait_all = a.sh.wait_all
          /\ b.sh.notify_all = a.sh.notify_all
        BY <2>2, <2>3, <2>4 DEF Pass, Shared
    <2> QED BY <2>2, <2>5, MovesWith DEF Steady
<1>2. CASE i # 0
    BY <1>2, WaitingFields, ComesBackIs DEF Notify, Steady
<1> QED BY <1>1, <1>2

LEMMA WaitForIs ==
    ASSUME NEW a, NEW i, Waiting(a, i), NEW b, b = WaitFor(a, i)
    PROVE  Moves(a, b, i) /\ Steady(a, b)
<1>1. PICK k, f : k = At(a.s, i) /\ f = Finishes(a, k, 1)
    OBVIOUS
<1>2. CASE i = 0 /\ a.s.rob[k].rw \subseteq a.sh.migrate
    <2>2. Moves(a, f, i) /\ f.sh = a.sh /\ f.r = a.r /\ f \in Pass
        BY <1>1, <1>2, WaitingFields, FinishesIs DEF Moves
    <2>3. b = [f EXCEPT !.sh.migrate = @ \ a.s.rob[k].rw]
        BY <1>1, <1>2 DEF WaitFor
    <2>5. b \in Pass /\ b.s = f.s /\ b.o = f.o /\ b.r = a.r /\ b.sh.wait_all = a.sh.wait_all
          /\ b.sh.notify_all = a.sh.notify_all
        BY <2>2, <2>3 DEF Pass, Shared
    <2> QED BY <2>2, <2>5, MovesWith DEF Steady
<1>3. CASE ~(i = 0 /\ a.s.rob[k].rw \subseteq a.sh.migrate)
    <2>1. b = ComesBack(a)
        BY <1>1, <1>3 DEF WaitFor
    <2> QED BY <2>1, WaitingFields, ComesBackIs DEF Steady
<1> QED BY <1>2, <1>3

\* What comes of a barrier: the core stays where it is, goes on, or is counted.
Goes(c, a, b, e) ==
    /\ Passes(c, a.sh, e)
    /\ b.sh.wait_all = [a.sh.wait_all EXCEPT ![e.ip] = 0]
    /\ b.sh.notify_all = a.sh.notify_all \ {c}
    /\ b.r = <<IF c \in a.sh.notify_all THEN a.r[1] ELSE a.r[1] + 1, a.r[2] + 1>>
Comes(c, a, b, e) ==
    /\ ~Passes(c, a.sh, e) /\ c \notin a.sh.notify_all
    /\ b.sh.wait_all = [a.sh.wait_all EXCEPT ![e.ip] = a.sh.wait_all[e.ip] + 1]
    /\ b.sh.notify_all = a.sh.notify_all \cup {c}
    /\ b.r = <<a.r[1] + 1, a.r[2]>>

LEMMA BarrierIs ==
    ASSUME NEW c \in Core, NEW a, NEW i, Waiting(a, i), NEW b, b = Barrier(c, a, i)
    PROVE  /\ Moves(a, b, i)
           /\ \/ Steady(a, b) \/ Goes(c, a, b, E(a.s, i)) \/ Comes(c, a, b, E(a.s, i))
<1>1. PICK k, e : k = At(a.s, i) /\ e = E(a.s, i)
    OBVIOUS
<1>2. a \in Pass /\ a.s.rob[k] = e /\ e.ip \in Site /\ a.sh \in Shared /\ a.r \in Nat \X Nat
    <2>1. \A ins \in Instruction : ins.ip \in Site
        BY DEF Site
    <2> QED BY <1>1, <2>1, WaitingFields, PassFields
<1>3. CASE i = 0 /\ Passes(c, a.sh, e)
    <2>1. PICK f : f = Finishes(a, k, barrier_t)
        OBVIOUS
    <2>2. Moves(a, f, i) /\ f.sh = a.sh /\ f.r = a.r /\ f \in Pass
        <3>1. barrier_t \in Nat /\ barrier_t > 0
            BY Sizes
        <3> QED BY <1>1, <1>3, <2>1, <3>1, WaitingFields, FinishesIs DEF Moves
    <2>3. PICK sh, r : sh = GoneOn(c, a.sh, e)
                       /\ r = <<IF c \in a.sh.notify_all THEN a.r[1] ELSE a.r[1] + 1, a.r[2] + 1>>
        OBVIOUS
    <2>4. b = [f EXCEPT !.sh = sh, !.r = r]
        BY <1>1, <1>2, <1>3, <2>1, <2>2, <2>3 DEF Barrier
    <2>5. sh \in Shared /\ sh.wait_all = [a.sh.wait_all EXCEPT ![e.ip] = 0]
          /\ sh.notify_all = a.sh.notify_all \ {c}
        BY <1>2, <2>3 DEF GoneOn, Shared
    <2>6. r \in Nat \X Nat
        BY <1>2, <2>3
    <2>7. b \in Pass /\ b.s = f.s /\ b.o = f.o /\ b.sh = sh /\ b.r = r
        BY <2>2, <2>4, <2>5, <2>6 DEF Pass
    <2>8. Moves(a, b, i)
        BY <2>2, <2>7, MovesWith
    <2>9. Goes(c, a, b, e)
        BY <1>3, <2>3, <2>5, <2>7 DEF Goes
    <2> QED BY <1>1, <2>8, <2>9
<1>4. CASE i = 0 /\ ~Passes(c, a.sh, e) /\ c \notin a.sh.notify_all
    <2>1. PICK f : f = ComesBack(a)
        OBVIOUS
    <2>2. Moves(a, f, i) /\ f.sh = a.sh /\ f.r = a.r /\ f \in Pass
        BY <1>2, <2>1, ComesBackIs, ZenonT(60) DEF Moves
    <2>3. PICK w, n, sh, r : /\ w = [a.sh.wait_all EXCEPT ![e.ip] = a.sh.wait_all[e.ip] + 1]
                             /\ n = a.sh.notify_all \cup {c}
                             /\ sh = [a.sh EXCEPT !.notify_all = n, !.wait_all = w]
                             /\ r = <<a.r[1] + 1, a.r[2]>>
        OBVIOUS
    <2>10. /\ w \in [Site -> Nat] /\ n \subseteq Core /\ sh.wait_all = w /\ sh.notify_all = n
           /\ sh \in Shared
        <3>1. w \in [Site -> Nat] /\ n \subseteq Core
            BY <1>2, <2>3 DEF Shared
        <3> QED BY <1>2, <2>3, <3>1 DEF Shared
    <2>4. b = [f EXCEPT !.sh = sh, !.r = r]
        <3>1. b = [f EXCEPT !.sh.notify_all = @ \cup {c}, !.sh.wait_all[e.ip] = @ + 1,
                            !.r = <<@[1] + 1, @[2]>>]
            BY <1>1, <1>2, <1>4, <2>1 DEF Barrier
        <3>2. PICK x, y, z : /\ x = [f EXCEPT !.sh.notify_all = f.sh.notify_all \cup {c}]
                             /\ y = [x EXCEPT !.sh.wait_all[e.ip] = f.sh.wait_all[e.ip] + 1]
                             /\ z = [y EXCEPT !.r = <<f.r[1] + 1, f.r[2]>>]
            OBVIOUS
        <3>3. b = z
            BY <3>1, <3>2
        <3>4. PICK h : h = [a.sh EXCEPT !.notify_all = n]
            OBVIOUS
        <3>5. x = [f EXCEPT !.sh = h] /\ x.sh = h
            BY <2>2, <2>3, <3>2, <3>4 DEF Pass
        <3>6. h.wait_all = a.sh.wait_all /\ sh = [h EXCEPT !.wait_all = w]
            BY <1>2, <2>3, <3>4 DEF Shared
        <3>7. y = [x EXCEPT !.sh = sh]
            BY <2>2, <2>3, <3>2, <3>5, <3>6 DEF Pass
        <3>8. z = [y EXCEPT !.r = r]
            BY <2>2, <2>3, <3>2
        <3> QED BY <2>2, <3>3, <3>5, <3>7, <3>8 DEF Pass
    <2>5. sh \in Shared /\ sh.notify_all = a.sh.notify_all \cup {c}
          /\ sh.wait_all = [a.sh.wait_all EXCEPT ![e.ip] = a.sh.wait_all[e.ip] + 1]
        BY <2>3, <2>10
    <2>6. r \in Nat \X Nat
        BY <1>2, <2>3
    <2>7. b \in Pass /\ b.s = f.s /\ b.o = f.o /\ b.sh = sh /\ b.r = r
        BY <2>2, <2>4, <2>5, <2>6 DEF Pass
    <2>8. Moves(a, b, i)
        BY <2>2, <2>7, MovesWith
    <2>9. Comes(c, a, b, e)
        BY <1>4, <2>3, <2>5, <2>7 DEF Comes
    <2> QED BY <1>1, <2>8, <2>9
<1>5. CASE i # 0 \/ (~Passes(c, a.sh, e) /\ c \in a.sh.notify_all)
    <2>1. b = ComesBack(a)
        BY <1>1, <1>2, <1>5 DEF Barrier
    <2> QED BY <1>2, <2>1, ComesBackIs DEF Steady
<1> QED BY <1>3, <1>4, <1>5

LEMMA ComputeIs ==
    ASSUME NEW a, NEW i, Waiting(a, i), Free(E(a.s, i)), NEW b, b = Compute(a, At(a.s, i))
    PROVE  Moves(a, b, i) \/ b = a
<1>1. PICK k, e, sse : k = At(a.s, i) /\ e = E(a.s, i) /\ sse = IF e.type = "x87" THEN 1 ELSE 0
    OBVIOUS
<1>2. PICK delay : delay = Latency(e)
    OBVIOUS
<1>3. delay \in Nat /\ delay > 0
    <2>1. branch_miss_penalty + 1 \in Nat /\ branch_miss_penalty + 1 > 0
        BY Sizes
    <2> QED BY <1>2, <2>1, Sizes DEF Latency
<1>4. CASE b # a
    <2>1. PICK f : f = Finishes(a, k, delay)
        OBVIOUS
    <2>2. a.s.rob[k] = e
        BY <1>1, WaitingFields
    <2>3. b = [f EXCEPT !.alu = @ + 1, !.sse = @ + sse]
        BY <1>1, <1>2, <1>4, <2>1, <2>2 DEF Compute
    <2>4. Moves(a, f, i) /\ f \in Pass
        BY <1>1, <1>3, <2>1, WaitingFields, FinishesIs DEF Moves
    <2>5. b \in Pass /\ b.s = f.s /\ b.o = f.o
        <3>1. PICK x, y : x = f.alu + 1 /\ y = f.sse + sse
            OBVIOUS
        <3>2. x \in Nat /\ y \in Nat
            BY <1>1, <2>4, <3>1, PassFields
        <3>3. b = [f EXCEPT !.alu = x, !.sse = y]
            BY <2>3, <3>1
        <3> QED BY <2>4, <3>2, <3>3 DEF Pass
    <2> QED BY <2>4, <2>5, MovesWith
<1> QED BY <1>4

LEMMA AccessIs ==
    ASSUME NEW a, NEW i, Waiting(a, i), Free(E(a.s, i)), NEW b, b = Access(a, At(a.s, i))
    PROVE  Moves(a, b, i) \/ b = a
<1>1. PICK k, e, u : k = At(a.s, i) /\ e = E(a.s, i) /\ u = a.s
    OBVIOUS
<1>2. PICK d : d = [a EXCEPT !.ld = IF e.isread THEN @ + 1 ELSE @, !.st = IF e.isread THEN @ ELSE @ + 1]
    OBVIOUS
<1>3. /\ a \in Pass /\ u \in CoreState /\ k \in Index /\ u.rob[k] = e /\ e \in Entry /\ e.id \in Id
      /\ e.isread \in BOOLEAN
    BY <1>1, WaitingFields
<1>4. d \in Pass /\ d.s = u /\ d.o = a.o
    <2>1. PICK l, m : l = (IF e.isread THEN a.ld + 1 ELSE a.ld) /\ m = (IF e.isread THEN a.st ELSE a.st + 1)
        OBVIOUS
    <2>2. l \in Nat /\ m \in Nat
        BY <1>3, <2>1, PassFields
    <2>3. d = [a EXCEPT !.ld = l, !.st = m]
        BY <1>2, <2>1
    <2> QED BY <1>1, <1>3, <2>2, <2>3 DEF Pass
<1>5. CASE b # a /\ e.type = "prefetch"
    <2>1. PICK f : f = Finishes(d, k, 1)
        OBVIOUS
    <2>2. b = [f EXCEPT !.o = f.o \cup {<<"prefetch", e.id>>}]
        BY <1>1, <1>2, <1>3, <1>5, <2>1 DEF Access
    <2>3. Moves(d, f, i) /\ f.o = d.o /\ f \in Pass /\ Begun(u, f.s, i)
        <3>1. Moves(d, f, i) /\ f.o = d.o /\ Begun(u, f.s, i)
            BY <1>1, <1>4, <2>1, WaitingFields, FinishesIs
        <3> QED BY <3>1 DEF Moves
    <2> QED BY <1>1, <1>3, <1>4, <2>2, <2>3, WaitingFields, PassFields DEF Moves, Pass, Request
<1>6. CASE b # a /\ e.type # "prefetch"
    <2>1. PICK f, rob, t : /\ f = [e EXCEPT !.state = "executing"] /\ rob = [u.rob EXCEPT ![k] = f]
                           /\ t = [u EXCEPT !.rob = rob]
        OBVIOUS
    <2>2. b = [d EXCEPT !.s = t, !.o = a.o \cup {<<"data", k>>}]
        <3>1. b = [d EXCEPT !.s.rob[k].state = "executing", !.o = d.o \cup {<<"data", k>>}]
            BY <1>1, <1>2, <1>3, <1>6 DEF Access
        <3> QED BY <1>3, <1>4, <2>1, <3>1 DEF Pass
    <2>3. /\ f \in Entry /\ f.state = "executing" /\ SameEntry(e, f) /\ f.after = e.after
          /\ f.instr_dep = e.instr_dep
        BY <1>3, <2>1 DEF Entry, SameEntry
    <2>4. rob \in [Index -> Entry] /\ rob[k] = f /\ \A j \in Index : j # k => rob[j] = u.rob[j]
        BY <1>3, <2>1, <2>3, CoreFields
    <2>5. /\ t \in CoreState /\ SameShape(u, t) /\ t.rob = rob /\ t.complete = u.complete
          /\ t.queue = u.queue /\ t.active = u.active /\ t.next = u.next
        BY <1>3, <2>1, <2>4 DEF CoreState, SameShape
    <2>6. Begun(u, t, i)
        BY <1>1, <1>3, <2>3, <2>4, <2>5 DEF Begun
    <2>7. b \in Pass /\ b.s = t /\ b.o = a.o \cup {<<"data", k>>}
        <3>1. a.o \cup {<<"data", k>>} \subseteq Request
            BY <1>3, PassFields DEF Request
        <3> QED BY <1>4, <2>2, <2>5, <3>1 DEF Pass
    <2>8. E(a.s, i).state = "issued"
        BY WaitingFields
    <2> QED BY <1>1, <2>3, <2>4, <2>5, <2>6, <2>7, <2>8 DEF Moves
<1> QED BY <1>5, <1>6

LEMMA TryIs ==
    ASSUME NEW c \in Core, NEW a \in Pass, Buffer(a.s), NEW i \in Positions(a.s),
           NEW b, b = Try(c, a, i)
    PROVE  /\ Moves(a, b, i) \/ b = a
           /\ \/ Steady(a, b)
              \/ /\ E(a.s, i).type = "barrier"
                 /\ Goes(c, a, b, E(a.s, i)) \/ Comes(c, a, b, E(a.s, i))
<1>1. PICK k, e : k = At(a.s, i) /\ e = E(a.s, i) /\ e = a.s.rob[k]
    BY DEF E
<1>2. Moves(a, ComesBack(a), i) /\ Steady(a, ComesBack(a))
    BY ComesBackIs DEF Steady
<1>3. CASE b = a \/ b = ComesBack(a)
    BY <1>2, <1>3 DEF Steady
<1>4. CASE b # a /\ b # ComesBack(a)
    <2>1. e.state = "issued" /\ ~a.stop /\ Waiting(a, i)
        BY <1>1, <1>4 DEF Try, Waiting
    <2>2. CASE e.type = "notify"
        BY <1>1, <1>4, <2>1, <2>2, NotifyIs DEF Try
    <2>3. CASE e.type = "waitfor"
        BY <1>1, <1>4, <2>1, <2>3, WaitForIs DEF Try
    <2>4. CASE e.type = "barrier"
        BY <1>1, <1>4, <2>1, <2>4, BarrierIs DEF Try
    <2>5. CASE e.type \notin {"notify", "waitfor", "barrier"}
        <3>1. /\ Free(e) /\ b = IF e.addr = NoAddr THEN Compute(a, k) ELSE Access(a, k)
            BY <1>1, <1>4, <2>1, <2>5 DEF Try
        <3>2. Moves(a, b, i)
            BY <1>1, <1>4, <2>1, <3>1, ComputeIs, AccessIs
        <3>3. Steady(a, b)
            <4>1. CASE b = Compute(a, k)
                BY <4>1 DEF Compute, Finishes, Steady, Pass
            <4>2. CASE b = Access(a, k)
                BY <4>2, SMTT(60) DEF Access, Finishes, Steady, Pass
            <4> QED BY <3>1, <4>1, <4>2
        <3> QED BY <3>2, <3>3
    <2> QED BY <2>2, <2>3, <2>4, <2>5
<1> QED BY <1>3, <1>4
---------------------------------------------------------------------------------------
(* Barriers *)

\* All cores meet, always at the same barrier.
MeetAt(site) ==
    /\ site \in Site
    /\ \A ins \in Instruction : ins.type = "barrier" => ins.ip = site /\ ins.n = Cardinality(Core)

\* k times all have come; some have yet to go on since, and some have come once more.
Came(k, at) == {d \in Core : at[d][1] = k + 1}
Met(site, sh, at) ==
    \E k \in Nat :
        /\ \A d \in Core : \/ d \notin sh.notify_all /\ at[d] = <<k, k>>
                           \/ d \in sh.notify_all /\ at[d] \in {<<k, k - 1>>, <<k + 1, k>>}
        /\ sh.wait_all[site] = Cardinality(Came(k, at))
        /\ Cardinality(Came(k, at)) < Cardinality(Core)

LEMMA Cores ==
    /\ IsFiniteSet(Core) /\ Cardinality(Core) \in Nat
    /\ \A k : \A at : /\ IsFiniteSet(Came(k, at)) /\ Cardinality(Came(k, at)) \in Nat
                      /\ Cardinality(Came(k, at)) = Cardinality(Core) => Came(k, at) = Core
                      /\ Cardinality(Came(k, at)) = 0 => Came(k, at) = {}
<1>1. IsFiniteSet(Core) /\ Cardinality(Core) \in Nat
    BY CoreAssumption, FS_CardinalityType
<1>2. ASSUME NEW k, NEW at
      PROVE  /\ IsFiniteSet(Came(k, at)) /\ Cardinality(Came(k, at)) \in Nat
             /\ Cardinality(Came(k, at)) = Cardinality(Core) => Came(k, at) = Core
             /\ Cardinality(Came(k, at)) = 0 => Came(k, at) = {}
    <2>1. Came(k, at) \subseteq Core
        BY DEF Came
    <2>2. IsFiniteSet(Came(k, at)) /\ (Cardinality(Came(k, at)) = Cardinality(Core) => Came(k, at) = Core)
        BY <1>1, <2>1, FS_Subset
    <2> QED BY <2>2, FS_CardinalityType, FS_EmptySet
<1> QED BY <1>1, <1>2

\* The last core that comes lets the others go.
LEMMA GoesKeeps ==
    ASSUME NEW site, MeetAt(site), NEW c \in Core, NEW a \in Pass, NEW b \in Pass, NEW e,
           e.ip = site, e.memlen = Cardinality(Core), Goes(c, a, b, e),
           NEW at, DOMAIN at = Core, at[c] = a.r, Met(site, a.sh, at)
    PROVE  Met(site, b.sh, [at EXCEPT ![c] = b.r])
<1>1. PICK k \in Nat :
        /\ \A d \in Core : \/ d \notin a.sh.notify_all /\ at[d] = <<k, k>>
                           \/ d \in a.sh.notify_all /\ at[d] \in {<<k, k - 1>>, <<k + 1, k>>}
        /\ a.sh.wait_all[site] = Cardinality(Came(k, at))
        /\ Cardinality(Came(k, at)) < Cardinality(Core)
    BY DEF Met
<1>2. PICK to : to = [at EXCEPT ![c] = b.r]
    OBVIOUS
<1>3. to[c] = b.r /\ \A d \in Core : d # c => to[d] = at[d]
    BY <1>2
<1>4. /\ b.sh.notify_all = a.sh.notify_all \ {c} /\ b.sh.wait_all[site] = 0
      /\ b.r = <<IF c \in a.sh.notify_all THEN a.r[1] ELSE a.r[1] + 1, a.r[2] + 1>>
    BY PassFields DEF Goes, MeetAt, Shared
<1>5. Cardinality(Core) \in Nat /\ 0 < Cardinality(Core)
    <2>1. Cardinality(Core) \in Nat /\ Cardinality(Came(k, at)) \in Nat
        BY Cores
    <2> QED BY <1>1, <2>1
<1>6. CASE c \in a.sh.notify_all
    <2>1. Came(k, at) = {}
        <3>1. Cardinality(Came(k, at)) \in Nat
            BY Cores
        <3>2. Cardinality(Core) = 1 \/ a.sh.wait_all[site] = 0
            BY <1>6 DEF Goes, Passes
        <3>3. Cardinality(Came(k, at)) = 0
            BY <1>1, <3>1, <3>2
        <3> QED BY <3>3, Cores
    <2>2. at[c] = <<k, k - 1>> /\ b.r = <<k, k>>
        <3>1. at[c][1] # k + 1
            BY <2>1 DEF Came
        <3>2. at[c] = <<k, k - 1>>
            BY <1>1, <1>6, <3>1
        <3> QED BY <1>4, <1>6, <3>2
    <2>3. Came(k, to) = {}
        <3>1. \A d \in Core : to[d][1] # k + 1
            BY <1>3, <2>1, <2>2 DEF Came
        <3> QED BY <3>1 DEF Came
    <2>4. \A d \in Core : \/ d \notin b.sh.notify_all /\ to[d] = <<k, k>>
                          \/ d \in b.sh.notify_all /\ to[d] \in {<<k, k - 1>>, <<k + 1, k>>}
        BY <1>1, <1>3, <1>4, <2>2
    <2>5. Cardinality(Came(k, to)) = 0
        BY <2>3, FS_EmptySet
    <2>6. Met(site, b.sh, to)
        BY <1>4, <1>5, <2>4, <2>5 DEF Met
    <2> QED BY <1>2, <2>6
<1>7. CASE c \notin a.sh.notify_all
    <2>1. at[c] = <<k, k>> /\ b.r = <<k + 1, k + 1>>
        BY <1>1, <1>4, <1>7
    <2>2. \A d \in Core : d # c => at[d][1] = k + 1
        <3>1. PICK n : n = Cardinality(Came(k, at)) /\ n \in Nat /\ IsFiniteSet(Came(k, at))
            BY Cores
        <3>2. n = Cardinality(Core) - 1
            BY <1>1, <1>5, <1>7, <3>1 DEF Goes, Passes
        <3>3. c \notin Came(k, at)
            BY <2>1 DEF Came
        <3>4. Cardinality(Came(k, at) \cup {c}) = Cardinality(Core)
            <4>1. Cardinality(Came(k, at) \cup {c}) = n + 1
                BY <3>1, <3>3, FS_AddElement
            <4> QED BY <1>5, <3>1, <3>2, <4>1
        <3>5. Came(k, at) \cup {c} = Core
            BY <3>4, Cores, FS_Subset DEF Came
        <3> QED BY <3>5 DEF Came
    <2>3. \A d \in Core : d # c => d \in a.sh.notify_all /\ at[d] = <<k + 1, k>>
        <3> SUFFICES ASSUME NEW d \in Core, d # c PROVE d \in a.sh.notify_all /\ at[d] = <<k + 1, k>>
            OBVIOUS
        <3>1. at[d][1] = k + 1 /\ k + 1 # k
            BY <2>2
        <3> QED BY <1>1, <3>1
    <2>4. PICK m : m = k + 1 /\ m \in Nat /\ k = m - 1
        OBVIOUS
    <2>5. \A d \in Core : \/ d \notin b.sh.notify_all /\ to[d] = <<m, m>>
                          \/ d \in b.sh.notify_all /\ to[d] \in {<<m, m - 1>>, <<m + 1, m>>}
        BY <1>3, <1>4, <2>1, <2>3, <2>4
    <2>6. Came(m, to) = {}
        <3>1. \A d \in Core : to[d][1] = m
            BY <1>3, <2>1, <2>3, <2>4
        <3> QED BY <2>4, <3>1 DEF Came
    <2>7. Cardinality(Came(m, to)) = 0
        BY <2>6, FS_EmptySet
    <2>8. Met(site, b.sh, to)
        BY <1>4, <1>5, <2>4, <2>5, <2>7 DEF Met
    <2> QED BY <1>2, <2>8
<1> QED BY <1>6, <1>7

\* The others are counted.
LEMMA ComesKeeps ==
    ASSUME NEW site, MeetAt(site), NEW c \in Core, NEW a \in Pass, NEW b \in Pass, NEW e,
           e.ip = site, e.memlen = Cardinality(Core), Comes(c, a, b, e),
           NEW at, DOMAIN at = Core, at[c] = a.r, Met(site, a.sh, at)
    PROVE  Met(site, b.sh, [at EXCEPT ![c] = b.r])
<1>1. PICK k \in Nat :
        /\ \A d \in Core : \/ d \notin a.sh.notify_all /\ at[d] = <<k, k>>
                           \/ d \in a.sh.notify_all /\ at[d] \in {<<k, k - 1>>, <<k + 1, k>>}
        /\ a.sh.wait_all[site] = Cardinality(Came(k, at))
        /\ Cardinality(Came(k, at)) < Cardinality(Core)
    BY DEF Met
<1>2. PICK to : to = [at EXCEPT ![c] = b.r]
    OBVIOUS
<1>3. to[c] = b.r /\ \A d \in Core : d # c => to[d] = at[d]
    BY <1>2
<1>4. /\ b.sh.notify_all = a.sh.notify_all \cup {c}
      /\ b.sh.wait_all[site] = a.sh.wait_all[site] + 1
      /\ at[c] = <<k, k>> /\ b.r = <<k + 1, k>>
    <2>1. at[c] = <<k, k>>
        BY <1>1 DEF Comes
    <2>2. b.sh.wait_all[site] = a.sh.wait_all[site] + 1
        BY PassFields DEF Comes, MeetAt, Shared
    <2> QED BY <2>1, <2>2 DEF Comes
<1>5. /\ Came(k, to) = Came(k, at) \cup {c} /\ c \notin Came(k, at)
    <2>1. c \notin Came(k, at) /\ c \in Came(k, to)
        BY <1>3, <1>4 DEF Came
    <2> QED BY <1>3, <2>1 DEF Came
<1>6. PICK n : n = Cardinality(Came(k, at)) /\ n \in Nat /\ IsFiniteSet(Came(k, at))
               /\ Cardinality(Core) \in Nat
    BY Cores
<1>7. Cardinality(Came(k, to)) = n + 1
    BY <1>5, <1>6, FS_AddElement, ZenonT(60)
<1>8. n + 1 < Cardinality(Core)
    <2>1. Cardinality(Core) # 1 /\ (n = 0 \/ n # Cardinality(Core) - 1)
        BY <1>1, <1>6 DEF Comes, Passes
    <2> QED BY <1>1, <1>6, <2>1
<1>9. \A d \in Core : \/ d \notin b.sh.notify_all /\ to[d] = <<k, k>>
                      \/ d \in b.sh.notify_all /\ to[d] \in {<<k, k - 1>>, <<k + 1, k>>}
    BY <1>1, <1>3, <1>4
<1>10. Met(site, b.sh, to)
    BY <1>1, <1>4, <1>6, <1>7, <1>8, <1>9 DEF Met
<1> QED BY <1>2, <1>10

\* What a pass of core c that began with the core s, and with at reached, keeps.
Keeps(c, s, at, a) ==
    /\ Passing(s, a)
    /\ \A site : MeetAt(site) => Met(site, a.sh, [at EXCEPT ![c] = a.r])

LEMMA TryKeeps ==
    ASSUME NEW c \in Core, NEW s \in CoreState, NEW at, DOMAIN at = Core, NEW a, Keeps(c, s, at, a),
           NEW i \in Positions(s)
    PROVE  Keeps(c, s, at, Try(c, a, i))
<1>1. PICK b : b = Try(c, a, i)
    OBVIOUS
<1>2. /\ Passing(s, a) /\ a \in Pass /\ Buffer(a.s) /\ a.s \in CoreState /\ i \in Positions(a.s)
    <2>1. Passing(s, a) /\ a \in Pass /\ Buffer(a.s) /\ SameShape(s, a.s)
        BY DEF Keeps, Passing
    <2> QED BY <2>1, PassFields, SamePlaces
<1>3. /\ Moves(a, b, i) \/ b = a
      /\ \/ Steady(a, b)
         \/ /\ E(a.s, i).type = "barrier"
            /\ Goes(c, a, b, E(a.s, i)) \/ Comes(c, a, b, E(a.s, i))
    BY <1>1, <1>2, TryIs
<1>4. Passing(s, b)
    BY <1>2, <1>3, MovesKeeps
<1>5. ASSUME NEW site, MeetAt(site) PROVE Met(site, b.sh, [at EXCEPT ![c] = b.r])
    <2>1. PICK to : to = [at EXCEPT ![c] = a.r]
        OBVIOUS
    <2>2. DOMAIN to = Core /\ to[c] = a.r /\ Met(site, a.sh, to)
        BY <1>5, <2>1 DEF Keeps
    <2>3. [to EXCEPT ![c] = b.r] = [at EXCEPT ![c] = b.r]
        BY <2>1
    <2>4. CASE Steady(a, b)
        <3>1. b.r = a.r /\ [at EXCEPT ![c] = b.r] = to
            BY <2>1, <2>4 DEF Steady
        <3>2. b.sh.wait_all = a.sh.wait_all /\ b.sh.notify_all = a.sh.notify_all
            BY <2>4 DEF Steady
        <3>3. Met(site, b.sh, to)
            BY <2>2, <3>2 DEF Met
        <3> QED BY <3>1, <3>3
    <2>5. CASE E(a.s, i).type = "barrier" /\ (Goes(c, a, b, E(a.s, i)) \/ Comes(c, a, b, E(a.s, i)))
        <3>1. PICK ins \in Instruction : /\ E(a.s, i).type = ins.type /\ E(a.s, i).ip = ins.ip
                                         /\ E(a.s, i).memlen = ins.n
            BY <1>2 DEF Buffer, Decoded
        <3>2. E(a.s, i).ip = site /\ E(a.s, i).memlen = Cardinality(Core)
            BY <1>5, <2>5, <3>1 DEF MeetAt
        <3>3. b \in Pass
            BY <1>4 DEF Passing
        <3>4. Met(site, b.sh, [to EXCEPT ![c] = b.r])
            BY <1>2, <1>5, <2>2, <2>5, <3>2, <3>3, GoesKeeps, ComesKeeps
        <3> QED BY <2>3, <3>4
    <2> QED BY <1>3, <2>4, <2>5
<1> QED BY <1>1, <1>4, <1>5 DEF Keeps

\* f[i]: what has become of the pass after i positions.
Begins(c, s) == [s |-> s, sh |-> shared, r |-> reached[c], o |-> out[c], stop |-> FALSE,
                 alu |-> 0, ld |-> 0, st |-> 0, sse |-> 0]
ExecuteTurns(f, c, s) ==
    f = [i \in 0..s.size |->
            IF i = 0 THEN Begins(c, s)
            ELSE CHOOSE r \in {Try(c, before, i - 1) : before \in {f[i-1]}} : TRUE]

LEMMA ExecuteIs ==
    ASSUME NEW c, NEW s, \E f : ExecuteTurns(f, c, s)
    PROVE  \E f : Execute(c, s) = f[s.size] /\ ExecuteTurns(f, c, s)
<1>1. Execute(c, s) = (CHOOSE f : ExecuteTurns(f, c, s))[s.size]
    BY DEF Execute, Through, ExecuteTurns, Begins
<1>2. ExecuteTurns(CHOOSE f : ExecuteTurns(f, c, s), c, s)
    BY Zenon
<1> QED BY <1>1, <1>2

LEMMA ExecuteKeeps ==
    ASSUME NEW c \in Core, NEW s \in CoreState, DOMAIN reached = Core, Keeps(c, s, reached, Begins(c, s))
    PROVE  Keeps(c, s, reached, Execute(c, s))
<1> DEFINE n == s.size
           G == [z \in (1..n) \X Pass |-> Try(c, z[2], z[1] - 1)]
           P == {z \in (0..n) \X Pass : Keeps(c, s, reached, z[2])}
<1>1. n \in Nat /\ \A i \in 1..n : i - 1 \in Positions(s)
    BY Places DEF Positions
<1> HIDE DEF n
<1>2. n \in Nat /\ n \in 0..n /\ 0 \in 0..n /\ \A i \in 1..n : i - 1 \in 0..n /\ i \in 0..n /\ i # 0
    BY <1>1
<1>3. <<0, Begins(c, s)>> \in P
    <2>1. Begins(c, s) \in Pass
        BY DEF Keeps, Passing
    <2> QED BY <1>2, <2>1
<1>4. ASSUME NEW i \in 1..n, NEW x, <<i - 1, x>> \in P
      PROVE  G[<<i, x>>] = Try(c, x, i - 1) /\ <<i, Try(c, x, i - 1)>> \in P
    <2>1. x \in Pass /\ Keeps(c, s, reached, x)
        BY <1>4
    <2>2. Keeps(c, s, reached, Try(c, x, i - 1))
        BY <1>1, <2>1, TryKeeps
    <2>3. Try(c, x, i - 1) \in Pass
        BY <2>2 DEF Keeps, Passing
    <2> QED BY <1>2, <2>1, <2>2, <2>3
<1> HIDE DEF G, P
<1>5. PICK g : Steps(g, n, Begins(c, s), G)
    BY <1>2, StepsExist
<1>6. \A i \in 0..n : <<i, g[i]>> \in P
    BY <1>2, <1>3, <1>4, <1>5, StepsKeep
<1>7. ExecuteTurns(g, c, s)
    <2>1. ASSUME NEW i \in 0..n
          PROVE  g[i] = IF i = 0 THEN Begins(c, s)
                        ELSE CHOOSE r \in {Try(c, before, i - 1) : before \in {g[i-1]}} : TRUE
        <3>1. g[i] = IF i = 0 THEN Begins(c, s) ELSE G[<<i, g[i-1]>>]
            BY <1>5, <2>1 DEF Steps
        <3>2. CASE i # 0
            <4>1. i \in 1..n /\ i - 1 \in 0..n
                BY <1>2, <3>2
            <4>2. G[<<i, g[i-1]>>] = Try(c, g[i-1], i - 1)
                BY <1>4, <1>6, <4>1
            <4>3. (CHOOSE r \in {Try(c, before, i - 1) : before \in {g[i-1]}} : TRUE)
                    = Try(c, g[i-1], i - 1)
                OBVIOUS
            <4> QED BY <3>1, <3>2, <4>2, <4>3
        <3> QED BY <3>1, <3>2
    <2>2. g = [i \in 0..n |-> g[i]]
        BY <1>5 DEF Steps
    <2>3. g = [i \in 0..n |->
                 IF i = 0 THEN Begins(c, s)
                 ELSE CHOOSE r \in {Try(c, before, i - 1) : before \in {g[i-1]}} : TRUE]
        BY <2>1, <2>2, Zenon
    <2> QED BY <2>3 DEF ExecuteTurns, n
<1>8. PICK f : Execute(c, s) = f[n] /\ ExecuteTurns(f, c, s)
    BY <1>7, ExecuteIs DEF n
<1>9. f[0] = Begins(c, s) /\ \A i \in 1..n : f[i] = Try(c, f[i-1], i - 1)
    <2>1. f[0] = Begins(c, s)
        BY <1>2, <1>8 DEF ExecuteTurns, n
    <2>2. ASSUME NEW i \in 1..n PROVE f[i] = Try(c, f[i-1], i - 1)
        <3>1. i \in 0..n /\ i # 0
            BY <1>2
        <3>2. f[i] = CHOOSE r \in {Try(c, before, i - 1) : before \in {f[i-1]}} : TRUE
            BY <1>8, <3>1 DEF ExecuteTurns, n
        <3>3. (CHOOSE r \in {Try(c, before, i - 1) : before \in {f[i-1]}} : TRUE)
                = Try(c, f[i-1], i - 1)
            OBVIOUS
        <3> QED BY <3>2, <3>3
    <2> QED BY <2>1, <2>2
<1>10. \A i \in 0..n : <<i, f[i]>> \in P
    <2> DEFINE T == {i \in Nat : i \in 0..n => <<i, f[i]>> \in P}
    <2>1. 0 \in T
        BY <1>3, <1>9
    <2>2. ASSUME NEW i \in Nat, i \in T PROVE i + 1 \in T
        <3> SUFFICES ASSUME i + 1 \in 0..n PROVE <<i + 1, f[i+1]>> \in P
            OBVIOUS
        <3>1. i \in 0..n /\ i + 1 \in 1..n /\ (i + 1) - 1 = i
            BY <1>2
        <3>2. <<(i + 1) - 1, f[i]>> \in P
            BY <2>2, <3>1
        <3>3. f[i+1] = Try(c, f[i], (i + 1) - 1)
            BY <1>9, <3>1
        <3> QED BY <1>4, <3>1, <3>2, <3>3
    <2> HIDE DEF T
    <2>3. Nat \subseteq T
        BY <2>1, <2>2, Induction
    <2>4. \A i \in 0..n : i \in Nat
        OBVIOUS
    <2> QED BY <2>3, <2>4 DEF T
<1> QED BY <1>2, <1>8, <1>10 DEF P
---------------------------------------------------------------------------------------
(* A turn *)

LEMMA GoesOn ==
    ASSUME NEW c \in Core, NEW s \in CoreState, NEW t, NEW u, GoneTo(c, s, t), GoneTo(c, t, u)
    PROVE  GoneTo(c, s, u)
<1>1. t \in CoreState /\ u \in CoreState
    BY DEF GoneTo
<1>2. Len(s.queue) \in Nat /\ Len(t.queue) \in Nat /\ Len(u.queue) \in Nat
    BY <1>1, CoreFields, LenProperties
<1>3. Len(u.queue) <= Len(s.queue)
    BY <1>2 DEF GoneTo
<1>4. \A k \in InRob(s) : k \in InRob(u) /\ u.rob[k] = s.rob[k]
    BY DEF GoneTo
<1> QED BY <1>3, <1>4 DEF GoneTo

LEMMA StaysThere ==
    ASSUME NEW c \in Core, NEW s \in CoreState, Buffer(s), Fetched(c, s) PROVE GoneTo(c, s, s)
<1>1. Len(s.queue) \in Nat
    BY CoreFields, LenProperties
<1> QED BY <1>1 DEF GoneTo

\* A new position of the buffer is an old one with the same instruction.
LEMMA FetchedBefore ==
    ASSUME NEW c \in Core, NEW s \in CoreState, NEW t \in CoreState, Fetched(c, s),
           t.queue = s.queue, t.next = s.next,
           \A i \in Positions(t) : \E j \in Positions(s) : E(t, i).id = E(s, j).id
    PROVE  Fetched(c, t)
BY DEF Fetched

LEMMA PassFetched ==
    ASSUME NEW c \in Core, NEW s \in CoreState, NEW a, Passing(s, a), Fetched(c, s)
    PROVE  Fetched(c, a.s)
<1>1. /\ a.s \in CoreState /\ SameShape(s, a.s) /\ a.s.queue = s.queue /\ a.s.next = s.next
      /\ \A i \in Positions(s) : E(a.s, i).id = E(s, i).id
    BY PassFields DEF Passing
<1>2. Positions(a.s) = Positions(s)
    BY <1>1, SamePlaces
<1> QED BY <1>1, <1>2, FetchedBefore

LEMMA ResolveGoes ==
    ASSUME NEW c \in Core, NEW s \in CoreState, NEW o, Buffer(s), Fetched(c, s), Asked(s, o),
           NEW t, t = Resolve(s)
    PROVE  /\ t \in CoreState /\ Buffer(t) /\ Clean(t) /\ Fetched(c, t) /\ Asked(t, o)
           /\ t.queue = s.queue /\ t.active = s.active /\ t.next = s.next
<1>1. /\ t \in CoreState /\ SameShape(s, t) /\ t.queue = s.queue /\ t.active = s.active
      /\ t.next = s.next
      /\ \A k \in InRob(s) : SameEntry(s.rob[k], t.rob[k]) /\ t.rob[k].state = s.rob[k].state
    BY ResolveIs
<1>2. Buffer(t) /\ Clean(t)
    BY ResolveKeeps
<1>3. Positions(t) = Positions(s) /\ InRob(t) = InRob(s) /\ \A i : E(t, i) = t.rob[At(s, i)]
    BY <1>1, SamePlaces
<1>4. \A i \in Positions(s) : E(t, i).id = E(s, i).id
    <2>1. \A i \in Positions(s) : At(s, i) \in InRob(s)
        BY Places
    <2> QED BY <1>1, <1>3, <2>1 DEF SameEntry, E
<1>5. Fetched(c, t)
    BY <1>1, <1>3, <1>4, FetchedBefore
<1>6. Asked(t, o)
    BY <1>1, <1>3 DEF Asked
<1> QED BY <1>1, <1>2, <1>5, <1>6

LEMMA CommitGoes ==
    ASSUME NEW c \in Core, NEW s \in CoreState, NEW o, Buffer(s), Clean(s), Fetched(c, s), Asked(s, o),
           NEW t, t = Commit(s)
    PROVE  /\ t \in CoreState /\ Buffer(t) /\ Fetched(c, t) /\ Asked(t, o)
           /\ t.queue = s.queue /\ t.active = s.active /\ t.next = s.next
<1>1. PICK n \in Nat : LeftFirst(s, t, n)
    BY CommitIs
<1>2. /\ t \in CoreState /\ t.queue = s.queue /\ t.active = s.active /\ t.next = s.next
      /\ \A i \in 0..n-1 : Done(E(s, i))
    BY <1>1 DEF LeftFirst
<1>3. Buffer(t)
    BY <1>1, CommitKeeps
<1>4. /\ \A i \in Positions(t) : n + i \in Positions(s) /\ E(t, i) = E(s, n + i)
      /\ \A k \in InRob(t) : k \in InRob(s) /\ t.rob[k] = s.rob[k]
      /\ \A k \in InRob(s) : k \in InRob(t) \/ \E i \in 0..n-1 : i \in Positions(s) /\ k = At(s, i)
    BY <1>1, LeftPlaces
<1>5. Fetched(c, t)
    BY <1>2, <1>4, FetchedBefore
<1>6. Asked(t, o)
    <2> SUFFICES ASSUME NEW x \in o, x[1] = "data"
                 PROVE  x[2] \in InRob(t) /\ t.rob[x[2]].state = "executing"
        BY DEF Asked
    <2>1. x[2] \in InRob(s) /\ s.rob[x[2]].state = "executing"
        BY DEF Asked
    <2>2. \A i \in 0..n-1 : x[2] # At(s, i)
        BY <1>2, <2>1 DEF Done, E
    <2> QED BY <1>4, <2>1, <2>2
<1> QED BY <1>2, <1>3, <1>5, <1>6

\* The queue holds instructions of the thread.
LEMMA QueuedFrom ==
    ASSUME NEW c \in Core, NEW s \in CoreState, Fetched(c, s)
    PROVE  /\ \A k \in DOMAIN s.queue : Program[c][s.queue[k].pc] \in Instruction
           /\ FirstLine(c, s) \subseteq {ins.line : ins \in Instruction}
<1>1. /\ s.queue \in Seq(Queued) /\ Len(s.queue) \in Nat /\ DOMAIN s.queue = 1..Len(s.queue)
      /\ s.next \in Nat
    BY CoreFields, LenProperties
<1>2. Program[c] \in Seq(Instruction) /\ Len(Program[c]) \in Nat
    BY CoreAssumption, LenProperties
<1>3. ASSUME NEW k \in DOMAIN s.queue PROVE Program[c][s.queue[k].pc] \in Instruction
    <2>1. PICK p, q, m, l : p = s.queue[k].pc /\ q = Len(s.queue) /\ m = s.next /\ l = Len(Program[c])
        OBVIOUS
    <2>2. /\ k \in 1..q /\ q \in Nat /\ m \in Nat /\ l \in Nat /\ m \in 1..l+1 /\ q < m
          /\ p = m - 1 - q + k
        BY <1>1, <1>2, <2>1 DEF Fetched
    <2>3. p \in 1..l
        BY <2>2
    <2> QED BY <1>2, <2>1, <2>3, ElementOfSeq
<1>4. FirstLine(c, s) \subseteq {ins.line : ins \in Instruction}
    <2>1. \A j \in NotInQueue(s) : j \in DOMAIN s.queue
        BY DEF NotInQueue
    <2> QED BY <1>3, <2>1 DEF FirstLine, Line
<1> QED BY <1>3, <1>4

\* A turn in which the thread does not run, and what comes of it.
Turn(c, s, miss, t, issued, a, u) ==
    /\ t = [s EXCEPT !.wake = @ \ {0}] /\ issued = Issue(c, Load(c, t), miss)
    /\ a = Execute(c, issued) /\ u = Commit(Resolve(a.s))
Turned(c, s, t, a, u) ==
    /\ u \in CoreState /\ Buffer(u) /\ Fetched(c, u)
    /\ u.active = s.active /\ u.next = s.next /\ Len(u.queue) <= Len(s.queue)
    /\ \A p : p \subseteq {<<"line", l>> : l \in FirstLine(c, t)} =>
          Asked(u, a.o \cup p) /\ a.o \cup p \subseteq Request
    /\ a.sh \in Shared /\ [reached EXCEPT ![c] = a.r] \in [Core -> Nat \X Nat]
    /\ \A site : MeetAt(site) => Met(site, a.sh, [reached EXCEPT ![c] = a.r])

LEMMA TurnKeeps ==
    ASSUME NEW c \in Core, NEW s \in CoreState, Buffer(s), Fetched(c, s), Asked(s, out[c]),
           out[c] \subseteq Request, shared \in Shared, reached \in [Core -> Nat \X Nat],
           \A site : MeetAt(site) => Met(site, shared, reached),
           NEW miss \in BOOLEAN, NEW t, NEW issued, NEW a, NEW u, Turn(c, s, miss, t, issued, a, u)
    PROVE  Turned(c, s, t, a, u)
<1>0. /\ t = [s EXCEPT !.wake = @ \ {0}] /\ issued = Issue(c, Load(c, t), miss)
      /\ a = Execute(c, issued) /\ u = Commit(Resolve(a.s))
    BY DEF Turn
<1>1. GoneTo(c, s, t) /\ t \in CoreState /\ Buffer(t) /\ Fetched(c, t)
    <2>1. Requeued(s, t)
        BY <1>0 DEF Requeued, CoreState
    <2>2. GoneTo(c, s, t)
        BY <2>1, RequeuedKeeps
    <2> QED BY <2>2 DEF GoneTo
<1>2. PICK l : l = Load(c, t)
    OBVIOUS
<1>3. GoneTo(c, t, l) /\ l \in CoreState /\ Buffer(l) /\ Fetched(c, l)
    <2>1. GoneTo(c, t, l)
        BY <1>1, <1>2, LoadKeeps
    <2> QED BY <2>1 DEF GoneTo
<1>4. GoneTo(c, l, issued)
    BY <1>0, <1>2, <1>3, StaysThere, IssueKeeps
<1>5. GoneTo(c, s, issued)
    BY <1>1, <1>3, <1>4, GoesOn
<1>6. /\ issued \in CoreState /\ Buffer(issued) /\ Fetched(c, issued)
      /\ issued.active = s.active /\ issued.next = s.next /\ Len(issued.queue) <= Len(s.queue)
      /\ \A k \in InRob(s) : k \in InRob(issued) /\ issued.rob[k] = s.rob[k]
    BY <1>5 DEF GoneTo
<1>7. Keeps(c, issued, reached, Begins(c, issued))
    <2>1. reached[c] \in Nat \X Nat /\ [reached EXCEPT ![c] = reached[c]] = reached
        OBVIOUS
    <2>2. PICK b : b = Begins(c, issued)
        OBVIOUS
    <2>3. /\ b.s = issued /\ b.o = out[c] /\ b.sh = shared /\ b.r = reached[c]
        BY <2>2 DEF Begins
    <2>4. b \in Pass
        BY <1>6, <2>1, <2>2 DEF Begins, Pass
    <2>5. Asked(issued, out[c])
        BY <1>6 DEF Asked
    <2>6. Passing(issued, b)
        BY <1>6, <2>3, <2>4, <2>5 DEF Passing, SameShape
    <2>7. \A site : MeetAt(site) => Met(site, b.sh, [reached EXCEPT ![c] = b.r])
        BY <2>1, <2>3
    <2> QED BY <2>2, <2>6, <2>7 DEF Keeps
<1>8. Keeps(c, issued, reached, a)
    BY <1>0, <1>6, <1>7, ExecuteKeeps
<1>9. /\ Passing(issued, a) /\ a \in Pass /\ a.s \in CoreState /\ Buffer(a.s) /\ Asked(a.s, a.o)
      /\ a.s.queue = issued.queue /\ a.s.active = issued.active /\ a.s.next = issued.next
      /\ a.sh \in Shared /\ a.r \in Nat \X Nat /\ a.o \subseteq Request
      /\ \A site : MeetAt(site) => Met(site, a.sh, [reached EXCEPT ![c] = a.r])
    <2>1. Passing(issued, a) /\ \A site : MeetAt(site) => Met(site, a.sh, [reached EXCEPT ![c] = a.r])
        BY <1>8 DEF Keeps
    <2>2. /\ a \in Pass /\ Buffer(a.s) /\ Asked(a.s, a.o)
          /\ a.s.queue = issued.queue /\ a.s.active = issued.active /\ a.s.next = issued.next
        BY <2>1 DEF Passing
    <2> QED BY <2>1, <2>2, PassFields
<1>10. Fetched(c, a.s)
    BY <1>6, <1>9, PassFetched
<1>11. PICK r : r = Resolve(a.s)
    OBVIOUS
<1>12. /\ r \in CoreState /\ Buffer(r) /\ Clean(r) /\ Fetched(c, r) /\ Asked(r, a.o)
       /\ r.queue = a.s.queue /\ r.active = a.s.active /\ r.next = a.s.next
    BY <1>9, <1>10, <1>11, ResolveGoes
<1>13. /\ u \in CoreState /\ Buffer(u) /\ Fetched(c, u) /\ Asked(u, a.o)
       /\ u.queue = r.queue /\ u.active = r.active /\ u.next = r.next
    BY <1>0, <1>11, <1>12, CommitGoes
<1>14. ASSUME NEW p, p \subseteq {<<"line", x>> : x \in FirstLine(c, t)}
       PROVE  Asked(u, a.o \cup p) /\ a.o \cup p \subseteq Request
    <2>1. \A x \in p : x[1] = "line" /\ x \in Request
        <3>1. FirstLine(c, t) \subseteq {ins.line : ins \in Instruction}
            BY <1>1, QueuedFrom
        <3>2. \A x \in FirstLine(c, t) : <<"line", x>> \in Request
            BY <3>1 DEF Request
        <3>3. ASSUME NEW y \in p PROVE y[1] = "line" /\ y \in Request
            <4>1. PICK x \in FirstLine(c, t) : y = <<"line", x>>
                BY <1>14, <3>3
            <4> QED BY <3>2, <4>1
        <3> QED BY <3>3
    <2> QED BY <1>9, <1>13, <2>1 DEF Asked
<1>15. [reached EXCEPT ![c] = a.r] \in [Core -> Nat \X Nat]
    BY <1>9
<1> QED BY <1>6, <1>9, <1>12, <1>13, <1>14, <1>15 DEF Turned
---------------------------------------------------------------------------------------
(* The front end and the memory *)

\* n instructions of the thread are added to the queue, which has room for them.
Takes(c, s, n, sent, on, t) == s = core[c] /\ t = [Taken(c, n, sent) EXCEPT !.active = on]

LEMMA TakenIs ==
    ASSUME NEW c \in Core, NEW s \in CoreState, Buffer(s), Fetched(c, s),
           NEW n \in Nat, n > 0, s.next + n - 1 <= Len(Program[c]),
           Len(s.queue) + n <= o3queue_max_size, NEW sent \in BOOLEAN, NEW on \in BOOLEAN,
           NEW t, Takes(c, s, n, sent, on, t)
    PROVE  /\ t \in CoreState /\ SameShape(s, t) /\ t.rob = s.rob /\ t.complete = s.complete
           /\ Buffer(t) /\ Fetched(c, t)
           /\ t.active = on /\ t.next = s.next + n /\ Len(t.queue) = Len(s.queue) + n
<1>1. PICK q, x, m, r : /\ q = s.queue /\ x = s.next /\ m = Len(q)
                        /\ r = [i \in 1..n |-> [pc |-> x + i - 1, state |-> "not_in_queue", ready |-> 0]]
    OBVIOUS
<1>2. /\ q \in Seq(Queued) /\ m \in Nat /\ x \in Nat /\ x \in 1..Len(Program[c])+1
      /\ Len(Program[c]) \in Nat /\ s.wake \subseteq Nat
    <2>1. Program[c] \in Seq(Instruction)
        BY CoreAssumption
    <2> QED BY <1>1, <2>1, CoreFields, LenProperties DEF Fetched
<1>3. r \in Seq(Queued) /\ Len(r) = n /\ \A i \in 1..n : r[i].pc = x + i - 1
    <2>1. \A i \in 1..n : x + i - 1 \in Nat
        BY <1>2
    <2>2. \A i \in 1..n : r[i] \in Queued /\ r[i].pc = x + i - 1
        BY <1>1, <2>1 DEF Queued
    <2>3. r \in [1..n -> Queued]
        BY <1>1, <2>2
    <2> HIDE DEF Queued
    <2> QED BY <2>2, <2>3
<1>4. PICK all : all = q \o r
    OBVIOUS
<1>5. /\ all \in Seq(Queued) /\ Len(all) = m + n
      /\ \A k \in 1..m+n : all[k] = IF k <= m THEN q[k] ELSE r[k-m]
    <2> HIDE DEF Queued
    <2> QED BY <1>1, <1>2, <1>3, <1>4, ConcatProperties
<1>6. SubSeq(all, 1, Min({Len(all), o3queue_max_size})) = all
    <2>1. Min({Len(all), o3queue_max_size}) = Len(all)
        <3>1. PICK l, w : l = Len(all) /\ w = o3queue_max_size /\ l \in Nat /\ w \in Nat /\ l <= w
            <4>1. /\ Len(all) = m + n /\ m + n <= o3queue_max_size /\ m + n \in Nat
                  /\ o3queue_max_size \in Nat
                BY <1>1, <1>2, <1>5, Sizes
            <4> QED BY <4>1
        <3>2. Min({l, w}) = l
            BY <3>1, Smaller
        <3> QED BY <3>1, <3>2
    <2> QED BY <1>5, <2>1, SubSeqFull
<1>7. t = [s EXCEPT !.queue = all, !.next = x + n,
                    !.wake = IF q = <<>> /\ ~sent THEN s.wake \cup {1} ELSE s.wake, !.active = on]
    <2>1. Taken(c, n, sent) = [s EXCEPT !.queue = all, !.next = x + n,
                    !.wake = IF q = <<>> /\ ~sent THEN s.wake \cup {1} ELSE s.wake]
        BY <1>1, <1>4, <1>6 DEF Taken, Takes
    <2> QED BY <2>1 DEF Takes
<1>8. /\ t \in CoreState /\ t.queue = all /\ t.next = x + n /\ t.active = on
      /\ t.rob = s.rob /\ t.head = s.head /\ t.size = s.size /\ t.complete = s.complete
    <2>1. (IF q = <<>> /\ ~sent THEN s.wake \cup {1} ELSE s.wake) \in SUBSET Nat
        BY <1>2
    <2>2. x + n \in Nat
        BY <1>2
    <2> HIDE DEF Queued
    <2> QED BY <1>2, <1>5, <1>7, <2>1, <2>2 DEF CoreState
<1>9. SameShape(s, t)
    BY <1>8 DEF SameShape
<1>10. Buffer(t) /\ \A i : E(t, i) = E(s, i)
    BY <1>8, <1>9, BufferSame
<1>11. Fetched(c, t)
    <2>1. t.next \in 1..Len(Program[c])+1 /\ Len(t.queue) <= o3queue_max_size /\ Len(t.queue) < t.next
        <3>1. m < x
            BY <1>1 DEF Fetched
        <3>2. x + n \in 1..Len(Program[c])+1
            BY <1>1, <1>2
        <3>3. m + n < x + n
            BY <1>2, <3>1
        <3> QED BY <1>1, <1>5, <1>8, <3>2, <3>3
    <2>2. ASSUME NEW k \in 1..Len(t.queue) PROVE t.queue[k].pc = t.next - 1 - Len(t.queue) + k
        <3>1. k \in 1..m+n
            BY <1>5, <1>8
        <3>2. CASE k <= m
            <4>1. q[k].pc = x - 1 - m + k
                BY <1>1, <1>2, <3>1, <3>2 DEF Fetched
            <4>2. all[k] = q[k]
                BY <1>2, <1>5, <3>1, <3>2
            <4>3. t.queue[k].pc = x - 1 - m + k /\ t.next = x + n /\ Len(t.queue) = m + n
                BY <1>5, <1>8, <4>1, <4>2
            <4> QED BY <1>2, <3>1, <4>3
        <3>3. CASE k > m
            <4>1. k - m \in 1..n
                BY <1>2, <3>1, <3>3
            <4>2. r[k-m].pc = x + (k - m) - 1
                BY <1>3, <4>1
            <4>3. all[k] = r[k-m]
                BY <1>2, <1>5, <3>1, <3>3
            <4>4. t.queue[k].pc = x + (k - m) - 1 /\ t.next = x + n /\ Len(t.queue) = m + n
                BY <1>5, <1>8, <4>2, <4>3
            <4> QED BY <1>2, <3>1, <4>4
        <3> QED BY <1>2, <3>1, <3>2, <3>3
    <2>3. Positions(t) = Positions(s)
        BY <1>8, <1>9, SamePlaces
    <2>4. \A i \in Positions(t) : E(t, i).id[1] < t.next - Len(t.queue)
        <3>1. \A i \in Positions(s) : E(s, i).id[1] < x - m
            <4>1. \A i \in Positions(s) : E(s, i).id[1] < s.next - Len(s.queue)
                BY DEF Fetched
            <4> QED BY <1>1, <4>1
        <3>2. t.next - Len(t.queue) = x - m
            <4>1. t.next = x + n /\ Len(t.queue) = m + n
                BY <1>5, <1>8
            <4> QED BY <1>2, <4>1
        <3> QED BY <1>10, <2>3, <3>1, <3>2
    <2> QED BY <2>1, <2>2, <2>3, <2>4 DEF Fetched
<1> QED BY <1>1, <1>5, <1>8, <1>9, <1>10, <1>11

\* A core that is not told to go on has room for one instruction more.
Paced(c, s, r) ==
    /\ r = c => s.active /\ Len(s.queue) <= o3queue_max_size \div 2
    /\ ~s.active => Len(s.queue) < o3queue_max_size \/ s.next = Len(Program[c]) + 1

Good(c, s, o, r) == s \in CoreState /\ Buffer(s) /\ Fetched(c, s) /\ Asked(s, o) /\ Paced(c, s, r)
CoresInv ==
    /\ core \in [Core -> CoreState] /\ out \in [Core -> SUBSET Request]
    /\ shared \in Shared /\ returned \in Core \cup {NoCore} /\ reached \in [Core -> Nat \X Nat]
    /\ \A c \in Core : Good(c, core[c], out[c], returned)
    /\ \A site : MeetAt(site) => Met(site, shared, reached)

\* One core takes a step.
LEMMA OneCore ==
    ASSUME CoresInv, NEW c \in Core, NEW s, NEW o, core' = [core EXCEPT ![c] = s],
           out' = [out EXCEPT ![c] = o], o \subseteq Request, Good(c, s, o, returned'),
           returned' \in {returned, c, NoCore}, shared' \in Shared,
           reached' \in [Core -> Nat \X Nat],
           \A site : MeetAt(site) => Met(site, shared', reached')
    PROVE  CoresInv'
<1>1. s \in CoreState
    BY DEF Good
<1>2. core' \in [Core -> CoreState] /\ out' \in [Core -> SUBSET Request]
    BY <1>1 DEF CoresInv
<1>3. returned' \in Core \cup {NoCore}
    BY DEF CoresInv
<1>4. ASSUME NEW d \in Core PROVE Good(d, core'[d], out'[d], returned')
    <2>1. CASE d = c
        BY <2>1 DEF CoresInv
    <2>2. CASE d # c
        <3>1. core'[d] = core[d] /\ out'[d] = out[d] /\ Good(d, core[d], out[d], returned)
            BY <2>2 DEF CoresInv
        <3>2. returned' = d => returned = d
            BY <2>2, CoreAssumption
        <3>3. Paced(d, core[d], returned')
            BY <3>1, <3>2 DEF Good, Paced
        <3> QED BY <3>1, <3>3 DEF Good
    <2> QED BY <2>1, <2>2
<1> QED BY <1>2, <1>3, <1>4 DEF CoresInv

LEMMA OfCore ==
    ASSUME CoresInv, NEW c \in Core
    PROVE  /\ core[c] \in CoreState /\ Buffer(core[c]) /\ Fetched(c, core[c])
           /\ Asked(core[c], out[c]) /\ Paced(c, core[c], returned) /\ Good(c, core[c], out[c], returned)
           /\ out[c] \subseteq Request /\ DOMAIN core = Core /\ DOMAIN out = Core
           /\ core[c].queue \in Seq(Queued) /\ Len(core[c].queue) \in Nat /\ core[c].next \in Nat
           /\ Len(Program[c]) \in Nat /\ core[c].active \in BOOLEAN
           /\ [core EXCEPT ![c] = core[c]] = core /\ [out EXCEPT ![c] = out[c]] = out
<1>1. core[c] \in CoreState /\ out[c] \subseteq Request
    BY DEF CoresInv
<1>2. Program[c] \in Seq(Instruction)
    BY CoreAssumption
<1>3. Good(c, core[c], out[c], returned) /\ DOMAIN core = Core /\ DOMAIN out = Core
    BY DEF CoresInv
<1>4. [core EXCEPT ![c] = core[c]] = core /\ [out EXCEPT ![c] = out[c]] = out
    BY DEF CoresInv
<1> QED BY <1>1, <1>2, <1>3, <1>4, CoreFields, LenProperties DEF Good

LEMMA FetchGood ==
    ASSUME CoresInv, NEW c \in Core, Fetch(c) PROVE CoresInv'
<1>1. /\ core' = core /\ out' = out /\ shared' = shared /\ reached' = reached
      /\ returned' = c /\ core[c].active /\ Len(core[c].queue) <= o3queue_max_size \div 2
    BY DEF Fetch, Fetches
<1>2. Good(c, core[c], out[c], c)
    BY <1>1, OfCore DEF Good, Paced
<1> QED BY <1>1, <1>2, OfCore, OneCore DEF CoresInv

LEMMA RunGood ==
    ASSUME CoresInv, NEW c \in Core, Run(c) PROVE CoresInv'
<1>1. PICK t : t = [core[c] EXCEPT !.wake = @ \ {0}]
    OBVIOUS
<1>2. PICK miss \in Predicted(c), z \in {[core[c] EXCEPT !.wake = @ \ {0}]} :
        \E issued \in {Issue(c, Load(c, z), miss)} :
          \E a \in {Execute(c, issued)} : \E resolved \in {Resolve(a.s)} :
              /\ core' = [core EXCEPT ![c] = Commit(resolved)]
              /\ out' = [out EXCEPT ![c] = a.o \cup {<<"line", l>> : l \in FirstLine(c, z)}]
              /\ shared' = a.sh
              /\ reached' = [reached EXCEPT ![c] = a.r]
    BY Zenon DEF Run
<1>3. PICK issued, a, u, p :
        /\ issued = Issue(c, Load(c, t), miss) /\ a = Execute(c, issued) /\ u = Commit(Resolve(a.s))
        /\ p = {<<"line", l>> : l \in FirstLine(c, t)}
        /\ core' = [core EXCEPT ![c] = u] /\ out' = [out EXCEPT ![c] = a.o \cup p]
        /\ shared' = a.sh /\ reached' = [reached EXCEPT ![c] = a.r]
    <2>1. z = t
        BY <1>1, <1>2
    <2>2. PICK issued \in {Issue(c, Load(c, z), miss)} :
            \E a \in {Execute(c, issued)} : \E resolved \in {Resolve(a.s)} :
              /\ core' = [core EXCEPT ![c] = Commit(resolved)]
              /\ out' = [out EXCEPT ![c] = a.o \cup {<<"line", l>> : l \in FirstLine(c, z)}]
              /\ shared' = a.sh
              /\ reached' = [reached EXCEPT ![c] = a.r]
        BY <1>2
    <2>3. PICK a \in {Execute(c, issued)} : \E resolved \in {Resolve(a.s)} :
              /\ core' = [core EXCEPT ![c] = Commit(resolved)]
              /\ out' = [out EXCEPT ![c] = a.o \cup {<<"line", l>> : l \in FirstLine(c, z)}]
              /\ shared' = a.sh
              /\ reached' = [reached EXCEPT ![c] = a.r]
        BY <2>2
    <2>4. /\ issued = Issue(c, Load(c, t), miss) /\ a = Execute(c, issued)
          /\ core' = [core EXCEPT ![c] = Commit(Resolve(a.s))]
          /\ out' = [out EXCEPT ![c] = a.o \cup {<<"line", l>> : l \in FirstLine(c, t)}]
          /\ shared' = a.sh
          /\ reached' = [reached EXCEPT ![c] = a.r]
        BY <2>1, <2>2, <2>3
    <2> QED BY <2>4
<1>4. miss \in BOOLEAN /\ returned' = returned /\ returned = NoCore
    BY DEF Run, Predicted
<1>5. /\ shared \in Shared /\ reached \in [Core -> Nat \X Nat]
      /\ \A site : MeetAt(site) => Met(site, shared, reached)
    BY DEF CoresInv
<1>6. Turned(c, core[c], t, a, u)
    <2>1. Turn(c, core[c], miss, t, issued, a, u)
        BY <1>1, <1>3 DEF Turn
    <2> QED BY <1>4, <1>5, <2>1, OfCore, TurnKeeps
<1>7. Asked(u, a.o \cup p) /\ a.o \cup p \subseteq Request
    BY <1>3, <1>6 DEF Turned
<1>8. Paced(c, u, returned')
    <2>1. PICK x, y : x = Len(u.queue) /\ y = Len(core[c].queue)
        OBVIOUS
    <2>2. x \in Nat /\ y \in Nat /\ o3queue_max_size \in Nat /\ x <= y
        BY <1>6, <2>1, CoreFields, LenProperties, OfCore, Sizes DEF Turned
    <2>3. ~u.active => x < o3queue_max_size \/ u.next = Len(Program[c]) + 1
        BY <1>6, <2>1, <2>2, OfCore DEF Paced, Turned
    <2> QED BY <1>4, <2>1, <2>3, CoreAssumption DEF Paced
<1>9. Good(c, u, a.o \cup p, returned')
    BY <1>6, <1>7, <1>8 DEF Good, Turned
<1>10. a.sh \in Shared /\ [reached EXCEPT ![c] = a.r] \in [Core -> Nat \X Nat]
       /\ \A site : MeetAt(site) => Met(site, a.sh, [reached EXCEPT ![c] = a.r])
    BY <1>6 DEF Turned
<1> QED BY <1>3, <1>4, <1>7, <1>9, <1>10, OneCore

LEMMA FeedGood ==
    ASSUME CoresInv, NEW c \in Core, Feed(c) PROVE CoresInv'
<1>1. PICK n \in {1, Longest(c)}, on \in BOOLEAN, sent \in BOOLEAN :
        /\ IF on THEN core[c].next + n - 1 < Len(Program[c])
           ELSE core[c].next + n - 1 \in Blocks[c] \cup {Len(Program[c])}
        /\ core' = [core EXCEPT ![c] = [Taken(c, n, sent) EXCEPT !.active = on]]
    BY DEF Feed
<1>2. /\ returned = c /\ returned' = NoCore /\ out' = out /\ shared' = shared /\ reached' = reached
    BY DEF Feed
<1>3. PICK s, t : s = core[c] /\ t = [Taken(c, n, sent) EXCEPT !.active = on]
    OBVIOUS
<1>4. PICK m, w, x, l : m = Len(s.queue) /\ w = o3queue_max_size /\ x = s.next /\ l = Len(Program[c])
    OBVIOUS
<1>5. m \in Nat /\ w \in Nat /\ w > 4 /\ x \in Nat /\ l \in Nat /\ m <= w \div 2
    BY <1>2, <1>3, <1>4, OfCore, Sizes DEF Paced
<1>6. n \in Nat /\ n > 0 /\ m + n < w
    <2>1. CASE n = 1
        <3>1. w \div 2 + 1 < w
            BY <1>5
        <3> QED BY <1>5, <2>1, <3>1
    <2>2. CASE n = Longest(c) /\ n # 1
        <3>1. Left(c) \in Int /\ Room(core[c]) = w - 4 - m
            BY <1>3, <1>4, <1>5 DEF Left, Room, Slack
        <3>2. PICK y, z, v : y = Left(c) /\ z = w - 4 - m /\ v = Min({y, z}) /\ n = Max({1, v})
            BY <2>2, <3>1 DEF Longest
        <3>3. v \in Int /\ v <= z
            <4>1. y \in Int /\ z \in Int
                BY <1>5, <3>1, <3>2
            <4>2. v = IF y <= z THEN y ELSE z
                BY <3>2, <4>1, Smaller
            <4> QED BY <4>1, <4>2
        <3>4. n = IF 1 <= v THEN v ELSE 1
            <4>1. 1 \in Int /\ v \in Int
                BY <3>3
            <4> QED BY <3>2, <4>1, Smaller
        <3>5. n = v /\ 1 <= v
            BY <2>2, <3>3, <3>4
        <3> QED BY <1>5, <3>2, <3>3, <3>5
    <2> QED BY <2>1, <2>2
<1>7. x + n - 1 <= l
    <2>1. Blocks[c] \subseteq 1..l
        BY <1>4, CoreAssumption
    <2> QED BY <1>1, <1>3, <1>4, <1>5, <1>6, <2>1
<1>8. /\ t \in CoreState /\ SameShape(s, t) /\ t.rob = s.rob /\ Buffer(t) /\ Fetched(c, t)
      /\ Len(t.queue) = m + n
    <2>1. s \in CoreState /\ Buffer(s) /\ Fetched(c, s)
        BY <1>3, OfCore
    <2>2. s.next + n - 1 <= Len(Program[c]) /\ Len(s.queue) + n <= o3queue_max_size
        BY <1>4, <1>5, <1>6, <1>7
    <2>3. Takes(c, s, n, sent, on, t)
        BY <1>3 DEF Takes
    <2> QED BY <1>4, <1>6, <2>1, <2>2, <2>3, TakenIs
<1>9. Asked(t, out[c])
    BY <1>3, <1>8, OfCore, SamePlaces DEF Asked
<1>10. Paced(c, t, NoCore)
    BY <1>4, <1>6, <1>8, CoreAssumption DEF Paced
<1>11. Good(c, t, out[c], returned')
    BY <1>2, <1>8, <1>9, <1>10 DEF Good
<1>12. core' = [core EXCEPT ![c] = t]
    BY <1>1, <1>3
<1> QED BY <1>2, <1>11, <1>12, OfCore, OneCore DEF CoresInv

LEMMA UnblockGood ==
    ASSUME CoresInv, NEW c \in Core, Unblock(c) PROVE CoresInv'
<1>1. PICK sent \in BOOLEAN :
        core' = [core EXCEPT ![c] = [Taken(c, 1, sent) EXCEPT !.active = Left(c) > 1]]
    BY DEF Unblock
<1>2. /\ ~core[c].active /\ Left(c) > 0
      /\ returned' = returned /\ out' = out /\ shared' = shared /\ reached' = reached
    BY DEF Unblock
<1>3. PICK s, on, t : s = core[c] /\ on = (Left(c) > 1) /\ t = [Taken(c, 1, sent) EXCEPT !.active = on]
    OBVIOUS
<1>4. PICK m, w, x, l : m = Len(s.queue) /\ w = o3queue_max_size /\ x = s.next /\ l = Len(Program[c])
    OBVIOUS
<1>5. /\ m \in Nat /\ w \in Nat /\ x \in Nat /\ l \in Nat
      /\ Left(c) = l - x + 1 /\ x <= l /\ m < w
    <2>1. m \in Nat /\ w \in Nat /\ x \in Nat /\ l \in Nat
        BY <1>3, <1>4, OfCore, Sizes
    <2>2. Left(c) = l - x + 1
        BY <1>3, <1>4 DEF Left
    <2>3. m < w \/ x = l + 1
        BY <1>2, <1>3, <1>4, OfCore DEF Paced
    <2> QED BY <1>2, <2>1, <2>2, <2>3
<1>6. on \in BOOLEAN
    BY <1>3
<1>7. /\ t \in CoreState /\ SameShape(s, t) /\ t.rob = s.rob /\ Buffer(t) /\ Fetched(c, t)
      /\ t.active = on /\ t.next = x + 1
    <2>1. s \in CoreState /\ Buffer(s) /\ Fetched(c, s)
        BY <1>3, OfCore
    <2>2. s.next + 1 - 1 <= Len(Program[c]) /\ Len(s.queue) + 1 <= o3queue_max_size
        BY <1>4, <1>5
    <2>3. 1 \in Nat /\ 1 > 0
        OBVIOUS
    <2>4. Takes(c, s, 1, sent, on, t)
        BY <1>3 DEF Takes
    <2> QED BY <1>4, <1>6, <2>1, <2>2, <2>3, <2>4, TakenIs
<1>8. Asked(t, out[c])
    BY <1>3, <1>7, OfCore, SamePlaces DEF Asked
<1>9. Paced(c, t, returned')
    <2>1. returned' # c
        BY <1>2, OfCore DEF Paced
    <2>2. ~t.active => t.next = Len(Program[c]) + 1
        <3>1. ~t.active => ~(Left(c) > 1)
            BY <1>3, <1>7, Zenon
        <3> QED BY <1>4, <1>5, <1>7, <3>1
    <2> QED BY <2>1, <2>2 DEF Paced
<1>10. Good(c, t, out[c], returned')
    BY <1>7, <1>8, <1>9 DEF Good
<1>11. core' = [core EXCEPT ![c] = t]
    BY <1>1, <1>3
<1> QED BY <1>2, <1>10, <1>11, OfCore, OneCore DEF CoresInv

LEMMA AnswerLineGood ==
    ASSUME CoresInv, NEW c \in Core, AnswerLine(c) PROVE CoresInv'
<1>1. PICK s, q : s = core[c] /\ q = s.queue
    OBVIOUS
<1>2. PICK o \in out[c] :
        /\ core' = [core EXCEPT ![c].queue = [i \in DOMAIN @ |->
                        IF @[i].state = "being_loaded" /\ Line(c, @[i]) = o[2]
                        THEN [@[i] EXCEPT !.state = "ready", !.ready = 1] ELSE @[i]],
                                ![c].wake = @ \cup {1}]
        /\ out' = [out EXCEPT ![c] = @ \ {o}]
    BY DEF AnswerLine
<1>3. returned' = returned /\ shared' = shared /\ reached' = reached
    BY DEF AnswerLine
<1>4. PICK r, t, p :
        /\ r = [i \in DOMAIN q |-> IF q[i].state = "being_loaded" /\ Line(c, q[i]) = o[2]
                                  THEN [q[i] EXCEPT !.state = "ready", !.ready = 1] ELSE q[i]]
        /\ t = [s EXCEPT !.queue = r, !.wake = s.wake \cup {1}] /\ p = out[c] \ {o}
    OBVIOUS
<1>5. core' = [core EXCEPT ![c] = t] /\ out' = [out EXCEPT ![c] = p]
    BY <1>1, <1>2, <1>4, OfCore
<1>6. Requeued(s, t)
    <2>1. /\ s \in CoreState /\ q \in Seq(Queued) /\ DOMAIN q = 1..Len(q)
          /\ \A i \in DOMAIN q : q[i] \in Queued
        BY <1>1, OfCore, LenProperties, ElementOfSeq
    <2>2. \A i \in DOMAIN q : r[i] \in Queued /\ r[i].pc = q[i].pc
        BY <1>4, <2>1 DEF Queued
    <2>3. r \in [DOMAIN q -> Queued]
        BY <1>4, <2>2
    <2>4. r \in Seq(Queued) /\ Len(r) = Len(q)
        BY <2>1, <2>3, Replaced
    <2>5. s.wake \cup {1} \subseteq Nat
        BY <2>1, CoreFields
    <2>6. \A i \in 1..Len(q) : r[i].pc = q[i].pc
        BY <2>1, <2>2
    <2>7. t \in CoreState /\ t.queue = r
        <3> HIDE DEF Queued
        <3> QED BY <1>4, <2>1, <2>4, <2>5 DEF CoreState
    <2>8. /\ t.head = s.head /\ t.size = s.size /\ t.rob = s.rob
          /\ t.complete = s.complete /\ t.active = s.active /\ t.next = s.next
        BY <1>4, <2>1 DEF CoreState
    <2> QED BY <1>1, <2>4, <2>6, <2>7, <2>8 DEF Requeued
<1>7. GoneTo(c, s, t)
    BY <1>1, <1>6, OfCore, RequeuedKeeps
<1>8. /\ t \in CoreState /\ Buffer(t) /\ Fetched(c, t) /\ t.active = s.active /\ t.next = s.next
      /\ \A k \in InRob(s) : k \in InRob(t) /\ t.rob[k] = s.rob[k]
    BY <1>7 DEF GoneTo
<1>9. Len(t.queue) = Len(s.queue)
    BY <1>6 DEF Requeued
<1>10. Good(c, t, p, returned')
    <2>1. Asked(t, p)
        <3>1. Asked(s, out[c]) /\ p \subseteq out[c]
            BY <1>1, <1>4, OfCore
        <3> QED BY <1>8, <3>1 DEF Asked
    <2>2. Paced(c, t, returned')
        BY <1>1, <1>3, <1>8, <1>9, OfCore DEF Paced
    <2> QED BY <1>8, <2>1, <2>2 DEF Good
<1>11. p \subseteq Request
    BY <1>4, OfCore
<1> QED BY <1>3, <1>5, <1>10, <1>11, OneCore DEF CoresInv

LEMMA AnswerPrefetchGood ==
    ASSUME CoresInv, NEW c \in Core, AnswerPrefetch(c) PROVE CoresInv'
<1>1. PICK s, t : s = core[c] /\ t = [s EXCEPT !.wake = s.wake \cup {1}]
    OBVIOUS
<1>2. PICK p : core' = [core EXCEPT ![c] = t] /\ out' = [out EXCEPT ![c] = p] /\ p \subseteq out[c]
    <2>1. PICK o \in out[c] :
            core' = [core EXCEPT ![c].wake = @ \cup {1}] /\ out' = [out EXCEPT ![c] = @ \ {o}]
        BY DEF AnswerPrefetch
    <2>2. core' = [core EXCEPT ![c] = t] /\ out' = [out EXCEPT ![c] = out[c] \ {o}]
        BY <1>1, <2>1
    <2> QED BY <2>2
<1>3. returned' = returned /\ shared' = shared /\ reached' = reached
    BY DEF AnswerPrefetch
<1>4. Requeued(s, t)
    <2>1. s \in CoreState /\ s.wake \cup {1} \subseteq Nat
        BY <1>1, OfCore, CoreFields
    <2> QED BY <1>1, <2>1 DEF Requeued, CoreState
<1>5. GoneTo(c, s, t)
    BY <1>1, <1>4, OfCore, RequeuedKeeps
<1>6. /\ t \in CoreState /\ Buffer(t) /\ Fetched(c, t) /\ t.active = s.active /\ t.next = s.next
      /\ \A k \in InRob(s) : k \in InRob(t) /\ t.rob[k] = s.rob[k]
    BY <1>5 DEF GoneTo
<1>7. Len(t.queue) = Len(s.queue)
    BY <1>4 DEF Requeued
<1>8. Good(c, t, p, returned')
    <2>1. Asked(t, p)
        <3>1. Asked(s, out[c])
            BY <1>1, OfCore
        <3> QED BY <1>2, <1>6, <3>1 DEF Asked
    <2>2. Paced(c, t, returned')
        BY <1>1, <1>3, <1>6, <1>7, OfCore DEF Paced
    <2> QED BY <1>6, <2>1, <2>2 DEF Good
<1>9. p \subseteq Request
    BY <1>2, OfCore
<1> QED BY <1>2, <1>3, <1>8, <1>9, OneCore DEF CoresInv

LEMMA AnswerDataGood ==
    ASSUME CoresInv, NEW c \in Core, AnswerData(c) PROVE CoresInv'
<1>1. PICK o \in out[c] :
        /\ o[1] = "data"
        /\ LET e == core[c].rob[o[2]]
               ready == 1 + IF e.branch_miss THEN branch_miss_penalty ELSE 0
           IN  core' = [core EXCEPT ![c].rob[o[2]].state = "completed",
                                    ![c].rob[o[2]].ready = ready,
                                    ![c].complete = @ \cup {o[2]},
                                    ![c].wake = @ \cup {1, ready}]
        /\ out' = [out EXCEPT ![c] = @ \ {o}]
    BY DEF AnswerData
<1>2. PICK s, k, e, ready : /\ s = core[c] /\ k = o[2] /\ e = s.rob[k]
                            /\ ready = 1 + IF e.branch_miss THEN branch_miss_penalty ELSE 0
    OBVIOUS
<1>3. /\ s \in CoreState /\ Buffer(s) /\ Fetched(c, s) /\ Asked(s, out[c]) /\ Paced(c, s, returned)
      /\ out[c] \subseteq Request /\ core \in [Core -> CoreState]
    BY <1>2, OfCore DEF CoresInv
<1>4. returned' = returned /\ shared' = shared /\ reached' = reached
    BY DEF AnswerData
<1>5. k \in InRob(s) /\ e.state = "executing"
    BY <1>1, <1>2, <1>3 DEF Asked
<1>6. PICK i \in Positions(s) : k = At(s, i)
    BY <1>3, <1>5, Places
<1>7. /\ k \in Index /\ e \in Entry /\ e = E(s, i) /\ s.rob \in [Index -> Entry]
      /\ s.complete \subseteq Index /\ s.wake \subseteq Nat
    BY <1>2, <1>3, <1>6, Places, CoreFields DEF E
<1>8. ready \in Nat /\ ready > 0
    BY <1>2, Sizes
<1>9. PICK e1, f : e1 = [e EXCEPT !.state = "completed"] /\ f = [e1 EXCEPT !.ready = ready]
    OBVIOUS
<1>10. /\ f \in Entry /\ SameEntry(e, f) /\ f.after = e.after /\ f.instr_dep = e.instr_dep
       /\ f.state = "completed" /\ f.ready = ready
    BY <1>7, <1>8, <1>9 DEF Entry, SameEntry
<1>11. PICK t1, t2, t3, t : /\ t1 = [s EXCEPT !.rob = [s.rob EXCEPT ![k] = e1]]
                            /\ t2 = [t1 EXCEPT !.rob = [t1.rob EXCEPT ![k] = f]]
                            /\ t3 = [t2 EXCEPT !.complete = s.complete \cup {k}]
                            /\ t = [t3 EXCEPT !.wake = s.wake \cup {1, ready}]
    OBVIOUS
<1>12. /\ t1.rob = [s.rob EXCEPT ![k] = e1] /\ t1.rob[k] = e1
       /\ t2 = [s EXCEPT !.rob = [s.rob EXCEPT ![k] = f]]
       /\ t = [s EXCEPT !.rob = [s.rob EXCEPT ![k] = f], !.complete = s.complete \cup {k},
                        !.wake = s.wake \cup {1, ready}]
    BY <1>3, <1>7, <1>11 DEF CoreState
<1>13. core' = [core EXCEPT ![c] = t]
    <2>1. PICK a1, a2, a3, a4 : /\ a1 = [core EXCEPT ![c].rob[k].state = "completed"]
                                /\ a2 = [a1 EXCEPT ![c].rob[k].ready = ready]
                                /\ a3 = [a2 EXCEPT ![c].complete = s.complete \cup {k}]
                                /\ a4 = [a3 EXCEPT ![c].wake = s.wake \cup {1, ready}]
        OBVIOUS
    <2>2. core' = a4
        BY <1>1, <1>2, <2>1
    <2>3. a1 = [core EXCEPT ![c] = t1] /\ a1[c] = t1
        BY <1>2, <1>3, <1>9, <1>11, <2>1
    <2>4. a2 = [core EXCEPT ![c] = t2] /\ a2[c] = t2
        BY <1>3, <1>9, <1>11, <1>12, <2>1, <2>3
    <2>5. a3 = [core EXCEPT ![c] = t3] /\ a3[c] = t3
        BY <1>3, <1>11, <2>1, <2>4
    <2>6. a4 = [core EXCEPT ![c] = t]
        BY <1>3, <1>11, <2>1, <2>5
    <2> QED BY <2>2, <2>6
<1>14. /\ t \in CoreState /\ t.rob = [s.rob EXCEPT ![k] = f] /\ t.complete = s.complete \cup {k}
       /\ SameShape(s, t) /\ t.queue = s.queue /\ t.active = s.active /\ t.next = s.next
    <2>1. [s.rob EXCEPT ![k] = f] \in [Index -> Entry] /\ s.complete \cup {k} \subseteq Index
          /\ s.wake \cup {1, ready} \subseteq Nat
        BY <1>7, <1>8, <1>10
    <2> QED BY <1>3, <1>12, <2>1 DEF CoreState, SameShape
<1>15. t.rob[k] = f /\ \A j \in Index : j # k => t.rob[j] = s.rob[j]
    BY <1>7, <1>14
<1>16. Buffer(t)
    <2>1. Begun(s, t, i)
        BY <1>2, <1>6, <1>8, <1>10, <1>14, <1>15 DEF Begun
    <2> QED BY <1>3, <1>5, <1>7, <1>14, <2>1, BegunKeeps
<1>17. Fetched(c, t)
    <2>1. Positions(t) = Positions(s) /\ \A j : E(t, j) = t.rob[At(s, j)]
        BY <1>3, <1>14, SamePlaces
    <2>2. ASSUME NEW j \in Positions(s) PROVE E(t, j).id = E(s, j).id
        <3>1. At(s, j) \in Index
            BY <1>3, Places
        <3> QED BY <1>2, <1>10, <1>15, <2>1, <3>1 DEF SameEntry, E
    <2> QED BY <1>3, <1>14, <2>1, <2>2, FetchedBefore
<1>18. Asked(t, out[c] \ {o})
    <2> SUFFICES ASSUME NEW x \in out[c] \ {o}, x[1] = "data"
                 PROVE  x[2] \in InRob(t) /\ t.rob[x[2]].state = "executing"
        BY DEF Asked
    <2>1. x[2] \in InRob(s) /\ s.rob[x[2]].state = "executing"
        BY <1>3 DEF Asked
    <2>2. x[2] # k
        <3>1. x = <<"data", x[2]>> /\ o = <<"data", o[2]>>
            BY <1>1, <1>3 DEF Request
        <3> QED BY <1>2, <3>1
    <2>3. x[2] \in Index
        BY <1>3, <2>1, Places
    <2> QED BY <1>3, <1>14, <1>15, <2>1, <2>2, <2>3, SamePlaces
<1>19. Good(c, t, out[c] \ {o}, returned')
    <2>1. Paced(c, t, returned')
        BY <1>3, <1>4, <1>14 DEF Paced
    <2> QED BY <1>14, <1>16, <1>17, <1>18, <2>1 DEF Good
<1>20. out' = [out EXCEPT ![c] = out[c] \ {o}] /\ out[c] \ {o} \subseteq Request
    BY <1>1, <1>3
<1> QED BY <1>4, <1>13, <1>19, <1>20, OneCore DEF CoresInv

\* Time passes for a core.
Ticked(s, t) ==
    t = [s EXCEPT !.wake = {x - 1 : x \in @},
                  !.queue = [i \in DOMAIN @ |-> Earlier(@[i])],
                  !.rob = [k \in Index |-> Earlier(@[k])]]

LEMMA TickedGood ==
    ASSUME NEW c \in Core, NEW s, NEW o, NEW r, Good(c, s, o, r), 0 \notin s.wake,
           NEW t, Ticked(s, t)
    PROVE  Good(c, t, o, r)
<1>1. s \in CoreState /\ Buffer(s) /\ Fetched(c, s) /\ Asked(s, o) /\ Paced(c, s, r)
    BY DEF Good
<1>2. PICK q, p, b, w : /\ q = s.queue /\ p = [i \in DOMAIN q |-> Earlier(q[i])]
                        /\ b = [k \in Index |-> Earlier(s.rob[k])]
                        /\ w = {x - 1 : x \in s.wake}
    OBVIOUS
<1>3. /\ q \in Seq(Queued) /\ DOMAIN q = 1..Len(q) /\ \A i \in DOMAIN q : q[i] \in Queued
      /\ s.rob \in [Index -> Entry] /\ s.wake \subseteq Nat
    BY <1>1, <1>2, CoreFields, LenProperties, ElementOfSeq
<1>4. /\ \A e \in Entry : /\ Earlier(e) \in Entry /\ Earlier(e).state = e.state
                           /\ Earlier(e).id = e.id
      /\ \A e \in Queued : Earlier(e) \in Queued /\ Earlier(e).pc = e.pc
    BY DEF Earlier, Entry, Queued
<1>5. p \in Seq(Queued) /\ Len(p) = Len(q) /\ \A i \in 1..Len(q) : p[i].pc = q[i].pc
    <2>1. \A i \in DOMAIN q : p[i] \in Queued /\ p[i].pc = q[i].pc
        BY <1>2, <1>3, <1>4
    <2>2. p \in [DOMAIN q -> Queued]
        BY <1>2, <2>1
    <2> QED BY <1>3, <2>1, <2>2, Replaced
<1>6. b \in [Index -> Entry] /\ \A k \in Index : b[k] = Earlier(s.rob[k])
    <2>1. \A k \in Index : s.rob[k] \in Entry
        BY <1>3
    <2>2. \A k \in Index : Earlier(s.rob[k]) \in Entry
        BY <1>4, <2>1
    <2> QED BY <1>2, <2>2
<1>7. w \subseteq Nat
    BY <1>2, <1>3
<1>8. t = [s EXCEPT !.wake = w, !.queue = p, !.rob = b]
    BY <1>2 DEF Ticked
<1>9. /\ t \in CoreState /\ t.queue = p /\ t.rob = b /\ t.head = s.head /\ t.size = s.size
      /\ t.complete = s.complete /\ t.active = s.active /\ t.next = s.next
    <2> HIDE DEF Queued
    <2> QED BY <1>1, <1>5, <1>6, <1>7, <1>8 DEF CoreState
<1>10. SameShape(s, t) /\ Aged(s, t)
    BY <1>6, <1>9 DEF SameShape, Aged
<1>11. Buffer(t)
    BY <1>1, <1>9, <1>10, AgedKeeps
<1>12. /\ Positions(t) = Positions(s) /\ InRob(t) = InRob(s) /\ \A j : E(t, j) = t.rob[At(s, j)]
    BY <1>1, <1>9, <1>10, SamePlaces
<1>13. \A k \in InRob(s) : k \in Index /\ t.rob[k].state = s.rob[k].state /\ t.rob[k].id = s.rob[k].id
    <2>1. \A k \in InRob(s) : k \in Index
        BY <1>1, Places
    <2>2. \A k \in Index : s.rob[k] \in Entry
        BY <1>3
    <2> QED BY <1>4, <1>6, <1>9, <2>1, <2>2
<1>14. Fetched(c, t)
    <2>1. \A i \in Positions(t) : E(t, i).id = E(s, i).id
        <3>1. \A i \in Positions(s) : At(s, i) \in InRob(s)
            BY <1>1, Places
        <3> QED BY <1>12, <1>13, <3>1 DEF E
    <2>2. /\ t.next \in 1..Len(Program[c])+1 /\ Len(t.queue) <= o3queue_max_size
          /\ Len(t.queue) < t.next
          /\ \A k \in 1..Len(t.queue) : t.queue[k].pc = t.next - 1 - Len(t.queue) + k
        <3>1. /\ t.next = s.next /\ Len(t.queue) = Len(s.queue)
              /\ \A k \in 1..Len(s.queue) : t.queue[k].pc = s.queue[k].pc
            BY <1>2, <1>5, <1>9
        <3>2. /\ s.next \in 1..Len(Program[c])+1 /\ Len(s.queue) <= o3queue_max_size
              /\ Len(s.queue) < s.next
              /\ \A k \in 1..Len(s.queue) : s.queue[k].pc = s.next - 1 - Len(s.queue) + k
            BY <1>1 DEF Fetched
        <3> QED BY <3>1, <3>2
    <2>3. \A i \in Positions(t) : E(t, i).id[1] < t.next - Len(t.queue)
        <3>1. \A i \in Positions(s) : E(s, i).id[1] < s.next - Len(s.queue)
            BY <1>1 DEF Fetched
        <3> QED BY <1>2, <1>5, <1>9, <1>12, <2>1, <3>1
    <2> QED BY <2>2, <2>3 DEF Fetched
<1>15. Asked(t, o)
    BY <1>1, <1>12, <1>13 DEF Asked
<1>16. Paced(c, t, r)
    BY <1>1, <1>2, <1>5, <1>9 DEF Paced
<1> QED BY <1>9, <1>11, <1>14, <1>15, <1>16 DEF Good

LEMMA TickGood ==
    ASSUME CoresInv, Tick PROVE CoresInv'
<1>1. /\ out' = out /\ shared' = shared /\ returned' = returned /\ reached' = reached
      /\ \A c \in Core : 0 \notin core[c].wake
      /\ DOMAIN core' = Core
    BY DEF Tick
<1>2. ASSUME NEW c \in Core PROVE Good(c, core'[c], out'[c], returned')
    <2>1. Ticked(core[c], core'[c])
        BY DEF Tick, Ticked
    <2> QED BY <1>1, <2>1, OfCore, TickedGood
<1>3. core' \in [Core -> CoreState]
    <2>1. \A c \in Core : core'[c] \in CoreState
        BY <1>2 DEF Good
    <2>2. core' = [c \in Core |-> core'[c]]
        BY DEF Tick
    <2> QED BY <2>1, <2>2
<1> QED BY <1>1, <1>2, <1>3 DEF CoresInv

\* Nothing has been fetched, and nobody has come to a barrier.
LEMMA CoresBegin == Init => CoresInv
<1> SUFFICES ASSUME Init PROVE CoresInv
    OBVIOUS
<1>1. /\ returned = First /\ First \in Core
      /\ shared = [wait_all |-> [p \in Site |-> 0], notify_all |-> {}, migrate |-> {}]
      /\ out = [c \in Core |-> {}] /\ reached = [c \in Core |-> <<0, 0>>]
    BY CoreAssumption DEF Init
<1>2. ASSUME NEW c \in Core
      PROVE  core[c] = [queue |-> <<>>, rob |-> [k \in Index |-> NoEntry], head |-> 0, size |-> 0,
                        complete |-> {}, wake |-> {}, active |-> c = First, next |-> 1]
    BY DEF Init
<1>3. ASSUME NEW c \in Core PROVE Good(c, core[c], out[c], returned)
    <2>1. PICK s, first : s = core[c] /\ first = (c = First) /\ first \in BOOLEAN
        OBVIOUS
    <2>2. s = [queue |-> <<>>, rob |-> [k \in Index |-> NoEntry], head |-> 0, size |-> 0,
               complete |-> {}, wake |-> {}, active |-> first, next |-> 1]
        BY <1>2, <2>1
    <2>3. s \in CoreState
        <3>1. 0 \in Index /\ 0 \in 0..o3rob_max_size-1
            BY Sizes DEF Index
        <3>2. [k \in Index |-> NoEntry] \in [Index -> Entry]
            BY EmptyEntry
        <3>3. <<>> \in Seq(Queued)
            BY EmptySeq
        <3> HIDE DEF Queued
        <3> QED BY <2>1, <2>2, <3>1, <3>2, <3>3 DEF CoreState
    <2>4. Positions(s) = {} /\ InRob(s) = {}
        BY <2>2 DEF Positions, InRob
    <2>5. Buffer(s)
        BY <2>2, <2>4 DEF Buffer, Ordered, Recorded, Decoded, Older, Told, Chained, Covered, Flows
    <2>6. Len(s.queue) = 0 /\ Len(Program[c]) \in Nat
        <3>1. Program[c] \in Seq(Instruction)
            BY CoreAssumption
        <3> QED BY <2>2, <3>1, LenProperties
    <2>7. Fetched(c, s)
        <3>1. s.next = 1 /\ s.next \in 1..Len(Program[c])+1 /\ Len(s.queue) = 0
              /\ 0 <= o3queue_max_size
            BY <2>2, <2>6, Sizes
        <3>2. \A k \in 1..Len(s.queue) : FALSE
            BY <3>1
        <3> QED BY <2>4, <3>1, <3>2 DEF Fetched
    <2>8. Asked(s, out[c])
        BY <1>1 DEF Asked
    <2>9. Paced(c, s, returned)
        <3>1. 0 <= o3queue_max_size \div 2 /\ 0 < o3queue_max_size
            BY Sizes
        <3>2. c = First => s.active
            <4>1. s.active = first
                BY <2>2
            <4> QED BY <2>1, <4>1, Zenon
        <3> QED BY <1>1, <2>6, <3>1, <3>2 DEF Paced
    <2> QED BY <2>1, <2>3, <2>5, <2>7, <2>8, <2>9 DEF Good
<1>4. ASSUME NEW site, MeetAt(site) PROVE Met(site, shared, reached)
    <2>1. Came(0, reached) = {}
        BY <1>1 DEF Came
    <2>2. Cardinality(Came(0, reached)) = 0
        BY <2>1, FS_EmptySet
    <2>3. 0 < Cardinality(Core)
        <3>1. Cardinality(Core) # 0
            BY <1>1, CoreAssumption, FS_EmptySet
        <3> QED BY <3>1, Cores
    <2>4. shared.wait_all[site] = 0 /\ shared.notify_all = {} /\ \A d \in Core : reached[d] = <<0, 0>>
        BY <1>1, <1>4 DEF MeetAt
    <2> QED BY <2>2, <2>3, <2>4 DEF Met
<1>5. core \in [Core -> CoreState]
    <2>1. \A c \in Core : core[c] \in CoreState
        BY <1>3 DEF Good
    <2>2. core = [c \in Core |-> core[c]]
        BY DEF Init
    <2> QED BY <2>1, <2>2
<1>6. shared \in Shared
    BY <1>1 DEF Shared
<1> QED BY <1>1, <1>3, <1>4, <1>5, <1>6 DEF CoresInv

LEMMA CoresStep == CoresInv /\ [Next]_vars => CoresInv'
<1> SUFFICES ASSUME CoresInv, [Next]_vars PROVE CoresInv'
    OBVIOUS
<1>1. CASE Tick
    BY <1>1, TickGood
<1>2. CASE UNCHANGED vars
    BY <1>2 DEF CoresInv, vars
<1>3. CASE Rest
    BY <1>2, <1>3 DEF Rest
<1>4. ASSUME NEW c \in Core,
             \/ Fetch(c) \/ Run(c) \/ Feed(c) \/ Unblock(c)
             \/ AnswerLine(c) \/ AnswerData(c) \/ AnswerPrefetch(c)
      PROVE  CoresInv'
    BY <1>4, FetchGood, RunGood, FeedGood, UnblockGood, AnswerLineGood, AnswerDataGood,
       AnswerPrefetchGood
<1> QED BY <1>1, <1>2, <1>3, <1>4 DEF Next
---------------------------------------------------------------------------------------
(* Theorems *)

\* Whatever the programs, the widths and the latencies are, the cores keep the invariant:
\* among others it gives the type of the state.
THEOREM CoresInvariant == Spec => []CoresInv
BY CoresBegin, CoresStep, PTL DEF Spec

\* No instruction is dropped on its way from the front end into the queue, although a thread
\* is told once how many it may fetch, and others add to its queue (McSim::add_instruction).
THEOREM NothingIsDropped == Spec => []NothingDropped
<1>1. CoresInv => NothingDropped
    <2> SUFFICES ASSUME CoresInv, NEW c \in Core, core[c].queue # <<>>
                 PROVE  LET q == core[c].queue IN
                        /\ q[Len(q)].pc = core[c].next - 1
                        /\ \A i \in 1..Len(q)-1 : q[i+1].pc = q[i].pc + 1
        BY DEF NothingDropped
    <2>1. PICK q, m, x : q = core[c].queue /\ m = Len(q) /\ x = core[c].next
        OBVIOUS
    <2>2. /\ q \in Seq(Queued) /\ m \in Nat /\ x \in Nat
          /\ \A k \in 1..m : q[k].pc = x - 1 - m + k
        BY <2>1, OfCore DEF Fetched
    <2>3. m # 0
        BY <2>1, <2>2, EmptySeq
    <2>4. q[m].pc = x - 1
        BY <2>2, <2>3
    <2>5. ASSUME NEW i \in 1..m-1 PROVE q[i+1].pc = q[i].pc + 1
        <3>1. i \in 1..m /\ i + 1 \in 1..m
            BY <2>2
        <3>2. q[i].pc = x - 1 - m + i /\ q[i+1].pc = x - 1 - m + (i + 1)
            BY <2>2, <3>1
        <3> QED BY <2>2, <3>2
    <2> QED BY <2>1, <2>4, <2>5
<1> QED BY <1>1, CoresInvariant, PTL

\* An entry waits only for older ones that are still in the buffer, and that have yet to be
\* told of, however often the indices of the ring were used (O3ROB).
THEOREM WaitsForOlderOnes == Spec => []WaitsForOlder
<1>1. CoresInv => WaitsForOlder
    <2> SUFFICES ASSUME CoresInv, NEW c \in Core,
                        NEW i \in Positions(core[c]),
                        NEW d \in (E(core[c], i).after \cup {E(core[c], i).instr_dep}) \ {None}
                 PROVE  /\ \E j \in 0..i-1 : At(core[c], j) = d
                        /\ core[c].rob[d].state = "completed" => d \in core[c].complete
        BY DEF WaitsForOlder, E
    <2>1. Older(core[c])
        BY OfCore DEF Buffer
    <2> QED BY <2>1 DEF Older
<1> QED BY <1>1, CoresInvariant, PTL

\* No entry is started before all it needs is done, whichever answer comes first
\* (PTSO3Core.cc:674-706).
THEOREM DataFlows == Spec => []DataFlow
<1>1. CoresInv => DataFlow
    <2> SUFFICES ASSUME CoresInv, NEW c \in Core,
                        NEW k \in InRob(core[c]), core[c].rob[k].state # "issued",
                        NEW j \in InRob(core[c]), core[c].rob[j].id \in core[c].rob[k].needs
                 PROVE  Done(core[c].rob[j])
        BY DEF DataFlow
    <2>1. core[c] \in CoreState /\ Flows(core[c])
        BY OfCore DEF Buffer
    <2>2. PICK m \in Positions(core[c]), n \in Positions(core[c]) : k = At(core[c], m) /\ j = At(core[c], n)
        BY <2>1, Places
    <2> QED BY <2>1, <2>2 DEF Flows, E
<1> QED BY <1>1, CoresInvariant, PTL

\* Where all cores meet at one barrier, again and again, nobody goes through it before all
\* have come, however soon a core comes to it again (PTSO3Core.cc:533-582).
THEOREM BarriersHoldAt == ASSUME NEW site, MeetAt(site) PROVE Spec => []BarriersHold
<1>1. CoresInv => BarriersHold
    <2> SUFFICES ASSUME CoresInv, NEW c \in Core, NEW d \in Core PROVE reached[c][2] <= reached[d][1]
        BY DEF BarriersHold
    <2>1. PICK k \in Nat : \A e \in Core : reached[e] \in {<<k, k>>, <<k, k - 1>>, <<k + 1, k>>}
        BY DEF CoresInv, Met
    <2>2. reached[c][2] \in {k, k - 1} /\ reached[d][1] \in {k, k + 1}
        BY <2>1
    <2> QED BY <2>2
<1> QED BY <1>1, CoresInvariant, PTL
=========================================================================================
