-------------------------------- MODULE GrapheneProofs --------------------------------
(* Proofs about Graphene for every table size, threshold, set of rows and refresh       *)
(* schedule.  The argument is one inductive invariant, Graphene!IInv: the table is      *)
(* sorted, so the entry a new row takes over is the smallest, so no counter undercounts. *)
EXTENDS Graphene, Integers, FiniteSetTheorems, TLAPS

-----------------------------------------------------------------------------------------
(* Counting modulo the threshold *)

\* The division of a by a positive T leaves a remainder.
LEMMA DivMod ==
    ASSUME NEW a \in Nat, NEW T \in Nat, T > 0
    PROVE  a = (T * (a \div T)) + (a % T)
OBVIOUS

\* A multiple of T strictly between -T and T is zero.
LEMMA SmallMultiple ==
    ASSUME NEW T \in Nat, T > 0, NEW k \in Int, T * k < T, T * k > 0 - T
    PROVE  k = 0
<1>1. CASE k >= 1
  <2>1. T * k >= T * 1  BY <1>1
  <2> QED  BY <2>1
<1>2. CASE k <= -1
  <2>1. T * k <= T * (-1)  BY <1>2
  <2> QED  BY <2>1
<1> QED  BY <1>1, <1>2

\* A remainder that does not wrap to zero grows by one.
LEMMA NextMod ==
    ASSUME NEW a \in Nat, NEW T \in Nat, T > 0, (a + 1) % T # 0
    PROVE  (a + 1) % T = (a % T) + 1
<1> DEFINE q == a \div T
           p == (a + 1) \div T
<1>1. q \in Int /\ p \in Int
  OBVIOUS
<1>2. a = (T * q) + (a % T)
  OBVIOUS
<1>3. a + 1 = (T * p) + ((a + 1) % T)
  BY DivMod
<1>4. a % T \in 0..T-1 /\ (a + 1) % T \in 0..T-1
  OBVIOUS
<1> HIDE DEF q, p
<1>5. T * (p - q) = (T * p) - (T * q)
  BY <1>1
<1>6. T * (p - q) = 1 + (a % T) - ((a + 1) % T)
  BY <1>1, <1>2, <1>3, <1>4, <1>5
<1>7. T * (p - q) < T /\ T * (p - q) > 0 - T
  BY <1>4, <1>6
<1>8. p - q = 0
  BY <1>1, <1>7, SmallMultiple
<1>9. T * (p - q) = 0
  BY <1>8
<1> QED  BY <1>4, <1>6, <1>9

\* A count below the threshold is its own remainder.
LEMMA SmallMod ==
    ASSUME NEW a \in Nat, NEW T \in Nat, a < T
    PROVE  a % T = a
OBVIOUS

-----------------------------------------------------------------------------------------
(* One activation seen by the table: entry d counts the row r and moves up to p *)

LEMMA MoveTable ==
    ASSUME TypeOK, NEW r \in Row, NEW d \in Index, NEW p \in Index,
           StopsAt(Counted(r, d), d, p),
           entries' = MovedUp(Counted(r, d), d, p)
    PROVE  /\ p <= d
           /\ entries' \in [Index -> Entry]
           /\ entries'[p] = [address |-> r, count |-> entries[d].count + 1]
           /\ \A i \in p+1..d : i - 1 \in Index /\ entries'[i] = entries[i-1]
           /\ \A i \in Index : i \notin p..d => entries'[i] = entries[i]
           /\ \A i \in p..d-1 : entries[i].count < entries[d].count + 1
           /\ p > 1 => p - 1 \in Index /\ entries[d].count + 1 <= entries[p-1].count
<1>1. size \in Nat \ {0}
  BY GrapheneAssumption
<1>2. p \in 1..d /\ p <= d /\ d <= size
  BY <1>1 DEF StopsAt, Index
<1>3. Counted(r, d) \in [Index -> Entry]
  BY DEF Counted, TypeOK, Entry
<1>4. Counted(r, d)[d] = [address |-> r, count |-> entries[d].count + 1]
  BY DEF Counted, TypeOK
<1>5. \A i \in Index : i # d => Counted(r, d)[i] = entries[i]
  BY DEF Counted, TypeOK
<1>6. \A i \in p+1..d : i - 1 \in Index /\ i - 1 # d /\ i \in Index /\ i # p
  BY <1>1, <1>2 DEF Index
<1>7. \A i \in p..d-1 : i \in Index /\ i # d
  BY <1>1, <1>2 DEF Index
<1>8. \A i \in Index : entries'[i] = IF i = p THEN Counted(r, d)[d]
                                     ELSE IF i \in p+1..d THEN Counted(r, d)[i-1]
                                     ELSE Counted(r, d)[i]
  BY DEF MovedUp
<1>9. entries' \in [Index -> Entry]
  BY <1>3, <1>6 DEF MovedUp
<1>10. entries'[p] = [address |-> r, count |-> entries[d].count + 1]
  BY <1>4, <1>8
<1>11. \A i \in p+1..d : entries'[i] = entries[i-1]
  BY <1>5, <1>6, <1>8
<1>12. \A i \in Index : i \notin p..d => entries'[i] = entries[i]
  BY <1>1, <1>2, <1>5, <1>8 DEF Index
<1>13. \A i \in p..d-1 : entries[i].count < entries[d].count + 1
  BY <1>4, <1>5, <1>7 DEF StopsAt
<1>14. p > 1 => p - 1 \in Index /\ p - 1 # d
  BY <1>1, <1>2 DEF Index
<1>15. p > 1 => entries[d].count + 1 <= entries[p-1].count
  BY <1>4, <1>5, <1>14 DEF StopsAt
<1> QED  BY <1>2, <1>6, <1>9, <1>10, <1>11, <1>12, <1>13, <1>14, <1>15

(* Every entry but the counted one survives, in one place; From(i) is where the entry *)
(* now at i was before.                                                               *)
From(p, d, i) == IF i \in p+1..d THEN i - 1 ELSE i

LEMMA KeptEntries ==
    ASSUME TypeOK, NEW r \in Row, NEW d \in Index, NEW p \in Index,
           StopsAt(Counted(r, d), d, p),
           entries' = MovedUp(Counted(r, d), d, p)
    PROVE  /\ \A i \in Index \ {p} : /\ From(p, d, i) \in Index \ {d}
                                     /\ entries'[i] = entries[From(p, d, i)]
           /\ \A i, j \in Index \ {p} : i # j => From(p, d, i) # From(p, d, j)
           /\ \A j \in Index \ {d} :
                  \E i \in Index \ {p} : entries'[i] = entries[j]
<1>1. size \in Nat \ {0}
  BY GrapheneAssumption
<1>2. /\ p <= d
      /\ \A i \in p+1..d : i - 1 \in Index /\ entries'[i] = entries[i-1]
      /\ \A i \in Index : i \notin p..d => entries'[i] = entries[i]
  BY MoveTable, ZenonT(60)
<1>3. p \in 1..size /\ d \in 1..size
  BY DEF Index
<1>4. ASSUME NEW i \in Index \ {p}
      PROVE  From(p, d, i) \in Index \ {d} /\ entries'[i] = entries[From(p, d, i)]
  <2>1. CASE i \in p+1..d
    BY <1>1, <1>2, <1>3, <2>1 DEF From, Index
  <2>2. CASE i \notin p+1..d
    <3>1. i \notin p..d
      BY <1>1, <1>2, <1>3, <2>2 DEF Index
    <3> QED  BY <1>1, <1>2, <1>3, <2>2, <3>1 DEF From, Index
  <2> QED  BY <2>1, <2>2
<1>5. \A i, j \in Index \ {p} : i # j => From(p, d, i) # From(p, d, j)
  BY <1>1, <1>2, <1>3 DEF From, Index
<1>6. ASSUME NEW j \in Index \ {d}
      PROVE  \E i \in Index \ {p} : entries'[i] = entries[j]
  <2>1. CASE j \in p..d-1
    <3>1. j + 1 \in p+1..d /\ j + 1 \in Index \ {p} /\ (j + 1) - 1 = j
      BY <1>1, <1>2, <1>3, <2>1 DEF Index
    <3>2. entries'[j+1] = entries[j]
      BY <1>2, <3>1
    <3> QED  BY <3>1, <3>2
  <2>2. CASE j \notin p..d-1
    <3>1. j \notin p..d /\ j # p
      BY <1>1, <1>2, <1>3, <2>2 DEF Index
    <3> QED  BY <1>2, <3>1
  <2> QED  BY <2>1, <2>2
<1> QED  BY <1>4, <1>5, <1>6

\* Counting keeps the table sorted and never lowers the smallest count.
LEMMA SortedStep ==
    ASSUME TypeOK, Sorted, NEW r \in Row, NEW d \in Index, NEW p \in Index,
           StopsAt(Counted(r, d), d, p),
           entries' = MovedUp(Counted(r, d), d, p)
    PROVE  Sorted' /\ Smallest <= Smallest'
<1>1. size \in Nat \ {0} /\ size \in Index
  BY GrapheneAssumption DEF Index
<1>2. /\ p <= d
      /\ entries' \in [Index -> Entry]
      /\ entries'[p] = [address |-> r, count |-> entries[d].count + 1]
      /\ \A i \in p+1..d : i - 1 \in Index /\ entries'[i] = entries[i-1]
      /\ \A i \in Index : i \notin p..d => entries'[i] = entries[i]
      /\ \A i \in p..d-1 : entries[i].count < entries[d].count + 1
      /\ p > 1 => p - 1 \in Index /\ entries[d].count + 1 <= entries[p-1].count
  BY MoveTable
<1>3. p \in 1..size /\ d \in 1..size
  BY DEF Index
<1>4. \A i \in Index : entries[i].count \in Nat /\ entries'[i].count \in Nat
  BY <1>2 DEF TypeOK, Entry
<1>5. ASSUME NEW i \in Index, NEW j \in Index, i < j
      PROVE  entries'[i].count >= entries'[j].count
  <2>1. CASE i = p
    <3>1. CASE j \in p+1..d
      <4>1. j - 1 \in p..d-1
        BY <1>3, <3>1 DEF Index
      <4> QED  BY <1>2, <1>4, <2>1, <3>1, <4>1
    <3>2. CASE j \notin p+1..d
      <4>1. j \notin p..d /\ d <= j
        BY <1>1, <1>2, <1>3, <1>5, <2>1, <3>2 DEF Index
      <4>2. entries'[j] = entries[j] /\ entries[d].count >= entries[j].count
        BY <1>2, <4>1 DEF Sorted
      <4> QED  BY <1>2, <1>4, <2>1, <4>2
    <3> QED  BY <3>1, <3>2
  <2>2. CASE j = p
    <3>1. i \notin p..d /\ p > 1 /\ i <= p - 1 /\ p - 1 \in Index
      BY <1>1, <1>2, <1>3, <1>5, <2>2 DEF Index
    <3>2. entries'[i] = entries[i] /\ entries[i].count >= entries[p-1].count
      BY <1>2, <3>1 DEF Sorted
    <3> QED  BY <1>2, <1>4, <2>2, <3>1, <3>2
  <2>3. CASE i # p /\ j # p
    <3>1. From(p, d, i) <= From(p, d, j)
      BY <1>1, <1>3, <1>5, <2>3 DEF From, Index
    <3>2. /\ From(p, d, i) \in Index /\ entries'[i] = entries[From(p, d, i)]
          /\ From(p, d, j) \in Index /\ entries'[j] = entries[From(p, d, j)]
      BY <2>3, KeptEntries
    <3> QED  BY <3>1, <3>2 DEF Sorted
  <2> QED  BY <2>1, <2>2, <2>3
<1>6. Sorted'
  BY <1>4, <1>5 DEF Sorted, Index
<1>7. Smallest <= Smallest'
  <2>1. CASE size = p
    <3>1. d = size
      BY <1>1, <1>2, <1>3, <2>1
    <3> QED  BY <1>1, <1>2, <1>4, <2>1, <3>1 DEF Smallest
  <2>2. CASE size # p
    <3>1. From(p, d, size) \in Index /\ entries'[size] = entries[From(p, d, size)]
      BY <1>1, <2>2, KeptEntries
    <3>2. From(p, d, size) <= size
      BY <1>1, <1>3 DEF From, Index
    <3> QED  BY <1>1, <3>1, <3>2 DEF Sorted, Smallest
  <2> QED  BY <2>1, <2>2
<1> QED  BY <1>6, <1>7

(* Which rows the table tracks after an activation of r: r itself at p, every other    *)
(* row where it was before, except the one whose entry r took over.                    *)
LEMMA TrackedStep ==
    ASSUME TypeOK, NoDuplicate, NEW r \in Row, NEW d \in Index, NEW p \in Index,
           Slot(r, d), StopsAt(Counted(r, d), d, p),
           entries' = MovedUp(Counted(r, d), d, p)
    PROVE  /\ \A i \in Index \ {p} :
                  \E j \in Index : entries'[i] = entries[j] /\ entries[j].address # r
           /\ \A x \in Row : ~Tracked(x)' =>
                  /\ x # r
                  /\ ~Tracked(x) \/ (d = size /\ entries[size].address = x)
           /\ NoDuplicate'
<1>1. entries'[p].address = r
  <2>1. entries'[p] = [address |-> r, count |-> entries[d].count + 1]
    BY MoveTable
  <2> QED  BY <2>1
<1>2. \A j \in Index \ {d} : entries[j].address # r
  <2>1. CASE entries[d].address = r
    BY <2>1 DEF NoDuplicate
  <2>2. CASE ~Tracked(r)
    BY <2>2 DEF Tracked
  <2> QED  BY <2>1, <2>2 DEF Slot, Holds
<1>3. \A i \in Index \ {p} : /\ From(p, d, i) \in Index \ {d}
                             /\ entries'[i] = entries[From(p, d, i)]
  BY KeptEntries
<1>4. \A i, j \in Index \ {p} : i # j => From(p, d, i) # From(p, d, j)
  BY KeptEntries
<1>5. \A j \in Index \ {d} : \E i \in Index \ {p} : entries'[i] = entries[j]
  BY KeptEntries
<1>6. \A i \in Index \ {p} :
          \E j \in Index : entries'[i] = entries[j] /\ entries[j].address # r
  BY <1>2, <1>3
<1>7. ASSUME NEW x \in Row, ~Tracked(x)'
      PROVE  x # r /\ (~Tracked(x) \/ (d = size /\ entries[size].address = x))
  <2>1. x # r
    BY <1>1, <1>7 DEF Tracked
  <2>2. CASE Tracked(x)
    <3>1. PICK j \in Index : entries[j].address = x
      BY <2>2 DEF Tracked
    <3>2. j = d
      BY <1>5, <1>7, <3>1 DEF Tracked
    <3>3. d = size
      BY <2>1, <3>1, <3>2 DEF Slot, Holds
    <3> QED  BY <2>1, <3>1, <3>2, <3>3
  <2> QED  BY <2>1, <2>2
<1>8. NoDuplicate'
  <2>1. SUFFICES ASSUME NEW i \in Index, NEW j \in Index, i # j,
                        entries'[i].address \in Row
                 PROVE  entries'[i].address # entries'[j].address
    BY DEF NoDuplicate, Index
  <2>2. CASE i = p \/ j = p
    BY <1>1, <1>6, <2>1, <2>2
  <2>3. CASE i # p /\ j # p
    BY <1>3, <1>4, <2>1, <2>3 DEF NoDuplicate
  <2> QED  BY <2>2, <2>3
<1> QED  BY <1>6, <1>7, <1>8

-----------------------------------------------------------------------------------------
(* The inductive invariant *)

\* An empty table, at the start or after a flush, satisfies every part of the invariant.
LEMMA EmptyTable ==
    ASSUME NEW e, NEW a, NEW s,
           e = [i \in Index |-> EmptyEntry], a = [r \in Row |-> 0], s = a
    PROVE  /\ e \in [Index -> Entry] /\ a \in [Row -> Nat]
           /\ size \in Index /\ threshold \in Nat \ {0}
           /\ \A i \in Index : e[i].address \notin Row /\ e[i].count = 0
           /\ \A r \in Row : a[r] = 0 /\ s[r] = 0
BY GrapheneAssumption DEF Index, EmptyEntry, Entry

LEMMA InitInv == Init => IInv
<1> SUFFICES ASSUME Init PROVE IInv
  OBVIOUS
<1>1. /\ entries \in [Index -> Entry]
      /\ size \in Index /\ threshold \in Nat \ {0}
      /\ \A i \in Index : entries[i].address \notin Row /\ entries[i].count = 0
      /\ \A r \in Row : acts[r] = 0 /\ since[r] = 0
  BY EmptyTable DEF Init
<1>2. TypeOK
  BY <1>1, GrapheneAssumption DEF Init, TypeOK
<1>3. Sorted
  BY <1>1 DEF Sorted
<1>4. NoDuplicate /\ NeverUndercounts /\ SinceBound
  BY <1>1 DEF NoDuplicate, NeverUndercounts, SinceBound, Smallest
<1> QED  BY <1>2, <1>3, <1>4 DEF IInv

\* An auto-refresh either leaves the table alone or flushes it.
LEMMA AutoRefreshInv == ASSUME IInv, AutoRefresh PROVE IInv'
<1>1. group' \in 0..Groups-1 /\ hammer' \in [Row -> Nat]
  BY GrapheneAssumption DEF IInv, AutoRefresh, NextGroup, TypeOK
<1>2. CASE group' \in FlushTime
  <2>1. /\ entries' \in [Index -> Entry]
        /\ size \in Index /\ threshold \in Nat \ {0}
        /\ \A i \in Index : entries'[i].address \notin Row /\ entries'[i].count = 0
        /\ \A r \in Row : acts'[r] = 0 /\ since'[r] = 0
    BY <1>2, EmptyTable DEF AutoRefresh, Flush
  <2>2. TypeOK'
    BY <1>1, <1>2, <2>1 DEF AutoRefresh, Flush, TypeOK
  <2>3. Sorted'
    BY <2>1 DEF Sorted
  <2>4. (NoDuplicate /\ NeverUndercounts /\ SinceBound)'
    BY <2>1 DEF NoDuplicate, NeverUndercounts, SinceBound, Smallest
  <2> QED  BY <2>2, <2>3, <2>4 DEF IInv
<1>3. CASE group' \notin FlushTime
  <2>1. UNCHANGED <<entries, window, acts, since>>
    BY <1>3 DEF AutoRefresh
  <2> QED  BY <1>1, <2>1 DEF IInv, TypeOK, Sorted, NoDuplicate, NeverUndercounts,
                             SinceBound, Tracked, Smallest, Provisioned
<1> QED  BY <1>2, <1>3

\* An activation of r, counted by entry d, which moves up to p.
LEMMA ActivateInv == ASSUME IInv, NEW r \in Row, Activate(r) PROVE IInv'
<1>1. PICK d \in Index, p \in Index :
          /\ Slot(r, d)
          /\ StopsAt(Counted(r, d), d, p)
          /\ entries' = MovedUp(Counted(r, d), d, p)
          /\ IF Mitigates(entries', p)
                THEN since' = [since EXCEPT ![r] = 0] /\ hammer' = [hammer EXCEPT ![r] = 0]
                ELSE /\ since' = [since EXCEPT ![r] = @ + 1]
                     /\ hammer' = [hammer EXCEPT ![r] = @ + 1]
  BY DEF Activate
<1>2. /\ size \in Nat \ {0} /\ size \in Index /\ threshold \in Nat /\ threshold > 0
      /\ NoRow \notin Row
  BY GrapheneAssumption DEF Index
<1>3. TypeOK /\ Sorted /\ NoDuplicate /\ NeverUndercounts /\ SinceBound
  BY DEF IInv
<1>4. /\ entries' \in [Index -> Entry]
      /\ entries'[p] = [address |-> r, count |-> entries[d].count + 1]
  BY <1>1, <1>3, MoveTable
<1>5. Sorted' /\ Smallest <= Smallest'
  BY <1>1, <1>3, SortedStep
<1>6. /\ \A i \in Index \ {p} :
             \E j \in Index : entries'[i] = entries[j] /\ entries[j].address # r
      /\ \A x \in Row : ~Tracked(x)' =>
             x # r /\ (~Tracked(x) \/ (d = size /\ entries[size].address = x))
      /\ NoDuplicate'
  BY <1>1, <1>3, TrackedStep
<1>7. acts' = [acts EXCEPT ![r] = @ + 1] /\ window' = window + 1 /\ group' = group
  BY DEF Activate
<1>8. TypeOK'
  BY <1>1, <1>3, <1>4, <1>7 DEF TypeOK
<1>9. /\ \A i \in Index : entries[i].count \in Nat /\ entries'[i].count \in Nat
      /\ Smallest \in Nat /\ Smallest' \in Nat
      /\ \A x \in Row : /\ acts[x] \in Nat /\ acts'[x] \in Nat
                        /\ since[x] \in Nat /\ since'[x] \in Nat
  BY <1>2, <1>3, <1>8 DEF TypeOK, Entry, Smallest
<1>10. entries[d].address = r \/ (~Tracked(r) /\ entries[d].count = Smallest)
  BY <1>1 DEF Slot, Holds, Smallest
<1>11. NeverUndercounts'
  <2>1. acts'[r] = acts[r] + 1 /\ \A x \in Row \ {r} : acts'[x] = acts[x]
    BY <1>3, <1>7 DEF TypeOK
  <2>2. acts[r] <= entries[d].count
    BY <1>3, <1>10 DEF NeverUndercounts
  <2>3. ASSUME NEW i \in Index, entries'[i].address \in Row
        PROVE  acts'[entries'[i].address] <= entries'[i].count
    <3>1. CASE i = p
      BY <1>4, <1>9, <2>1, <2>2, <3>1
    <3>2. CASE i # p
      BY <1>3, <1>6, <2>1, <2>3, <3>2 DEF NeverUndercounts
    <3> QED  BY <3>1, <3>2
  <2>4. ASSUME NEW x \in Row, ~Tracked(x)'
        PROVE  acts'[x] <= Smallest'
    <3>1. x # r /\ acts[x] <= Smallest
      BY <1>2, <1>3, <1>6, <2>4 DEF NeverUndercounts, Smallest
    <3> QED  BY <1>5, <1>9, <2>1, <3>1
  <2> QED  BY <2>3, <2>4 DEF NeverUndercounts
<1>12. SinceBound'
  <2>1. SUFFICES ASSUME Provisioned'
                 PROVE  /\ \A i \in Index : entries'[i].address \in Row =>
                               since'[entries'[i].address] <= entries'[i].count % threshold
                        /\ \A x \in Row : ~Tracked(x)' => since'[x] <= Smallest'
    BY DEF SinceBound
  <2>2. Provisioned /\ Smallest % threshold = Smallest
    <3>1. Smallest < threshold
      BY <1>2, <1>5, <1>9, <2>1 DEF Provisioned
    <3>2. Smallest \in Nat /\ threshold \in Nat
      BY <1>2, <1>9
    <3> QED  BY <3>1, <3>2, SmallMod DEF Provisioned
  <2>3. \A x \in Row \ {r} : since'[x] = since[x]
    BY <1>1, <1>3 DEF TypeOK
  <2>4. since[r] <= entries[d].count % threshold
    BY <1>3, <1>10, <2>2 DEF SinceBound
  <2>5. since'[r] <= entries'[p].count % threshold
    <3>1. CASE Mitigates(entries', p)
      BY <1>1, <1>2, <1>3, <1>4, <1>9, <3>1 DEF Mitigates, TypeOK
    <3>2. CASE ~Mitigates(entries', p)
      <4>1. since'[r] = since[r] + 1
        BY <1>1, <1>3, <3>2 DEF TypeOK
      <4>2. (entries[d].count + 1) % threshold = (entries[d].count % threshold) + 1
        <5>1. entries[d].count \in Nat /\ (entries[d].count + 1) % threshold # 0
          BY <1>4, <1>9, <3>2 DEF Mitigates
        <5> QED  BY <1>2, <5>1, NextMod
      <4>3. entries[d].count % threshold \in Nat
        BY <1>2, <1>9
      <4> QED  BY <1>4, <1>9, <2>4, <4>1, <4>2, <4>3
    <3> QED  BY <3>1, <3>2
  <2>6. ASSUME NEW i \in Index, entries'[i].address \in Row
        PROVE  since'[entries'[i].address] <= entries'[i].count % threshold
    <3>1. CASE i = p
      BY <1>4, <2>5, <3>1
    <3>2. CASE i # p
      BY <1>3, <1>6, <2>2, <2>3, <2>6, <3>2 DEF SinceBound
    <3> QED  BY <3>1, <3>2
  <2>7. ASSUME NEW x \in Row, ~Tracked(x)'
        PROVE  since'[x] <= Smallest'
    <3>1. x # r /\ since[x] <= Smallest
      BY <1>2, <1>3, <1>6, <2>2, <2>7 DEF SinceBound, Smallest
    <3> QED  BY <1>5, <1>9, <2>3, <3>1
  <2> QED  BY <2>6, <2>7
<1> QED  BY <1>5, <1>6, <1>8, <1>11, <1>12 DEF IInv

LEMMA StepInv == IInv /\ [Next]_vars => IInv'
<1> SUFFICES ASSUME IInv, [Next]_vars PROVE IInv'
  OBVIOUS
<1>1. CASE AutoRefresh
  BY <1>1, AutoRefreshInv
<1>2. ASSUME NEW r \in Row, Activate(r) PROVE IInv'
  BY <1>2, ActivateInv
<1>3. CASE UNCHANGED vars
  BY <1>3 DEF vars, IInv, TypeOK, Sorted, NoDuplicate, NeverUndercounts,
              SinceBound, Tracked, Smallest, Provisioned
<1> QED  BY <1>1, <1>2, <1>3 DEF Next

-----------------------------------------------------------------------------------------
(* The theorems *)

(* In every reachable state the table is sorted, counts each row once, undercounts no   *)
(* row and bounds the activations since the last mitigation.                            *)
THEOREM Invariance == Spec => []IInv
<1>1. Init => IInv
  BY InitInv
<1>2. IInv /\ [Next]_vars => IInv'
  BY StepInv
<1> QED  BY <1>1, <1>2, PTL DEF Spec

\* The counters are of the declared types (PTSMemoryController.h, Graphene_entry).
THEOREM TypeCorrect == Spec => []TypeOK
<1>1. IInv => TypeOK
  BY DEF IInv
<1> QED  BY <1>1, Invariance, PTL

(* activate() never undercounts a row, whatever the order of activations, evictions and *)
(* flushes.                                                                              *)
THEOREM CountersAreSafe == Spec => []NeverUndercounts
<1>1. IInv => NeverUndercounts
  BY DEF IInv
<1> QED  BY <1>1, Invariance, PTL

LEMMA InvImpliesMitigated == IInv => MitigatedInTime
<1> SUFFICES ASSUME IInv, Provisioned, NEW r \in Row PROVE since[r] < threshold
  BY DEF MitigatedInTime
<1>1. /\ size \in Index /\ threshold \in Nat /\ threshold > 0
      /\ TypeOK /\ SinceBound
  BY GrapheneAssumption DEF Index, IInv
<1>2. /\ \A i \in Index : entries[i].count \in Nat
      /\ since[r] \in Nat
  BY <1>1 DEF TypeOK, Entry
<1>3. CASE Tracked(r)
  <2>1. PICK i \in Index : entries[i].address = r
    BY <1>3 DEF Tracked
  <2>2. since[r] <= entries[i].count % threshold
    BY <1>1, <2>1 DEF SinceBound
  <2>3. entries[i].count % threshold \in 0..threshold-1
    BY <1>1, <1>2
  <2> QED  BY <1>1, <1>2, <2>2, <2>3
<1>4. CASE ~Tracked(r)
  <2>1. since[r] <= Smallest
    BY <1>1, <1>4 DEF SinceBound
  <2> QED  BY <1>1, <1>2, <2>1 DEF Provisioned, Smallest
<1> QED  BY <1>3, <1>4

(* While the smallest count is below th_RH, activate() asks for a mitigation of every    *)
(* row before it gets th_RH activations since the last flush.                            *)
THEOREM MitigatedBeforeThreshold == Spec => []MitigatedInTime
BY Invariance, InvImpliesMitigated, PTL

(* Graphene implements the abstract tracker: with a table large enough for the bank,     *)
(* every activation and auto-refresh is a step the abstract tracker allows.              *)
THEOREM Implementation == ProvisionedSpec => KeepsPromise
<1>1. Init => Promise!Init
  BY DEF Init, Promise!Init
<1>2. IInv /\ IInv' /\ [Next /\ Provisioned']_vars => [Promise!Next]_since
  <2> SUFFICES ASSUME IInv, IInv', [Next /\ Provisioned']_vars
               PROVE  [Promise!Next]_since
    OBVIOUS
  <2>1. ASSUME AutoRefresh PROVE [Promise!Next]_since
    <3>1. CASE UNCHANGED since
      BY <3>1
    <3>2. CASE since' = [r \in Row |-> 0]
      <4>1. since' = [x \in Row |-> IF x \in Row THEN 0 ELSE since[x]]
        BY <3>2
      <4> QED  BY <4>1 DEF Promise!Next, Promise!Refresh
    <3> QED  BY <2>1, <3>1, <3>2 DEF AutoRefresh, Flush
  <2>2. ASSUME NEW r \in Row, Activate(r), Provisioned' PROVE Promise!Next
    <3>1. since \in [Row -> Nat] /\ since' \in [Row -> Nat] /\ threshold \in Nat
      BY GrapheneAssumption DEF IInv, TypeOK
    <3>2. since'[r] <= threshold - 1
      <4>1. MitigatedInTime'
        BY InvImpliesMitigated, PTL
      <4> QED  BY <2>2, <3>1, <4>1 DEF MitigatedInTime
    <3>3. PICK S \in SUBSET Row :
              since' = [x \in Row |-> IF x \in S THEN 0
                                      ELSE IF x = r THEN since[x] + 1 ELSE since[x]]
      <4>1. CASE since' = [since EXCEPT ![r] = 0]
        <5>1. since' = [x \in Row |-> IF x \in {r} THEN 0
                                      ELSE IF x = r THEN since[x] + 1 ELSE since[x]]
          BY <3>1, <4>1
        <5> QED  BY <5>1
      <4>2. CASE since' = [since EXCEPT ![r] = @ + 1]
        <5>1. since' = [x \in Row |-> IF x \in {} THEN 0
                                      ELSE IF x = r THEN since[x] + 1 ELSE since[x]]
          BY <3>1, <4>2
        <5>2. {} \in SUBSET Row
          OBVIOUS
        <5> QED  BY <5>1, <5>2, Zenon
      <4> QED  BY <2>2, <4>1, <4>2 DEF Activate
    <3> QED  BY <3>2, <3>3 DEF Promise!Next, Promise!Activate
  <2>3. CASE UNCHANGED vars
    BY <2>3 DEF vars
  <2> QED  BY <2>1, <2>2, <2>3 DEF Next
<1>3. ProvisionedSpec => []IInv
  <2>1. IInv /\ [Next /\ Provisioned']_vars => IInv'
    BY StepInv
  <2> QED  BY <2>1, InitInv, PTL DEF ProvisionedSpec
<1> QED  BY <1>1, <1>2, <1>3, PTL DEF ProvisionedSpec, KeepsPromise, Promise!Spec

-----------------------------------------------------------------------------------------
(* The bound between two auto-refreshes of a row *)

\* A refresh window has finitely many flushes.
LEMMA FlushTimeFinite == IsFiniteSet(FlushTime)
<1>1. IsFiniteSet(0..Groups-1)
  BY GrapheneAssumption, FS_Interval
<1> QED  BY <1>1, GrapheneAssumption, FS_Subset

\* The flushes since the auto-refresh of a row are some of those of a refresh window.
LEMMA FlushesBounded ==
    ASSUME NEW r \in Row
    PROVE  /\ IsFiniteSet(FlushesSince(r))
           /\ Cardinality(FlushesSince(r)) \in Nat /\ Cardinality(FlushTime) \in Nat
           /\ Cardinality(FlushesSince(r)) <= Cardinality(FlushTime)
<1>1. FlushesSince(r) \subseteq FlushTime
  BY DEF FlushesSince
<1> QED  BY <1>1, FlushTimeFinite, FS_Subset, FS_CardinalityType

\* One more of what is at least a multiple.
LEMMA OneMore ==
    ASSUME NEW n \in Nat, NEW k \in Nat
    PROVE  n * k \in Nat /\ (n + 1) * k = (n * k) + k
OBVIOUS

\* More of them are a larger multiple.
LEMMA Larger ==
    ASSUME NEW m \in Nat, NEW n \in Nat, NEW k \in Nat, m <= n
    PROVE  m * k <= n * k
OBVIOUS

(* An auto-refresh that is not the row's own adds its group to the groups since, and    *)
(* with it a flush if it is one.                                                        *)
LEMMA FlushesStep ==
    ASSUME TypeOK, NEW r \in Row, group' = NextGroup, GroupOf[r] # group'
    PROVE  /\ group' \in FlushTime =>
                  Cardinality(FlushesSince(r)') = Cardinality(FlushesSince(r)) + 1
           /\ group' \notin FlushTime => FlushesSince(r)' = FlushesSince(r)
<1> DEFINE G == GroupOf[r]
<1>1. /\ Groups \in Nat \ {0} /\ G \in 0..Groups-1 /\ group \in 0..Groups-1
      /\ \A f \in FlushTime : f \in 0..Groups-1
  BY GrapheneAssumption DEF TypeOK
<1>2. group' = IF group + 1 = Groups THEN 0 ELSE group + 1
  BY <1>1 DEF NextGroup
<1>3. FlushesSince(r)' =
          {f \in FlushTime : IF G <= group' THEN G < f /\ f <= group' ELSE G < f \/ f <= group'}
  BY DEF FlushesSince
<1>4. FlushesSince(r) =
          {f \in FlushTime : IF G <= group THEN G < f /\ f <= group ELSE G < f \/ f <= group}
  BY DEF FlushesSince
<1>5. G # group'
  OBVIOUS
<1> HIDE DEF G
<1>6. ASSUME NEW f \in FlushTime
      PROVE  f \in FlushesSince(r)' <=> f \in FlushesSince(r) \/ f = group'
  BY <1>1, <1>2, <1>3, <1>4, <1>5
<1>7. group' \notin FlushesSince(r)
  BY <1>1, <1>2, <1>4, <1>5
<1>8. /\ group' \in FlushTime => FlushesSince(r)' = FlushesSince(r) \cup {group'}
      /\ group' \notin FlushTime => FlushesSince(r)' = FlushesSince(r)
  BY <1>3, <1>4, <1>6
<1> QED  BY <1>7, <1>8, FlushesBounded, FS_AddElement

\* The auto-refresh of a row forgets its activations, a flush those of the window before.
LEMMA HammerRefresh == ASSUME HammerInv, AutoRefresh PROVE HammerIsSplit'
<1> DEFINE limit == threshold - 1
<1>1. /\ TypeOK /\ MitigatedInTime /\ limit \in Nat /\ threshold = limit + 1
  BY InvImpliesMitigated, GrapheneAssumption DEF HammerInv, IInv
<1>2. ASSUME NEW r \in Row
      PROVE  hammer'[r] <= since'[r] + (Cardinality(FlushesSince(r)') * limit)
  <2>1. /\ hammer[r] \in Nat /\ since[r] \in Nat /\ since[r] <= limit /\ since'[r] \in Nat
        /\ hammer'[r] = IF GroupOf[r] = group' THEN 0 ELSE hammer[r]
        /\ since'[r] = IF group' \in FlushTime THEN 0 ELSE since[r]
    BY <1>1 DEF TypeOK, AutoRefresh, Flush, HammerInv, MitigatedInTime
  <2>2. hammer[r] <= since[r] + (Cardinality(FlushesSince(r)) * limit)
    BY DEF HammerInv, HammerIsSplit
  <2>3. Cardinality(FlushesSince(r)) \in Nat
    BY FlushesBounded
  <2>4. Cardinality(FlushesSince(r)') \in Nat
    <3>1. FlushesSince(r)' \subseteq FlushTime
      BY DEF FlushesSince
    <3> QED  BY <3>1, FlushTimeFinite, FS_Subset, FS_CardinalityType
  <2>5. CASE GroupOf[r] = group'
    <3>1. Cardinality(FlushesSince(r)') * limit \in Nat
      BY <1>1, <2>4
    <3> QED  BY <2>1, <2>5, <3>1
  <2>6. CASE GroupOf[r] # group' /\ group' \in FlushTime
    <3>1. Cardinality(FlushesSince(r)') = Cardinality(FlushesSince(r)) + 1
      BY <1>1, <2>6, FlushesStep DEF AutoRefresh
    <3>2. Cardinality(FlushesSince(r)') * limit =
              (Cardinality(FlushesSince(r)) * limit) + limit
      BY <1>1, <2>3, <3>1, OneMore
    <3>3. Cardinality(FlushesSince(r)) * limit \in Nat
      BY <1>1, <2>3, OneMore
    <3> QED  BY <1>1, <2>1, <2>2, <2>6, <3>2, <3>3
  <2>7. CASE GroupOf[r] # group' /\ group' \notin FlushTime
    <3>1. FlushesSince(r)' = FlushesSince(r)
      BY <1>1, <2>7, FlushesStep DEF AutoRefresh
    <3> QED  BY <2>1, <2>2, <2>7, <3>1
  <2> QED  BY <2>5, <2>6, <2>7
<1> QED  BY <1>2 DEF HammerIsSplit

\* An activation counts for both, and a mitigation resets both.
LEMMA HammerActivate == ASSUME HammerInv, NEW r \in Row, Activate(r) PROVE HammerIsSplit'
<1>1. TypeOK /\ threshold - 1 \in Nat /\ group' = group
  BY GrapheneAssumption DEF HammerInv, IInv, Activate
<1>2. \/ since' = [since EXCEPT ![r] = 0] /\ hammer' = [hammer EXCEPT ![r] = 0]
      \/ since' = [since EXCEPT ![r] = @ + 1] /\ hammer' = [hammer EXCEPT ![r] = @ + 1]
  BY DEF Activate
<1>3. ASSUME NEW x \in Row
      PROVE  hammer'[x] <= since'[x] + (Cardinality(FlushesSince(x)') * (threshold - 1))
  <2>1. FlushesSince(x)' = FlushesSince(x)
    BY <1>1 DEF FlushesSince
  <2>2. Cardinality(FlushesSince(x)) * (threshold - 1) \in Nat
    BY <1>1, FlushesBounded, OneMore
  <2>3. hammer[x] <= since[x] + (Cardinality(FlushesSince(x)) * (threshold - 1))
    BY DEF HammerInv, HammerIsSplit
  <2>4. hammer[x] \in Nat /\ since[x] \in Nat
    BY <1>1 DEF TypeOK
  <2>5. \/ since'[x] = 0 /\ hammer'[x] = 0
        \/ since'[x] = since[x] + 1 /\ hammer'[x] = hammer[x] + 1
        \/ since'[x] = since[x] /\ hammer'[x] = hammer[x]
    BY <1>1, <1>2 DEF TypeOK
  <2> QED  BY <2>1, <2>2, <2>3, <2>4, <2>5
<1> QED  BY <1>3 DEF HammerIsSplit

(* With a table that is large enough, no row gets more than threshold - 1 activations    *)
(* between two auto-refreshes or mitigations for each flush of the window and one more.  *)
THEOREM NeighboursRefreshedInTime == ProvisionedSpec => []HammerBound
<1>1. Init => HammerInv
  <2> SUFFICES ASSUME Init PROVE HammerInv
    OBVIOUS
  <2>1. Provisioned
    BY GrapheneAssumption DEF Init, Provisioned, Smallest, EmptyEntry, Index
  <2>2. ASSUME NEW r \in Row
        PROVE  hammer[r] <= since[r] + (Cardinality(FlushesSince(r)) * (threshold - 1))
    <3>1. Cardinality(FlushesSince(r)) * (threshold - 1) \in Nat
      BY FlushesBounded, GrapheneAssumption, OneMore
    <3> QED  BY <3>1 DEF Init
  <2> QED  BY <2>1, <2>2, InitInv DEF HammerInv, HammerIsSplit
<1>2. HammerInv /\ [Next /\ Provisioned']_vars => HammerInv'
  <2> SUFFICES ASSUME HammerInv, [Next /\ Provisioned']_vars PROVE HammerInv'
    OBVIOUS
  <2>1. CASE Next /\ Provisioned'
    <3>1. IInv'
      BY <2>1, StepInv DEF HammerInv
    <3>2. HammerIsSplit'
      BY <2>1, HammerRefresh, HammerActivate DEF Next
    <3> QED  BY <2>1, <3>1, <3>2 DEF HammerInv
  <2>2. CASE UNCHANGED vars
    <3>1. IInv'
      BY <2>2, StepInv DEF HammerInv
    <3> QED  BY <2>2, <3>1 DEF vars, HammerInv, Provisioned, Smallest, HammerIsSplit,
                               FlushesSince
  <2> QED  BY <2>1, <2>2
<1>3. HammerInv => HammerBound
  <2> SUFFICES ASSUME HammerInv, NEW r \in Row
               PROVE  hammer[r] <= (Cardinality(FlushTime) + 1) * (threshold - 1)
    BY DEF HammerBound
  <2>1. /\ TypeOK /\ threshold - 1 \in Nat /\ since[r] <= threshold - 1
    BY InvImpliesMitigated, GrapheneAssumption
       DEF HammerInv, IInv, MitigatedInTime, TypeOK
  <2>2. hammer[r] <= since[r] + (Cardinality(FlushesSince(r)) * (threshold - 1))
    BY DEF HammerInv, HammerIsSplit
  <2>3. Cardinality(FlushesSince(r)) * (threshold - 1)
            <= Cardinality(FlushTime) * (threshold - 1)
    BY <2>1, FlushesBounded, Larger
  <2>4. (Cardinality(FlushTime) + 1) * (threshold - 1) =
            (Cardinality(FlushTime) * (threshold - 1)) + (threshold - 1)
    BY <2>1, FlushesBounded, OneMore
  <2>5. /\ Cardinality(FlushesSince(r)) * (threshold - 1) \in Nat
        /\ Cardinality(FlushTime) * (threshold - 1) \in Nat
        /\ hammer[r] \in Nat /\ since[r] \in Nat
    BY <2>1, FlushesBounded, OneMore DEF TypeOK
  <2> QED  BY <2>1, <2>2, <2>3, <2>4, <2>5
<1> QED  BY <1>1, <1>2, <1>3, PTL DEF ProvisionedSpec
=========================================================================================
