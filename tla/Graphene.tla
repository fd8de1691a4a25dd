---------------------------------- MODULE Graphene ----------------------------------
(* MemoryController::Graphene (PTSMemoryController.cc): the activation counters one   *)
(* bank keeps under rh_prevention_scheme = graphene, and the two places the memory   *)
(* controller drives them from: an ACT command (activate) and an auto-refresh        *)
(* command of the bank's rank (flush at the refresh groups of graphene_flush_time).  *)
EXTENDS Naturals, FiniteSets

CONSTANTS
    Row,          \* the rows of the bank (page_num)
    NoRow,        \* reset_address: the address 1 << 62, which is no row
    size,         \* graphene_table_size
    threshold,    \* th_RH
    Groups,       \* auto-refresh commands per refresh window (8192 in the code)
    FlushTime,    \* graphene_flush_time, {0, 4096} in the code
    GroupOf,      \* GroupOf[r]: the auto-refresh command that refreshes row r
    MaxActs       \* bound: activations of the bank between two flushes

ASSUME GrapheneAssumption ==
    /\ NoRow \notin Row
    /\ size \in Nat \ {0}
    /\ threshold \in Nat \ {0}
    /\ Groups \in Nat \ {0}
    /\ FlushTime \subseteq 0..Groups-1
    /\ GroupOf \in [Row -> 0..Groups-1]
    /\ MaxActs \in Nat

VARIABLES
    entries,      \* entries[i]: the i-th Graphene_entry, the largest count first
    group,        \* curr_refresh_page / num_rows_per_refresh
    window,       \* history: activations of the bank since the last flush
    acts,         \* history: acts[r], activations of r since the last flush
    since,        \* history: activations of r since its last mitigation or flush
    hammer        \* history: activations of r since its last mitigation or auto-refresh

vars == <<entries, group, window, acts, since, hammer>>

Index == 1..size
Entry == [address : Row \cup {NoRow}, count : Nat]
EmptyEntry == [address |-> NoRow, count |-> 0]

\* The table has size entries and the refresh group stays within the window.
TypeOK ==
    /\ entries \in [Index -> Entry]
    /\ group \in 0..Groups-1
    /\ window \in Nat
    /\ acts \in [Row -> Nat]
    /\ since \in [Row -> Nat]
    /\ hammer \in [Row -> Nat]

Tracked(r) == \E i \in Index : entries[i].address = r
Smallest   == entries[size].count

Init ==
    /\ entries = [i \in Index |-> EmptyEntry]
    /\ group = 0
    /\ window = 0
    /\ acts = [r \in Row |-> 0]
    /\ since = [r \in Row |-> 0]
    /\ hammer = [r \in Row |-> 0]

(* The entry activate() counts in: the first one that holds the row, or the last one *)
(* of the table when none does, which the row takes over together with its count.    *)
Holds(r, d) == entries[d].address = r /\ \A i \in 1..d-1 : entries[i].address # r
Slot(r, d)  == Holds(r, d) \/ (~Tracked(r) /\ d = size)
CountsAfresh(r, d) ==            \* mutant: the entry's count is not taken over
    [entries EXCEPT ![d] = [address |-> r,
                            count |-> IF Holds(r, d) THEN entries[d].count + 1 ELSE 1]]
Counted(r, d) ==
    [entries EXCEPT ![d] = [address |-> r, count |-> entries[d].count + 1]]

(* The sorting loop: entry d of e moves up past every smaller count and stops, at p, *)
(* below the first count that is not smaller.                                        *)
StopsAt(e, d, p) ==
    /\ p \in 1..d
    /\ \A i \in p..d-1 : e[i].count < e[d].count
    /\ p > 1 => e[d].count <= e[p-1].count
MovedUp(e, d, p) ==
    [i \in Index |-> IF i = p THEN e[d]
                     ELSE IF i \in p+1..d THEN e[i-1]
                     ELSE e[i]]

\* Mutant of Mitigates: the neighbours are refreshed the first time only.
OnlyOnce(e, p) == e[p].count = threshold

\* activate() returns 1: the bank is to refresh the neighbours of the row.
Mitigates(e, p) == e[p].count % threshold = 0

Activate(r) ==
    /\ window < MaxActs
    /\ window' = window + 1
    /\ acts' = [acts EXCEPT ![r] = @ + 1]
    /\ \E d \in Index, p \in Index :
          /\ Slot(r, d)
          /\ StopsAt(Counted(r, d), d, p)
          /\ entries' = MovedUp(Counted(r, d), d, p)
          /\ IF Mitigates(entries', p)
                THEN /\ since' = [since EXCEPT ![r] = 0]
                     /\ hammer' = [hammer EXCEPT ![r] = 0]
                ELSE /\ since' = [since EXCEPT ![r] = @ + 1]
                     /\ hammer' = [hammer EXCEPT ![r] = @ + 1]
    /\ UNCHANGED group

\* flush() when the auto-refresh command is one of graphene_flush_time.
Flush ==
    /\ entries' = [i \in Index |-> EmptyEntry]
    /\ window' = 0
    /\ acts' = [r \in Row |-> 0]
    /\ since' = [r \in Row |-> 0]

\* The refresh group after this one; the page number wraps around.
NextGroup == (group + 1) % Groups

AutoRefresh ==
    /\ group' = NextGroup
    /\ hammer' = [r \in Row |-> IF GroupOf[r] = group' THEN 0 ELSE hammer[r]]
    /\ IF group' \in FlushTime THEN Flush
                               ELSE UNCHANGED <<entries, window, acts, since>>

Next == AutoRefresh \/ \E r \in Row : Activate(r)

Spec == Init /\ [][Next]_vars

(* The behaviours in which the table is large enough for the bank: no row is ever   *)
(* evicted with a count of threshold or more.                                        *)
Provisioned == Smallest < threshold
ProvisionedSpec == Init /\ [][Next /\ Provisioned']_vars

-------------------------------------------------------------------------------------
\* The table stays sorted, largest count first.
Sorted == \A i, j \in Index : i <= j => entries[i].count >= entries[j].count

\* No row is counted by two entries.
NoDuplicate ==
    \A i, j \in Index :
        i # j /\ entries[i].address \in Row => entries[i].address # entries[j].address

(* The counters never undercount: a tracked row's count is at least its activations *)
(* since the flush, and an untracked row's activations are at most the smallest      *)
(* count, so that taking over the last entry (PTSMemoryController.cc:2695) is safe.  *)
NeverUndercounts ==
    /\ \A i \in Index : entries[i].address \in Row =>
            acts[entries[i].address] <= entries[i].count
    /\ \A r \in Row : ~Tracked(r) => acts[r] <= Smallest

(* While the table is large enough, no row gets threshold activations without a     *)
(* mitigation since the last flush.                                                 *)
MitigatedInTime == Provisioned => \A r \in Row : since[r] < threshold

(* Across flushes the bound weakens: a row's auto-refresh is Groups commands apart   *)
(* and |FlushTime| flushes fall between, each of which forgets threshold-1           *)
(* activations.                                                                      *)
HammerBound ==
    \A r \in Row : hammer[r] <= (Cardinality(FlushTime) + 1) * (threshold - 1)

\* Graphene keeps the promise of the abstract tracker.
Promise == INSTANCE RowHammerMitigation
               WITH Limit <- threshold - 1, unmitigated <- since
KeepsPromise == Promise!Spec

-------------------------------------------------------------------------------------
(* The inductive invariant behind MitigatedInTime: within a provisioned window, a    *)
(* tracked row has at most count % threshold activations since its last mitigation, *)
(* since its count can only reach threshold while it is tracked.                     *)
SinceBound ==
    Provisioned =>
        /\ \A i \in Index : entries[i].address \in Row =>
                since[entries[i].address] <= entries[i].count % threshold
        /\ \A r \in Row : ~Tracked(r) => since[r] <= Smallest

IInv == TypeOK /\ Sorted /\ NoDuplicate /\ NeverUndercounts /\ SinceBound

(* Behind HammerBound: the activations since the auto-refresh of a row are those since *)
(* the last flush, and threshold - 1 at most for each flush since that auto-refresh.   *)
FlushesSince(r) ==
    {f \in FlushTime : IF GroupOf[r] <= group THEN GroupOf[r] < f /\ f <= group
                                              ELSE GroupOf[r] < f \/ f <= group}
HammerIsSplit ==
    \A r \in Row : hammer[r] <= since[r] + (Cardinality(FlushesSince(r)) * (threshold - 1))
HammerInv == IInv /\ Provisioned /\ HammerIsSplit
=====================================================================================
