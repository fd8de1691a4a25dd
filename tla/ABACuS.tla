------------------------------------ MODULE ABACuS ------------------------------------
(* MemoryController::ABACuS (PTSMemoryController.cc): the activation counters one rank   *)
(* shares among its banks, and what the memory controller does with their answers.  An  *)
(* entry counts a row for all banks at once: rac is the count of the busiest bank, and  *)
(* sav the banks that have reached it.                                                   *)
EXTENDS Naturals, FiniteSets

CONSTANTS
    Bank,             \* the banks of the rank
    Row,              \* the row numbers of a bank
    RowZero,          \* row number 0, which is also the row_id of a reset entry
    num_entries,
    prt,              \* preventive refresh threshold (N_RH / 2)
    rct,              \* refresh cycle threshold (PRT - 2)
    num_refreshes,    \* auto-refresh commands per window (8192)
    RefreshOf,        \* RefreshOf[r]: the auto-refresh command that refreshes row r
    Watched           \* the rows whose activations the history follows

ASSUME ABACuSAssumption ==
    /\ RowZero \in Row
    /\ num_entries \in Nat \ {0}
    /\ prt \in Nat /\ rct \in Nat \ {0} /\ rct < prt
    /\ num_refreshes \in Nat \ {0}
    /\ RefreshOf \in [Row -> 0..num_refreshes-1]
    /\ Watched \subseteq Row

VARIABLES
    entries,          \* entries[i]: an ABACuS_entry
    spillover,        \* spillover_counter_
    rh_swap,          \* banks with a preventive refresh to do (the flag is reused)
    rh_update,        \* banks with a refresh cycle to do
    page,             \* curr_refresh_page / num_rows_per_refresh
    since,            \* history: since[b][r], activations since the last mitigation
                      \* or periodic_refresh
    hammer            \* history: activations since the last mitigation or auto-refresh

tables == <<entries, spillover>>
flags == <<rh_swap, rh_update>>
vars == <<entries, spillover, rh_swap, rh_update, page, since, hammer>>

Index == 1..num_entries
EmptyEntry == [row_id |-> RowZero, rac |-> 0, sav |-> {}]
EmptyTable == [i \in Index |-> EmptyEntry]
NoActs == [b \in Bank |-> [r \in Watched |-> 0]]

Init ==
    /\ entries = EmptyTable
    /\ spillover = 0
    /\ rh_swap = {} /\ rh_update = {}
    /\ page = 0
    /\ since = NoActs
    /\ hammer = NoActs

\* std::find_if: the first entry with the row's number, empty entries included.
Found(r)    == \E i \in Index : entries[i].row_id = r
Hit(r, i)   == entries[i].row_id = r /\ \A j \in 1..i-1 : entries[j].row_id # r
\* std::min_element: the first entry with the smallest count.
Lowest(i)   == /\ \A j \in Index : entries[i].rac <= entries[j].rac
               /\ \A j \in 1..i-1 : entries[j].rac > entries[i].rac

\* The history after an activation of row r in bank b, and after a mitigation of row m.
Counted(b, r, acts) ==
    [c \in Bank |-> [x \in Watched |-> IF c = b /\ x = r THEN acts[c][x] + 1 ELSE acts[c][x]]]
Mitigated(m, acts) ==
    [c \in Bank |-> [x \in Watched |-> IF x = m THEN 0 ELSE acts[c][x]]]

\* The entry after an activation in bank b: a second activation in a bank whose bit is
\* set is a new maximum.  Mutant: it only sets the bit.
OnlySets(e, b) == [e EXCEPT !.sav = @ \cup {b}]
Joined(e, b) == IF b \in e.sav THEN [e EXCEPT !.rac = @ + 1, !.sav = {b}]
                               ELSE [e EXCEPT !.sav = @ \cup {b}]

\* When a count asks for a preventive refresh, and what it is afterwards.
DueLate(rac) == rac % (prt + 1) = 0 /\ rac # 0      \* mutant: off by one
Due(rac)     == rac % prt = 0 /\ rac # 0
Restart      == spillover + 1

(* The row is found: prt maxima are answered with a preventive refresh (1).           *)
CountFound(b, r, i) ==
    LET e   == entries[i]
        new == Joined(e, b)
        due == Due(new.rac)
    IN  /\ entries' = [entries EXCEPT ![i] =
                          IF due THEN [new EXCEPT !.rac = Restart, !.sav = {}]
                                 ELSE new]
        /\ rh_swap' = IF due THEN rh_swap \cup {b} ELSE rh_swap
        /\ since' = IF due THEN Mitigated(r, since) ELSE Counted(b, r, since)
        /\ hammer' = IF due THEN Mitigated(r, hammer) ELSE Counted(b, r, hammer)
        /\ UNCHANGED <<spillover, rh_update>>

(* refresh_cycle(): every row of the rank is refreshed and the counters start afresh. *)
RefreshCycle ==
    /\ entries' = EmptyTable
    /\ spillover' = 0
    /\ since' = NoActs
    /\ hammer' = NoActs

\* When a row that is not found makes for a refresh cycle.
CycleDue(lowest, spill)    == lowest < spillover \/ spill = rct

(* The row is not found: it takes over the lowest entry if that counts no more than   *)
(* the spillover counter, and raises the spillover counter otherwise.  A lowest count *)
(* below the spillover counter is reported as "something wrong" and answered, like a  *)
(* spillover counter at rct, with a refresh cycle (2).                                *)
CountMissed(b, r, i) ==
    LET lowest  == entries[i].rac
        replace == lowest = spillover
        spill   == IF replace THEN spillover ELSE spillover + 1
        new     == IF replace THEN [row_id |-> r, rac |-> spill + 1, sav |-> {b}]
                              ELSE entries[i]
        due     == lowest = prt
        row     == IF replace THEN r ELSE entries[i].row_id
    IN  IF CycleDue(lowest, spill)
        THEN /\ RefreshCycle
             /\ rh_update' = rh_update \cup {b}
             /\ UNCHANGED rh_swap
        ELSE /\ spillover' = spill
             /\ entries' = [entries EXCEPT ![i] =
                               IF due THEN [new EXCEPT !.rac = spill, !.sav = {}] ELSE new]
             /\ rh_swap' = IF due THEN rh_swap \cup {b} ELSE rh_swap
             /\ since' = IF due THEN Mitigated(row, Counted(b, r, since))
                                ELSE Counted(b, r, since)
             /\ hammer' = IF due THEN Mitigated(row, Counted(b, r, hammer))
                                 ELSE Counted(b, r, hammer)
             /\ UNCHANGED rh_update

SwapsServed == rh_swap = {}                         \* mutant: overlooks rh_update
FlagsServed == rh_swap = {} /\ rh_update = {}

\* An ACT command; process_event() has served the flags before it issues one.
Activate(b, r) ==
    /\ FlagsServed
    /\ \E i \in Index : IF Found(r) THEN Hit(r, i) /\ CountFound(b, r, i)
                                    ELSE Lowest(i) /\ CountMissed(b, r, i)
    /\ UNCHANGED page

(* The start of process_event(): a pending refresh cycle resets the counters (again)  *)
(* and stalls all banks, a pending preventive refresh only stalls them.               *)
ServeFlags ==
    /\ rh_swap \cup rh_update # {}
    /\ IF rh_update # {} THEN RefreshCycle ELSE UNCHANGED <<tables, since, hammer>>
    /\ rh_swap' = {} /\ rh_update' = {}
    /\ UNCHANGED page

(* An auto-refresh command of the rank, periodic_refresh() at page 0: the entries are *)
(* reset, the spillover counter is not.                                               *)
AutoRefresh ==
    /\ FlagsServed
    /\ page' = (page + 1) % num_refreshes
    /\ hammer' = [b \in Bank |->
                     [r \in Watched |-> IF RefreshOf[r] = page' THEN 0 ELSE hammer[b][r]]]
    /\ IF page' = 0 THEN entries' = EmptyTable /\ since' = NoActs
                    ELSE UNCHANGED <<entries, since>>
    /\ UNCHANGED <<spillover, flags>>

Next == ServeFlags \/ AutoRefresh \/ \E b \in Bank, r \in Row : Activate(b, r)

Spec == Init /\ [][Next]_vars

---------------------------------------------------------------------------------------
CountedRow == Watched \ {RowZero}
TrackedBy(r, i) == entries[i].row_id = r

(* No count ever rests at prt, and every tracked row but row 0 has one entry: the      *)
(* preventive refresh of the not-found branch (PTSMemoryController.cc:3512) is dead,   *)
(* and the first entry found is the only one.                                          *)
OneEntryBelowPrt ==
    /\ \A i \in Index : entries[i].rac < prt
    /\ \A i, j \in Index : i # j /\ entries[i].row_id # RowZero =>
           entries[i].row_id # entries[j].row_id

(* The shared counters never undercount a row other than row 0 in any bank: a bank in  *)
(* sav may have reached rac, any other is at least one behind, a row without an entry  *)
(* has no more activations than the spillover counter, and no row has a second entry.  *)
NeverUndercounts ==
    /\ OneEntryBelowPrt
    /\ \A b \in Bank, r \in CountedRow :
          /\ ~Found(r) => since[b][r] <= spillover
          /\ \A i \in Index : TrackedBy(r, i) =>
                 since[b][r] + (IF b \in entries[i].sav THEN 0 ELSE 1) <= entries[i].rac

(* Every row but row 0 gets a preventive refresh, or the rank a refresh cycle, before  *)
(* it has been activated prt times in one bank: ABACuS keeps the tracker's promise.    *)
CountedActs ==
    [x \in Bank \X CountedRow |-> since[x[1]][x[2]]]
Promise == INSTANCE RowHammerMitigation
               WITH Row <- Bank \X CountedRow, Limit <- prt - 1, unmitigated <- CountedActs
KeepsPromise == Promise!Spec

(* PRT is N_RH / 2 (PTSMemoryController.cc:378): although periodic_refresh forgets the *)
(* counts once per window, no row but row 0 reaches N_RH activations between two       *)
(* refreshes of its neighbours.                                                        *)
BelowNRH == \A b \in Bank, r \in CountedRow : hammer[b][r] < 2 * prt

(* The controller serves a refresh cycle that activate() has already begun: the second *)
(* refresh_cycle() (PTSMemoryController.cc:966) discards no activation counted since.  *)
NothingDiscarded == [][ServeFlags => UNCHANGED <<tables, since>>]_vars

\* The tables, the page and the history are of their types, and the spillover counter
\* stops below rct (PTSMemoryController.cc:3520).
TypeOK ==
    /\ entries \in [Index -> [row_id : Row, rac : Nat, sav : SUBSET Bank]]
    /\ spillover \in 0..rct-1
    /\ rh_swap \subseteq Bank /\ rh_update \subseteq Bank
    /\ page \in 0..num_refreshes-1
    /\ since \in [Bank -> [Watched -> Nat]]
    /\ hammer \in [Bank -> [Watched -> Nat]]

\* A refresh cycle that has yet to be served has left nothing in the counters.
CycleForgets ==
    rh_update # {} => entries = EmptyTable /\ spillover = 0 /\ since = NoActs

(* What BelowNRH needs: the activations of a row since its auto-refresh are those since *)
(* the counters were reset and, before its auto-refresh in this window, at most prt - 1 *)
(* of the window before.                                                                *)
Carried(r) == IF page < RefreshOf[r] THEN prt - 1 ELSE 0
HammerIsSplit == \A b \in Bank, r \in CountedRow : hammer[b][r] <= since[b][r] + Carried(r)

IInv == TypeOK /\ NeverUndercounts /\ CycleForgets /\ HammerIsSplit

\* What PRT = N_RH / 2 says of every row, row 0 included.
EveryRowBelowNRH == \A b \in Bank, r \in Watched : hammer[b][r] < 2 * prt
=======================================================================================
