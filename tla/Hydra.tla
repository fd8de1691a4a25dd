------------------------------------ MODULE Hydra ------------------------------------
(* MemoryController::Hydra (PTSMemoryController.cc): the hybrid tracker of one memory  *)
(* controller.  Every row starts out counted by its group's counter (GCT); once the   *)
(* group is saturated each row gets a counter of its own (RCT), read through a small  *)
(* cache (RCC).  One object serves every rank and bank of the controller, and the     *)
(* auto-refresh of any rank at page 0 resets it.                                      *)
EXTENDS Naturals, FiniteSets, Sequences, FiniteSetsExt, SequencesExt

CONSTANTS
    Row,                    \* the rows (address >> page_sz_base_bit) of the controller
    GctIdx,                 \* hydra_gct_num_entries indices
    IdxOf,                  \* IdxOf[r]: get_gct_idx(r) % hydra_gct_num_entries
    hydra_gct_threshold,
    hydra_rct_threshold,
    hydra_rcc_num_entries,
    num_ranks_per_mc,
    num_refreshes,          \* auto-refresh commands per rank and window (8192)
    RankOf,                 \* RankOf[r]: the rank r is in
    RefreshOf               \* RefreshOf[r]: the command of that rank that refreshes r

ASSUME HydraAssumption ==
    /\ IdxOf \in [Row -> GctIdx]
    /\ hydra_gct_threshold \in Nat
    /\ hydra_rct_threshold \in Nat \ {0}
    /\ hydra_rcc_num_entries \in Nat \ {0}
    /\ num_ranks_per_mc \in Nat \ {0}
    /\ num_refreshes \in Nat \ {0}
    /\ RankOf \in [Row -> 0..num_ranks_per_mc-1]
    /\ RefreshOf \in [Row -> 0..num_refreshes-1]

VARIABLES
    gct,                    \* gct[g]: activations counted for the whole group
    rct,                    \* rct[r]: r's own counter, for the rows that have one
    rcc,                    \* the rows in the cache, the latest used first
    retval,                 \* what the last activate() returned
    curr_refresh_rank,
    curr_refresh_page,
    since,                  \* history: activations since the last mitigation or reset
    hammer                  \* history: activations since the last mitigation or refresh

tables == <<gct, rct, rcc>>
schedule == <<curr_refresh_rank, curr_refresh_page>>
vars == <<gct, rct, rcc, retval, curr_refresh_rank, curr_refresh_page, since, hammer>>

Cached(r)    == r \in ToSet(rcc)
Saturated(r) == gct[IdxOf[r]] >= hydra_gct_threshold
Own(r)       == r \in DOMAIN rct

EmptyRct == [r \in {} |-> 0]

Init ==
    /\ gct = [g \in GctIdx |-> 0]
    /\ rct = EmptyRct
    /\ rcc = << >>
    /\ retval = 0
    /\ curr_refresh_rank = 0
    /\ curr_refresh_page = 0
    /\ since = [r \in Row |-> 0]
    /\ hammer = [r \in Row |-> 0]

(* query_rcc: a hit moves the row to the front; a miss reads the RCT (returns 1) and *)
(* drops the last row of a full cache.                                               *)
QueryRcc(r) ==
    rcc' = <<r>> \o (IF Cached(r) THEN Remove(rcc, r)
                     ELSE IF Len(rcc) = hydra_rcc_num_entries THEN Front(rcc)
                     ELSE rcc)

(* update_rct: the first activation of a row of a saturated group gives it a counter *)
(* that starts at the group's threshold; a later one counts, and returns 2 when the  *)
(* row's threshold is reached.                                                        *)
FromZero(r) == IF Own(r) THEN rct[r] + 1 ELSE 0            \* mutant: starts at 0
RctAfter(r) == IF Own(r) THEN rct[r] + 1 ELSE hydra_gct_threshold
MitigatesLate(r) == Own(r) /\ RctAfter(r) > hydra_rct_threshold   \* mutant: off by one
Mitigates(r) == Own(r) /\ RctAfter(r) >= hydra_rct_threshold
UpdateRct(r) ==
    rct' = [x \in DOMAIN rct \cup {r} |->
               IF x # r THEN rct[x] ELSE IF Mitigates(r) THEN 0 ELSE RctAfter(r)]

CountInGroup(r) ==
    /\ gct' = [gct EXCEPT ![IdxOf[r]] = @ + 1]
    /\ retval' = 0
    /\ UNCHANGED <<rct, rcc>>

CountInRow(r) ==
    /\ QueryRcc(r)
    /\ UpdateRct(r)
    /\ retval' = (IF Cached(r) THEN 0 ELSE 1) + (IF Mitigates(r) THEN 2 ELSE 0)
    /\ UNCHANGED gct

\* Results 2 and 3 set rh_ref: the bank refreshes the row's neighbours when it closes.
Activate(r) ==
    /\ IF Saturated(r) THEN CountInRow(r) ELSE CountInGroup(r)
    /\ since' = [since EXCEPT ![r] = IF retval' >= 2 THEN 0 ELSE @ + 1]
    /\ hammer' = [hammer EXCEPT ![r] = IF retval' >= 2 THEN 0 ELSE @ + 1]
    /\ UNCHANGED schedule

Reset ==
    /\ gct' = [g \in GctIdx |-> 0]
    /\ rct' = EmptyRct
    /\ rcc' = << >>

(* The auto-refresh of the next rank; the page moves on when the ranks have all had   *)
(* their turn.  At page 0 the rank's banks reset the tracker.                         *)
AutoRefresh ==
    /\ curr_refresh_rank' = (curr_refresh_rank + 1) % num_ranks_per_mc
    /\ curr_refresh_page' = (curr_refresh_page
                             + (IF curr_refresh_rank' = 0 THEN 1 ELSE 0)) % num_refreshes
    /\ hammer' = [r \in Row |->
                     IF RankOf[r] = curr_refresh_rank' /\ RefreshOf[r] = curr_refresh_page'
                     THEN 0 ELSE hammer[r]]
    /\ IF curr_refresh_page' = 0
          THEN Reset /\ since' = [r \in Row |-> 0]
          ELSE UNCHANGED <<tables, since>>
    /\ UNCHANGED retval

Next == AutoRefresh \/ \E r \in Row : Activate(r)

Spec == Init /\ [][Next]_vars

-------------------------------------------------------------------------------------
(* Activations a row can get since a reset without a mitigation.  The activation that *)
(* gives the row its own counter is not counted by it (PTSMemoryController.cc:3276),  *)
(* hence the + 1; a group threshold above the row's one is never met by the row.      *)
Limit == IF hydra_gct_threshold + 1 >= hydra_rct_threshold THEN hydra_gct_threshold + 1
                                                           ELSE hydra_rct_threshold

\* Hydra keeps the promise of the abstract tracker.
Promise == INSTANCE RowHammerMitigation WITH unmitigated <- since
KeepsPromise == Promise!Spec

(* A row never gets more than Limit activations without a mitigation, whatever counts *)
(* it: the group's counter, the row's own one, or the hand-over from one to the other.*)
MitigatedInTime == \A r \in Row : since[r] <= Limit

(* The hand-over: a row's activations since its last mitigation are within its        *)
(* group's count until it has a counter of its own, which lags by one at most.        *)
NeverUndercounts ==
    \A r \in Row : IF Own(r) THEN since[r] <= rct[r] + 1 /\ rct[r] <= Limit - 1
                             ELSE since[r] <= gct[IdxOf[r]]

(* A row has a counter of its own only when its group is saturated, so the two-level  *)
(* table never counts a row twice.                                                    *)
OwnIsSaturated == \A r \in Row : Own(r) => Saturated(r)

(* Between two refreshes of a row every rank resets the tracker once, and each reset  *)
(* forgets up to Limit activations.                                                   *)
HammerBound == \A r \in Row : hammer[r] <= (num_ranks_per_mc + 1) * Limit

-------------------------------------------------------------------------------------
(* The inductive invariant behind MitigatedInTime: the counters, without the cache,    *)
(* which decides what an activation costs and never what it counts.                   *)
CountersOK ==
    /\ gct \in [GctIdx -> 0..hydra_gct_threshold]
    /\ DOMAIN rct \subseteq Row
    /\ rct \in [DOMAIN rct -> Nat]
    /\ since \in [Row -> Nat]
IInv == CountersOK /\ NeverUndercounts /\ OwnIsSaturated

(* What HammerBound needs: the resets since a row's own refresh are the commands at    *)
(* page 0 since then, of this window and, before the refresh, of the window before.    *)
ScheduleOK ==
    /\ curr_refresh_rank \in 0..num_ranks_per_mc-1
    /\ curr_refresh_page \in 0..num_refreshes-1
    /\ hammer \in [Row -> Nat]
Refreshed(r) == \/ RefreshOf[r] < curr_refresh_page
                \/ RefreshOf[r] = curr_refresh_page /\ RankOf[r] <= curr_refresh_rank
ResetsSoFar == IF curr_refresh_page = 0 THEN curr_refresh_rank + 1 ELSE num_ranks_per_mc
ResetsSince(r) ==
    IF Refreshed(r) THEN IF RefreshOf[r] = 0 THEN ResetsSoFar - 1 - RankOf[r] ELSE 0
                    ELSE IF RefreshOf[r] = 0 THEN ResetsSoFar + num_ranks_per_mc - 1 - RankOf[r]
                                             ELSE ResetsSoFar
HammerIsSplit == \A r \in Row : hammer[r] <= since[r] + (ResetsSince(r) * Limit)
HammerInv == IInv /\ ScheduleOK /\ HammerIsSplit
=====================================================================================
