--------------------------------- MODULE HydraProofs ---------------------------------
(* Proofs about Hydra for every set of rows, grouping, threshold and refresh schedule.  *)
(* The invariant follows a row through the hand-over from its group's counter to its   *)
(* own one: at every moment one of the two bounds its activations.                     *)
EXTENDS Hydra, TLAPS

LEMMA LimitFacts ==
    /\ Limit \in Nat
    /\ hydra_gct_threshold \in Nat /\ hydra_rct_threshold \in Nat
    /\ hydra_gct_threshold + 1 <= Limit
    /\ hydra_rct_threshold <= Limit
    /\ 1 <= Limit
BY HydraAssumption DEF Limit

\* What an activation of r does to the counters, in the three cases of the code.
LEMMA ActivateCases ==
    ASSUME IInv, NEW r \in Row, Activate(r)
    PROVE  \/ /\ ~Saturated(r) /\ ~Own(r)
              /\ gct' = [gct EXCEPT ![IdxOf[r]] = @ + 1]
              /\ rct' = rct
              /\ since' = [since EXCEPT ![r] = @ + 1]
           \/ /\ Saturated(r) /\ Mitigates(r)
              /\ gct' = gct
              /\ UpdateRct(r)
              /\ since' = [since EXCEPT ![r] = 0]
           \/ /\ Saturated(r) /\ ~Mitigates(r)
              /\ gct' = gct
              /\ UpdateRct(r)
              /\ since' = [since EXCEPT ![r] = @ + 1]
<1>1. CASE ~Saturated(r)
  <2>1. ~Own(r)
    BY <1>1 DEF IInv, OwnIsSaturated
  <2> QED  BY <1>1, <2>1 DEF Activate, CountInGroup
<1>2. CASE Saturated(r) /\ Mitigates(r)
  <2>1. retval' >= 2 /\ gct' = gct /\ UpdateRct(r)
    BY <1>2 DEF Activate, CountInRow
  <2> QED  BY <1>2, <2>1 DEF Activate
<1>3. CASE Saturated(r) /\ ~Mitigates(r)
  <2>1. ~(retval' >= 2) /\ gct' = gct /\ UpdateRct(r)
    BY <1>3 DEF Activate, CountInRow
  <2> QED  BY <1>3, <2>1 DEF Activate
<1> QED  BY <1>1, <1>2, <1>3

LEMMA InitInv == Init => IInv
BY HydraAssumption
   DEF Init, EmptyRct, IInv, CountersOK, NeverUndercounts, OwnIsSaturated, Own

\* An auto-refresh leaves the counters alone or clears all of them.
LEMMA AutoRefreshInv == ASSUME IInv, AutoRefresh PROVE IInv'
<1>1. CASE curr_refresh_page' = 0
  <2>1. /\ gct' = [g \in GctIdx |-> 0]
        /\ rct' = EmptyRct
        /\ since' = [r \in Row |-> 0]
    BY <1>1 DEF AutoRefresh, Reset
  <2> QED  BY <2>1, HydraAssumption
           DEF EmptyRct, IInv, CountersOK, NeverUndercounts, OwnIsSaturated, Own
<1>2. CASE curr_refresh_page' # 0
  <2>1. UNCHANGED <<gct, rct, since>>
    BY <1>2 DEF AutoRefresh, tables
  <2> QED  BY <2>1 DEF IInv, CountersOK, NeverUndercounts, OwnIsSaturated, Own, Saturated
<1> QED  BY <1>1, <1>2

LEMMA ActivateInv == ASSUME IInv, NEW r \in Row, Activate(r) PROVE IInv'
<1> USE LimitFacts
<1>1. CountersOK /\ NeverUndercounts /\ OwnIsSaturated /\ IdxOf \in [Row -> GctIdx]
  BY HydraAssumption DEF IInv
<1>2. CASE /\ ~Saturated(r) /\ ~Own(r)
           /\ gct' = [gct EXCEPT ![IdxOf[r]] = @ + 1]
           /\ rct' = rct
           /\ since' = [since EXCEPT ![r] = @ + 1]
  <2>1. CountersOK'
    BY <1>1, <1>2 DEF CountersOK, Saturated
  <2>2. \A x \in Row : gct[IdxOf[x]] <= gct'[IdxOf[x]]
    BY <1>1, <1>2 DEF CountersOK
  <2>3. OwnIsSaturated'
    BY <1>1, <1>2, <2>1, <2>2 DEF CountersOK, OwnIsSaturated, Own, Saturated
  <2>4. NeverUndercounts'
    <3> SUFFICES ASSUME NEW x \in Row
                 PROVE  IF Own(x)' THEN since'[x] <= rct'[x] + 1 /\ rct'[x] <= Limit - 1
                                   ELSE since'[x] <= gct'[IdxOf[x]]
      BY DEF NeverUndercounts
    <3>1. CASE x = r
      BY <1>1, <1>2, <3>1 DEF CountersOK, NeverUndercounts, Own
    <3>2. CASE x # r
      BY <1>1, <1>2, <2>1, <2>2, <3>2 DEF CountersOK, NeverUndercounts, Own
    <3> QED  BY <3>1, <3>2
  <2> QED  BY <2>1, <2>3, <2>4 DEF IInv
<1>3. ASSUME Saturated(r), gct' = gct, UpdateRct(r),
             since' = [since EXCEPT ![r] = IF Mitigates(r) THEN 0 ELSE @ + 1]
      PROVE  IInv'
  <2>1. /\ DOMAIN rct' = DOMAIN rct \cup {r}
        /\ \A x \in DOMAIN rct : x # r => rct'[x] = rct[x]
        /\ rct'[r] = IF Mitigates(r) THEN 0 ELSE RctAfter(r)
    BY <1>3 DEF UpdateRct
  <2>2. RctAfter(r) \in Nat
    BY <1>1 DEF RctAfter, Own, CountersOK
  <2>3. CountersOK'
    BY <1>1, <1>3, <2>2 DEF CountersOK, UpdateRct
  <2>4. OwnIsSaturated'
    BY <1>1, <1>3, <2>1 DEF OwnIsSaturated, Own, Saturated
  <2>5. NeverUndercounts'
    <3> SUFFICES ASSUME NEW x \in Row
                 PROVE  IF Own(x)' THEN since'[x] <= rct'[x] + 1 /\ rct'[x] <= Limit - 1
                                   ELSE since'[x] <= gct'[IdxOf[x]]
      BY DEF NeverUndercounts
    <3>1. CASE x # r
      BY <1>1, <1>3, <2>1, <3>1 DEF CountersOK, NeverUndercounts, Own
    <3>2. CASE x = r /\ Mitigates(r)
      BY <1>1, <1>3, <2>1, <3>2 DEF CountersOK, Own
    <3>3. CASE x = r /\ ~Mitigates(r) /\ Own(r)
      BY <1>1, <1>3, <2>1, <3>3
      DEF CountersOK, NeverUndercounts, Own, Mitigates, RctAfter
    <3>4. CASE x = r /\ ~Mitigates(r) /\ ~Own(r)
      <4>1. since[r] <= gct[IdxOf[r]] /\ gct[IdxOf[r]] <= hydra_gct_threshold
        BY <1>1, <3>4 DEF NeverUndercounts, CountersOK
      <4>2. since'[r] = since[r] + 1 /\ rct'[r] = hydra_gct_threshold
        BY <1>1, <1>3, <2>1, <3>4 DEF CountersOK, RctAfter
      <4> QED  BY <1>1, <2>1, <3>4, <4>1, <4>2 DEF CountersOK, Own
    <3> QED  BY <3>1, <3>2, <3>3, <3>4
  <2> QED  BY <2>3, <2>4, <2>5 DEF IInv
<1> QED  BY <1>2, <1>3, ActivateCases

LEMMA StepInv == IInv /\ [Next]_vars => IInv'
<1> SUFFICES ASSUME IInv, [Next]_vars PROVE IInv'
  OBVIOUS
<1>1. ASSUME NEW r \in Row, Activate(r) PROVE IInv'
  BY <1>1, ActivateInv
<1>2. CASE UNCHANGED vars
  BY <1>2 DEF vars, IInv, CountersOK, NeverUndercounts, OwnIsSaturated, Own, Saturated
<1> QED  BY <1>1, <1>2, AutoRefreshInv DEF Next

(* In every reachable state the counter that is in charge of a row bounds the row's     *)
(* activations since its last mitigation (query_gct, update_rct).                        *)
THEOREM Invariance == Spec => []IInv
<1>1. IInv /\ [Next]_vars => IInv'
  BY StepInv
<1> QED  BY <1>1, InitInv, PTL DEF Spec

\* The hand-over from the group's counter to the row's one loses at most one activation.
THEOREM HandOverIsSafe == Spec => []NeverUndercounts
<1>1. IInv => NeverUndercounts
  BY DEF IInv
<1> QED  BY <1>1, Invariance, PTL

LEMMA InvImpliesMitigated == IInv => MitigatedInTime
<1> SUFFICES ASSUME IInv, NEW r \in Row PROVE since[r] <= Limit
  BY DEF MitigatedInTime
<1>1. CountersOK /\ NeverUndercounts /\ IdxOf \in [Row -> GctIdx]
  BY HydraAssumption DEF IInv
<1>2. CASE Own(r)
  BY <1>1, <1>2, LimitFacts DEF NeverUndercounts, CountersOK, Own
<1>3. CASE ~Own(r)
  BY <1>1, <1>3, LimitFacts DEF NeverUndercounts, CountersOK
<1> QED  BY <1>2, <1>3

\* No row gets more than Limit activations between two mitigations or resets.
THEOREM MitigatedWithinLimit == Spec => []MitigatedInTime
BY Invariance, InvImpliesMitigated, PTL

\* Hydra implements the abstract tracker with the bound its two thresholds give.
THEOREM Implementation == Spec => KeepsPromise
<1>1. Init => Promise!Init
  BY DEF Init, Promise!Init
<1>2. IInv /\ IInv' /\ [Next]_vars => [Promise!Next]_since
  <2> SUFFICES ASSUME IInv, IInv', [Next]_vars PROVE [Promise!Next]_since
    OBVIOUS
  <2>1. ASSUME AutoRefresh PROVE [Promise!Next]_since
    <3>1. CASE since' = [r \in Row |-> 0]
      <4>1. since' = [x \in Row |-> IF x \in Row THEN 0 ELSE since[x]]
        BY <3>1
      <4> QED  BY <4>1 DEF Promise!Next, Promise!Refresh
    <3>2. CASE UNCHANGED since
      BY <3>2
    <3> QED  BY <2>1, <3>1, <3>2 DEF AutoRefresh
  <2>2. ASSUME NEW r \in Row, Activate(r) PROVE Promise!Next
    <3>1. since \in [Row -> Nat]
      BY DEF IInv, CountersOK
    <3>2. since'[r] <= Limit
      <4>1. MitigatedInTime'
        BY InvImpliesMitigated, PTL
      <4> QED  BY <4>1 DEF MitigatedInTime
    <3>3. since' = [since EXCEPT ![r] = 0] \/ since' = [since EXCEPT ![r] = @ + 1]
      BY <2>2 DEF Activate
    <3>4. CASE since' = [since EXCEPT ![r] = 0]
      <4>1. since' = [x \in Row |-> IF x \in {r} THEN 0
                                    ELSE IF x = r THEN since[x] + 1 ELSE since[x]]
        BY <3>1, <3>4
      <4> QED  BY <3>2, <4>1 DEF Promise!Next, Promise!Activate
    <3>5. CASE since' = [since EXCEPT ![r] = @ + 1]
      <4>1. since' = [x \in Row |-> IF x \in {} THEN 0
                                    ELSE IF x = r THEN since[x] + 1 ELSE since[x]]
        BY <3>1, <3>5
      <4>2. {} \in SUBSET Row
        OBVIOUS
      <4>3. Promise!Activate(r)
        BY <3>2, <4>1, <4>2, Zenon DEF Promise!Activate
      <4> QED  BY <4>3 DEF Promise!Next
    <3> QED  BY <3>3, <3>4, <3>5
  <2>3. CASE UNCHANGED vars
    BY <2>3 DEF vars
  <2> QED  BY <2>1, <2>2, <2>3 DEF Next
<1> QED  BY <1>1, <1>2, Invariance, PTL DEF Spec, KeepsPromise, Promise!Spec

---------------------------------------------------------------------------------------
(* Activations across resets *)

LEMMA Wraps ==
    ASSUME NEW n \in Nat, 0 < n, NEW p \in 0..n-1
    PROVE  /\ (p + 1) % n = IF p + 1 = n THEN 0 ELSE p + 1
           /\ (p + 0) % n = p
<1>1. CASE p + 1 < n
  <2>1. (p + 1) % n = p + 1
    BY <1>1
  <2> QED  BY <1>1, <2>1
<1>2. CASE p + 1 = n
  <2>1. n = (n * (n \div n)) + (n % n) /\ n % n \in 0..n-1 /\ n \div n \in Nat
    OBVIOUS
  <2>2. CASE n \div n = 0
    BY <2>1, <2>2
  <2>3. CASE n \div n >= 1
    <3>1. n * (n \div n) >= n
      BY <2>1, <2>3
    <3> QED  BY <1>2, <2>1, <3>1
  <2> QED  BY <2>1, <2>2, <2>3
<1> QED  BY <1>1, <1>2

\* The rank and the page that an auto-refresh command moves on to.
LEMMA NextCommand ==
    ASSUME ScheduleOK, AutoRefresh
    PROVE  \/ /\ curr_refresh_rank + 1 < num_ranks_per_mc
              /\ curr_refresh_rank' = curr_refresh_rank + 1
              /\ curr_refresh_page' = curr_refresh_page
           \/ /\ curr_refresh_rank + 1 = num_ranks_per_mc
              /\ curr_refresh_page + 1 < num_refreshes
              /\ curr_refresh_rank' = 0
              /\ curr_refresh_page' = curr_refresh_page + 1
           \/ /\ curr_refresh_rank + 1 = num_ranks_per_mc
              /\ curr_refresh_page + 1 = num_refreshes
              /\ curr_refresh_rank' = 0
              /\ curr_refresh_page' = 0
<1>1. /\ num_ranks_per_mc \in Nat /\ 0 < num_ranks_per_mc
      /\ num_refreshes \in Nat /\ 0 < num_refreshes
      /\ curr_refresh_rank \in 0..num_ranks_per_mc-1
      /\ curr_refresh_page \in 0..num_refreshes-1
  BY HydraAssumption DEF ScheduleOK
<1>2. curr_refresh_rank' = IF curr_refresh_rank + 1 = num_ranks_per_mc
                           THEN 0 ELSE curr_refresh_rank + 1
  <2>1. curr_refresh_rank' = (curr_refresh_rank + 1) % num_ranks_per_mc
    BY DEF AutoRefresh
  <2> QED  BY <1>1, <2>1, Wraps
<1>3. curr_refresh_page' = IF curr_refresh_rank' # 0 THEN curr_refresh_page
                           ELSE IF curr_refresh_page + 1 = num_refreshes
                           THEN 0 ELSE curr_refresh_page + 1
  <2>1. CASE curr_refresh_rank' = 0
    <3>1. curr_refresh_page' = (curr_refresh_page + 1) % num_refreshes
      BY <2>1 DEF AutoRefresh
    <3> QED  BY <1>1, <2>1, <3>1, Wraps
  <2>2. CASE curr_refresh_rank' # 0
    <3>1. curr_refresh_page' = (curr_refresh_page + 0) % num_refreshes
      BY <2>2 DEF AutoRefresh
    <3> QED  BY <1>1, <2>2, <3>1, Wraps
  <2> QED  BY <2>1, <2>2
<1> QED  BY <1>1, <1>2, <1>3

\* A row sees at most one reset for every rank before its own refresh comes round again.
LEMMA ResetsBounded ==
    ASSUME ScheduleOK, NEW r \in Row PROVE ResetsSince(r) \in 0..num_ranks_per_mc
BY HydraAssumption DEF ScheduleOK, ResetsSince, ResetsSoFar, Refreshed

OwnRefresh(r) == RankOf[r] = curr_refresh_rank' /\ RefreshOf[r] = curr_refresh_page'

LEMMA ResetsStep ==
    ASSUME ScheduleOK, AutoRefresh, NEW r \in Row
    PROVE  /\ OwnRefresh(r) => ResetsSince(r)' = 0
           /\ ~OwnRefresh(r) => ResetsSince(r)' = ResetsSince(r)
                                    + (IF curr_refresh_page' = 0 THEN 1 ELSE 0)
<1>1. /\ num_ranks_per_mc \in Nat /\ 0 < num_ranks_per_mc
      /\ num_refreshes \in Nat /\ 0 < num_refreshes
      /\ curr_refresh_rank \in 0..num_ranks_per_mc-1
      /\ curr_refresh_page \in 0..num_refreshes-1
      /\ RankOf[r] \in 0..num_ranks_per_mc-1 /\ RefreshOf[r] \in 0..num_refreshes-1
  BY HydraAssumption DEF ScheduleOK
<1>2. CASE /\ curr_refresh_rank + 1 < num_ranks_per_mc
           /\ curr_refresh_rank' = curr_refresh_rank + 1
           /\ curr_refresh_page' = curr_refresh_page
  BY <1>1, <1>2 DEF OwnRefresh, ResetsSince, ResetsSoFar, Refreshed
<1>3. CASE /\ curr_refresh_rank + 1 = num_ranks_per_mc
           /\ curr_refresh_page + 1 < num_refreshes
           /\ curr_refresh_rank' = 0
           /\ curr_refresh_page' = curr_refresh_page + 1
  BY <1>1, <1>3 DEF OwnRefresh, ResetsSince, ResetsSoFar, Refreshed
<1>4. CASE /\ curr_refresh_rank + 1 = num_ranks_per_mc
           /\ curr_refresh_page + 1 = num_refreshes
           /\ curr_refresh_rank' = 0
           /\ curr_refresh_page' = 0
  BY <1>1, <1>4 DEF OwnRefresh, ResetsSince, ResetsSoFar, Refreshed
<1> QED  BY <1>2, <1>3, <1>4, NextCommand

LEMMA OneMore ==
    ASSUME NEW k \in Nat, NEW l \in Nat
    PROVE  /\ k * l \in Nat /\ (k + 1) * l = (k * l) + l /\ 0 * l = 0 /\ (k + 0) * l = k * l
           /\ \A n \in Nat : k <= n => k * l <= n * l
OBVIOUS

LEMMA HammerInit == Init => HammerInv
<1> SUFFICES ASSUME Init PROVE HammerInv
  OBVIOUS
<1>1. ScheduleOK
  BY HydraAssumption DEF Init, ScheduleOK
<1>2. ASSUME NEW r \in Row PROVE hammer[r] <= since[r] + (ResetsSince(r) * Limit)
  <2>1. ResetsSince(r) * Limit \in Nat
    BY <1>1, ResetsBounded, OneMore, LimitFacts, HydraAssumption
  <2> QED  BY <2>1 DEF Init
<1> QED  BY <1>1, <1>2, InitInv DEF HammerInv, HammerIsSplit

LEMMA HammerActivate == ASSUME HammerInv, NEW r \in Row, Activate(r) PROVE HammerInv'
<1>1. /\ since \in [Row -> Nat] /\ hammer \in [Row -> Nat]
      /\ curr_refresh_rank' = curr_refresh_rank /\ curr_refresh_page' = curr_refresh_page
  BY DEF HammerInv, IInv, CountersOK, ScheduleOK, Activate, schedule
<1>2. \/ since' = [since EXCEPT ![r] = 0] /\ hammer' = [hammer EXCEPT ![r] = 0]
      \/ since' = [since EXCEPT ![r] = @ + 1] /\ hammer' = [hammer EXCEPT ![r] = @ + 1]
  BY DEF Activate
<1>3. ScheduleOK'
  BY <1>1, <1>2 DEF HammerInv, ScheduleOK
<1>4. ASSUME NEW x \in Row PROVE hammer'[x] <= since'[x] + (ResetsSince(x)' * Limit)
  <2> DEFINE k == ResetsSince(x) * Limit
  <2>1. k \in Nat /\ hammer[x] <= since[x] + k /\ hammer[x] \in Nat /\ since[x] \in Nat
    <3>1. ResetsSince(x) \in Nat
      BY ResetsBounded, HydraAssumption DEF HammerInv
    <3> QED  BY <1>1, <3>1, OneMore, LimitFacts DEF HammerInv, HammerIsSplit
  <2>2. ResetsSince(x)' = ResetsSince(x)
    BY <1>1 DEF ResetsSince, ResetsSoFar, Refreshed
  <2>3. \/ since'[x] = 0 /\ hammer'[x] = 0
        \/ since'[x] = since[x] + 1 /\ hammer'[x] = hammer[x] + 1
        \/ since'[x] = since[x] /\ hammer'[x] = hammer[x]
    BY <1>1, <1>2
  <2> HIDE DEF k
  <2>4. hammer'[x] <= since'[x] + k
    BY <2>1, <2>3
  <2> QED  BY <2>2, <2>4 DEF k
<1>5. IInv'
  BY ActivateInv DEF HammerInv
<1> QED  BY <1>3, <1>4, <1>5 DEF HammerInv, HammerIsSplit

\* A reset forgets at most Limit activations of a row, its own refresh all of them.
LEMMA HammerRefresh == ASSUME HammerInv, AutoRefresh PROVE HammerInv'
<1>1. /\ since \in [Row -> Nat] /\ hammer \in [Row -> Nat] /\ ScheduleOK
      /\ \A x \in Row : since[x] <= Limit
  BY InvImpliesMitigated DEF HammerInv, IInv, CountersOK, ScheduleOK, MitigatedInTime
<1>2. /\ \A x \in Row : hammer'[x] = IF OwnRefresh(x) THEN 0 ELSE hammer[x]
      /\ IF curr_refresh_page' = 0 THEN since' = [r \in Row |-> 0] ELSE since' = since
      /\ hammer' \in [Row -> Nat] /\ since' \in [Row -> Nat]
  BY <1>1 DEF AutoRefresh, OwnRefresh
<1>3. ScheduleOK'
  BY <1>1, <1>2, NextCommand, HydraAssumption DEF ScheduleOK
<1>4. ASSUME NEW x \in Row PROVE hammer'[x] <= since'[x] + (ResetsSince(x)' * Limit)
  <2>1. ResetsSince(x) \in Nat /\ ResetsSince(x)' \in Nat /\ Limit \in Nat
    <3>1. ResetsSince(x) \in 0..num_ranks_per_mc
      BY <1>1, ResetsBounded
    <3>2. /\ OwnRefresh(x) => ResetsSince(x)' = 0
          /\ ~OwnRefresh(x) => ResetsSince(x)' = ResetsSince(x)
                                   + (IF curr_refresh_page' = 0 THEN 1 ELSE 0)
      BY <1>1, ResetsStep
    <3> QED  BY <3>1, <3>2, LimitFacts, HydraAssumption
  <2>2. hammer[x] <= since[x] + (ResetsSince(x) * Limit) /\ ResetsSince(x) * Limit \in Nat
    BY <2>1, OneMore DEF HammerInv, HammerIsSplit
  <2>3. CASE OwnRefresh(x)
    <3>1. ResetsSince(x)' * Limit \in Nat
      BY <2>1, OneMore
    <3> QED  BY <1>2, <2>3, <3>1
  <2>4. CASE ~OwnRefresh(x) /\ curr_refresh_page' = 0
    <3>1. ResetsSince(x)' = ResetsSince(x) + 1
      BY <1>1, <2>4, ResetsStep
    <3>2. ResetsSince(x)' * Limit = (ResetsSince(x) * Limit) + Limit
      BY <2>1, <3>1, OneMore
    <3> QED  BY <1>1, <1>2, <2>1, <2>2, <2>4, <3>2
  <2>5. CASE ~OwnRefresh(x) /\ curr_refresh_page' # 0
    <3>1. ResetsSince(x)' = ResetsSince(x)
      BY <1>1, <2>1, <2>5, ResetsStep
    <3> QED  BY <1>2, <2>2, <2>5, <3>1
  <2> QED  BY <2>3, <2>4, <2>5
<1>5. IInv'
  BY AutoRefreshInv DEF HammerInv
<1> QED  BY <1>3, <1>4, <1>5 DEF HammerInv, HammerIsSplit

(* No row is activated more than (ranks + 1) * Limit times between two refreshes of its    *)
(* neighbours, although the auto-refresh of every rank at page 0 resets the one tracker     *)
(* all ranks share.                                                                         *)
THEOREM NeighboursRefreshedInTime == Spec => []HammerBound
<1>1. HammerInv /\ [Next]_vars => HammerInv'
  <2> SUFFICES ASSUME HammerInv, [Next]_vars PROVE HammerInv'
    OBVIOUS
  <2>1. ASSUME NEW r \in Row, Activate(r) PROVE HammerInv'
    BY <2>1, HammerActivate
  <2>2. CASE UNCHANGED vars
    <3>1. IInv'
      BY <2>2, StepInv DEF HammerInv
    <3> QED  BY <2>2, <3>1 DEF vars, HammerInv, ScheduleOK, HammerIsSplit, ResetsSince,
                               ResetsSoFar, Refreshed
  <2> QED  BY <2>1, <2>2, HammerRefresh DEF Next
<1>2. HammerInv => HammerBound
  <2> SUFFICES ASSUME HammerInv, NEW r \in Row
               PROVE  hammer[r] <= (num_ranks_per_mc + 1) * Limit
    BY DEF HammerBound
  <2>1. /\ ResetsSince(r) \in Nat /\ ResetsSince(r) <= num_ranks_per_mc
        /\ num_ranks_per_mc \in Nat /\ Limit \in Nat
    BY ResetsBounded, HydraAssumption, LimitFacts DEF HammerInv
  <2>2. since[r] <= Limit /\ since[r] \in Nat /\ hammer[r] \in Nat
    BY InvImpliesMitigated DEF HammerInv, IInv, CountersOK, ScheduleOK, MitigatedInTime
  <2>3. /\ ResetsSince(r) * Limit <= num_ranks_per_mc * Limit
        /\ (num_ranks_per_mc + 1) * Limit = (num_ranks_per_mc * Limit) + Limit
        /\ ResetsSince(r) * Limit \in Nat /\ num_ranks_per_mc * Limit \in Nat
    BY <2>1, OneMore
  <2>4. hammer[r] <= since[r] + (ResetsSince(r) * Limit)
    BY DEF HammerInv, HammerIsSplit
  <2> QED  BY <2>1, <2>2, <2>3, <2>4
<1> QED  BY <1>1, <1>2, HammerInit, PTL DEF Spec
=======================================================================================
