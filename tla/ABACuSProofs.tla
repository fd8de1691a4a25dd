--------------------------------- MODULE ABACuSProofs ---------------------------------
(* Proofs about ABACuS for every table size, number of banks and rows, refresh schedule  *)
(* and thresholds with rct below prt.  The argument is one inductive invariant,          *)
(* ABACuS!IInv: a count the banks share is never behind the count of one of them.        *)
EXTENDS ABACuS, TLAPS

Entry == [row_id : Row, rac : Nat, sav : SUBSET Bank]

---------------------------------------------------------------------------------------
(* Thresholds, counts and histories *)

LEMMA ConstantFacts ==
    /\ RowZero \in Row
    /\ prt \in Nat /\ rct \in Nat /\ 0 < rct /\ rct < prt
    /\ num_entries \in Nat /\ num_refreshes \in Nat /\ 0 < num_refreshes
    /\ CountedRow \subseteq Watched /\ Watched \subseteq Row
    /\ \A r \in CountedRow : r \in Watched /\ r \in Row /\ r # RowZero
    /\ \A r \in Row : RefreshOf[r] \in 0..num_refreshes-1
BY ABACuSAssumption DEF CountedRow

LEMMA OwnRemainder == ASSUME NEW n \in Nat, 0 < n PROVE n % n = 0
<1>1. n = (n * (n \div n)) + (n % n) /\ n % n \in 0..n-1 /\ n \div n \in Nat
  OBVIOUS
<1>2. CASE n \div n = 0
  BY <1>1, <1>2
<1>3. CASE n \div n >= 1
  <2>1. n * (n \div n) >= n
    BY <1>1, <1>3
  <2> QED  BY <1>1, <2>1
<1> QED  BY <1>1, <1>2, <1>3

\* A count that has not passed prt asks for a preventive refresh when it has reached it.
LEMMA DueIs == ASSUME NEW n \in 0..prt PROVE Due(n) <=> n = prt
<1>1. prt \in Nat /\ prt > 0
  BY ConstantFacts
<1>2. prt % prt = 0
  BY <1>1, OwnRemainder
<1>3. n < prt => n % prt = n
  BY <1>1
<1> QED  BY <1>1, <1>2, <1>3 DEF Due

\* What the history is after an activation and after a mitigation.
LEMMA CountedIs ==
    ASSUME NEW acts \in [Bank -> [Watched -> Nat]], NEW b \in Bank, NEW r \in Row
    PROVE  /\ Counted(b, r, acts) \in [Bank -> [Watched -> Nat]]
           /\ \A c \in Bank, x \in Watched :
                  Counted(b, r, acts)[c][x] = IF c = b /\ x = r THEN acts[c][x] + 1
                                                                ELSE acts[c][x]
BY DEF Counted

LEMMA MitigatedIs ==
    ASSUME NEW acts \in [Bank -> [Watched -> Nat]], NEW r \in Row
    PROVE  /\ Mitigated(r, acts) \in [Bank -> [Watched -> Nat]]
           /\ \A c \in Bank, x \in Watched :
                  Mitigated(r, acts)[c][x] = IF x = r THEN 0 ELSE acts[c][x]
BY DEF Mitigated

LEMMA EmptyIs ==
    /\ EmptyTable \in [Index -> Entry]
    /\ \A i \in Index : /\ EmptyTable[i].row_id = RowZero
                        /\ EmptyTable[i].rac = 0 /\ EmptyTable[i].sav = {}
    /\ NoActs \in [Bank -> [Watched -> Nat]]
    /\ \A b \in Bank, r \in Watched : NoActs[b][r] = 0
BY ConstantFacts DEF EmptyTable, EmptyEntry, Entry, NoActs

\* What the invariant says of one entry, and of the activations of one row in one bank.
LEMMA UnderInv ==
    ASSUME IInv, NEW b \in Bank, NEW r \in CountedRow
    PROVE  since[b][r] \in Nat /\ since[b][r] < prt
<1>1. since[b][r] \in Nat /\ spillover \in 0..rct-1
  BY ConstantFacts DEF IInv, TypeOK
<1>2. CASE Found(r)
  <2>1. PICK i \in Index : entries[i].row_id = r
    BY <1>2 DEF Found
  <2>2. since[b][r] <= entries[i].rac /\ entries[i].rac < prt /\ entries[i].rac \in Nat
    <3>1. since[b][r] + (IF b \in entries[i].sav THEN 0 ELSE 1) <= entries[i].rac
      BY <2>1 DEF IInv, NeverUndercounts, TrackedBy
    <3>2. entries[i].rac < prt /\ entries[i].rac \in Nat
      BY DEF IInv, NeverUndercounts, OneEntryBelowPrt, TypeOK
    <3> QED  BY <1>1, <3>1, <3>2
  <2> QED  BY <1>1, <2>2, ConstantFacts
<1>3. CASE ~Found(r)
  <2>1. since[b][r] <= spillover
    BY <1>3 DEF IInv, NeverUndercounts
  <2> QED  BY <1>1, <2>1, ConstantFacts
<1> QED  BY <1>2, <1>3

BelowPrt == \A b \in Bank, r \in CountedRow : since[b][r] \in Nat /\ since[b][r] < prt

LEMMA UnderEverywhere == IInv => BelowPrt
BY UnderInv DEF BelowPrt

---------------------------------------------------------------------------------------
(* Reset tables undercount nothing, whatever the spillover counter is *)

LEMMA ResetCounts ==
    ASSUME entries' = EmptyTable, since' = NoActs, spillover' \in Nat
    PROVE  NeverUndercounts'
<1>1. OneEntryBelowPrt'
  BY ConstantFacts, EmptyIs DEF OneEntryBelowPrt
<1>2. \A b \in Bank, r \in CountedRow : /\ since'[b][r] = 0
                                        /\ \A i \in Index : ~TrackedBy(r, i)'
  BY ConstantFacts, EmptyIs DEF TrackedBy
<1> QED  BY <1>1, <1>2 DEF NeverUndercounts

LEMMA InitInv == Init => IInv
<1> SUFFICES ASSUME Init PROVE IInv
  OBVIOUS
<1>1. TypeOK
  BY ConstantFacts, EmptyIs DEF Init, TypeOK, Entry
<1>2. NeverUndercounts
  <2>1. OneEntryBelowPrt
    BY ConstantFacts, EmptyIs DEF Init, OneEntryBelowPrt
  <2>2. \A b \in Bank, r \in CountedRow : /\ since[b][r] = 0
                                          /\ \A i \in Index : ~TrackedBy(r, i)
    BY ConstantFacts, EmptyIs DEF Init, TrackedBy
  <2> QED  BY <2>1, <2>2 DEF Init, NeverUndercounts
<1>3. CycleForgets
  BY DEF Init, CycleForgets
<1>4. HammerIsSplit
  BY ConstantFacts, EmptyIs DEF Init, HammerIsSplit, Carried
<1> QED  BY <1>1, <1>2, <1>3, <1>4 DEF IInv

LEMMA RefreshCycleInv ==
    ASSUME IInv, RefreshCycle, UNCHANGED page, rh_swap' \subseteq Bank, rh_update' \subseteq Bank
    PROVE  IInv'
<1>1. TypeOK'
  BY ConstantFacts, EmptyIs DEF IInv, TypeOK, RefreshCycle, Entry
<1>2. NeverUndercounts'
  BY ResetCounts DEF RefreshCycle
<1>3. CycleForgets'
  BY DEF RefreshCycle, CycleForgets
<1>4. HammerIsSplit'
  BY ConstantFacts, EmptyIs DEF RefreshCycle, HammerIsSplit, Carried
<1> QED  BY <1>1, <1>2, <1>3, <1>4 DEF IInv

LEMMA ServeFlagsInv == ASSUME IInv, ServeFlags PROVE IInv'
<1>1. page' = page /\ rh_swap' = {} /\ rh_update' = {}
  BY DEF ServeFlags
<1>2. CASE rh_update # {}
  BY <1>1, <1>2, RefreshCycleInv DEF ServeFlags
<1>3. CASE rh_update = {}
  <2>1. entries' = entries /\ spillover' = spillover /\ since' = since /\ hammer' = hammer
    BY <1>3 DEF ServeFlags, tables
  <2> QED  BY <1>1, <2>1 DEF IInv, TypeOK, NeverUndercounts, OneEntryBelowPrt, Found,
              TrackedBy, CycleForgets, HammerIsSplit, Carried
<1> QED  BY <1>2, <1>3

LEMMA NextPage ==
    ASSUME NEW n \in Nat, 0 < n, NEW p \in 0..n-1
    PROVE  /\ (p + 1) % n \in 0..n-1
           /\ (p + 1) % n = 0 => p = n - 1
           /\ (p + 1) % n # 0 => (p + 1) % n = p + 1
<1>1. CASE p + 1 < n
  <2>1. (p + 1) % n = p + 1
    BY <1>1
  <2> QED  BY <1>1, <2>1
<1>2. CASE p + 1 = n
  <2>1. n % n = 0
    BY OwnRemainder
  <2> QED  BY <1>2, <2>1
<1> QED  BY <1>1, <1>2

\* The rows refreshed by this command start afresh; the others carry the window before.
LEMMA AutoRefreshInv == ASSUME IInv, AutoRefresh PROVE IInv'
<1>1. /\ spillover' = spillover /\ rh_swap' = rh_swap /\ rh_update' = rh_update
      /\ rh_update = {}
  BY DEF AutoRefresh, flags, FlagsServed
<1>2. /\ page \in 0..num_refreshes-1 /\ page' \in 0..num_refreshes-1
      /\ page' = 0 => page = num_refreshes - 1
      /\ page' # 0 => page' = page + 1
  <2>1. page \in 0..num_refreshes-1 /\ page' = (page + 1) % num_refreshes
    BY DEF IInv, TypeOK, AutoRefresh
  <2> QED  BY <2>1, NextPage, ConstantFacts
<1>3. \A b \in Bank, r \in CountedRow :
          /\ hammer[b][r] \in Nat /\ since[b][r] \in Nat
          /\ hammer[b][r] <= since[b][r] + Carried(r)
  BY ConstantFacts DEF IInv, TypeOK, HammerIsSplit
<1>4. \A b \in Bank, r \in Watched :
          hammer'[b][r] = IF RefreshOf[r] = page' THEN 0 ELSE hammer[b][r]
  BY DEF AutoRefresh
<1>5. hammer' \in [Bank -> [Watched -> Nat]]
  BY DEF AutoRefresh, IInv, TypeOK
<1>6. CASE page' = 0
  <2>1. entries' = EmptyTable /\ since' = NoActs
    BY <1>6 DEF AutoRefresh
  <2>2. TypeOK'
    BY <1>1, <1>2, <1>5, <2>1, EmptyIs DEF IInv, TypeOK, Entry
  <2>3. NeverUndercounts'
    <3>1. spillover' \in Nat
      BY <1>1, ConstantFacts DEF IInv, TypeOK
    <3> QED  BY <2>1, <3>1, ResetCounts
  <2>4. CycleForgets'
    BY <1>1 DEF CycleForgets
  <2>5. HammerIsSplit'
    <3>1. SUFFICES ASSUME NEW b \in Bank, NEW r \in CountedRow
                   PROVE  hammer'[b][r] <= since'[b][r] + Carried(r)'
      BY DEF HammerIsSplit
    <3>2. since'[b][r] = 0
      BY <2>1, EmptyIs, ConstantFacts
    <3>3. CASE RefreshOf[r] = 0
      BY <1>4, <1>6, <3>2, <3>3, ConstantFacts DEF Carried
    <3>4. CASE RefreshOf[r] # 0
      <4>1. RefreshOf[r] \in 1..num_refreshes-1 /\ Carried(r)' = prt - 1
        BY <1>6, <3>4, ConstantFacts DEF Carried
      <4>2. Carried(r) \in Nat /\ (page = num_refreshes - 1 => Carried(r) = 0)
        BY <4>1, ConstantFacts DEF Carried
      <4>3. Carried(r) = 0
        BY <1>2, <1>6, <4>2
      <4>4. hammer[b][r] <= since[b][r] /\ since[b][r] <= prt - 1
        <5>1. since[b][r] \in Nat /\ since[b][r] < prt
          BY UnderInv
        <5> QED  BY <1>3, <4>3, <5>1, ConstantFacts
      <4>5. hammer'[b][r] = hammer[b][r]
        BY <1>4, <1>6, <4>1, ConstantFacts
      <4> QED  BY <1>3, <3>2, <4>1, <4>4, <4>5, ConstantFacts
    <3> QED  BY <3>3, <3>4
  <2> QED  BY <2>2, <2>3, <2>4, <2>5 DEF IInv
<1>7. CASE page' # 0
  <2>1. entries' = entries /\ since' = since
    BY <1>7 DEF AutoRefresh
  <2>2. TypeOK'
    BY <1>1, <1>2, <1>5, <2>1 DEF IInv, TypeOK
  <2>3. NeverUndercounts' /\ CycleForgets'
    BY <1>1, <2>1 DEF IInv, NeverUndercounts, OneEntryBelowPrt, Found, TrackedBy, CycleForgets
  <2>4. HammerIsSplit'
    <3>1. SUFFICES ASSUME NEW b \in Bank, NEW r \in CountedRow
                   PROVE  hammer'[b][r] <= since'[b][r] + Carried(r)'
      BY DEF HammerIsSplit
    <3>2. Carried(r)' \in Nat
      BY ConstantFacts DEF Carried
    <3>3. CASE RefreshOf[r] = page'
      BY <1>3, <1>4, <2>1, <3>2, <3>3, ConstantFacts
    <3>4. CASE RefreshOf[r] # page'
      <4>1. Carried(r)' = Carried(r)
        BY <1>2, <1>7, <3>4, ConstantFacts DEF Carried
      <4>2. hammer'[b][r] = hammer[b][r]
        BY <1>4, <3>4, ConstantFacts
      <4> QED  BY <1>3, <2>1, <4>1, <4>2
    <3> QED  BY <3>3, <3>4
  <2> QED  BY <2>2, <2>3, <2>4 DEF IInv
<1> QED  BY <1>6, <1>7

---------------------------------------------------------------------------------------
(* An activation *)

\* The history grows by one activation, and forgets at most the row that is refreshed.
LEMMA HistoryStep ==
    ASSUME IInv, NEW b \in Bank, NEW r \in Row, UNCHANGED page,
           \/ since' = Counted(b, r, since) /\ hammer' = Counted(b, r, hammer)
           \/ since' = Mitigated(r, since) /\ hammer' = Mitigated(r, hammer)
    PROVE  /\ since' \in [Bank -> [Watched -> Nat]] /\ hammer' \in [Bank -> [Watched -> Nat]]
           /\ HammerIsSplit'
<1>1. since \in [Bank -> [Watched -> Nat]] /\ hammer \in [Bank -> [Watched -> Nat]]
  BY DEF IInv, TypeOK
<1>2. /\ Counted(b, r, since) \in [Bank -> [Watched -> Nat]]
      /\ Counted(b, r, hammer) \in [Bank -> [Watched -> Nat]]
      /\ Mitigated(r, since) \in [Bank -> [Watched -> Nat]]
      /\ Mitigated(r, hammer) \in [Bank -> [Watched -> Nat]]
  BY <1>1, CountedIs, MitigatedIs
<1>3. ASSUME NEW c \in Bank, NEW x \in CountedRow
      PROVE  hammer'[c][x] <= since'[c][x] + Carried(x)'
  <2>1. /\ Carried(x)' = Carried(x) /\ Carried(x) \in Nat
        /\ hammer[c][x] \in Nat /\ since[c][x] \in Nat
        /\ hammer[c][x] <= since[c][x] + Carried(x)
    BY <1>1, ConstantFacts DEF Carried, IInv, HammerIsSplit
  <2>2. CASE since' = Counted(b, r, since) /\ hammer' = Counted(b, r, hammer)
    <3>1. since'[c][x] = IF c = b /\ x = r THEN since[c][x] + 1 ELSE since[c][x]
      <4>1. Counted(b, r, since)[c][x] = IF c = b /\ x = r THEN since[c][x] + 1 ELSE since[c][x]
        BY ConstantFacts DEF Counted
      <4> QED  BY <2>2, <4>1
    <3>2. hammer'[c][x] = IF c = b /\ x = r THEN hammer[c][x] + 1 ELSE hammer[c][x]
      <4>1. Counted(b, r, hammer)[c][x] = IF c = b /\ x = r THEN hammer[c][x] + 1 ELSE hammer[c][x]
        BY ConstantFacts DEF Counted
      <4> QED  BY <2>2, <4>1
    <3> QED  BY <2>1, <3>1, <3>2
  <2>3. CASE since' = Mitigated(r, since) /\ hammer' = Mitigated(r, hammer)
    <3>1. \/ since'[c][x] = 0 /\ hammer'[c][x] = 0
          \/ since'[c][x] = since[c][x] /\ hammer'[c][x] = hammer[c][x]
      BY <1>1, <2>3, MitigatedIs, ConstantFacts
    <3> QED  BY <2>1, <3>1
  <2> QED  BY <2>2, <2>3
<1> QED  BY <1>2, <1>3 DEF HammerIsSplit

LEMMA FoundInv ==
    ASSUME IInv, NEW b \in Bank, NEW r \in Row, NEW i \in Index,
           FlagsServed, UNCHANGED page, Hit(r, i), CountFound(b, r, i)
    PROVE  IInv'
<1> DEFINE new == Joined(entries[i], b)
           due == Due(new.rac)
<1>1. /\ entries \in [Index -> Entry] /\ spillover \in 0..rct-1
      /\ since \in [Bank -> [Watched -> Nat]]
      /\ OneEntryBelowPrt /\ entries[i].row_id = r
      /\ entries[i].rac \in Nat /\ entries[i].rac < prt
  BY DEF IInv, TypeOK, Entry, NeverUndercounts, OneEntryBelowPrt, Hit
<1>2. /\ entries' = [entries EXCEPT ![i] =
                        IF due THEN [new EXCEPT !.rac = spillover + 1, !.sav = {}] ELSE new]
      /\ rh_swap' = IF due THEN rh_swap \cup {b} ELSE rh_swap
      /\ IF due THEN since' = Mitigated(r, since) /\ hammer' = Mitigated(r, hammer)
                ELSE since' = Counted(b, r, since) /\ hammer' = Counted(b, r, hammer)
      /\ spillover' = spillover /\ rh_update' = rh_update
  BY DEF CountFound, Restart
<1>3. /\ new.row_id = r /\ new \in Entry /\ new.rac \in 0..prt
      /\ IF b \in entries[i].sav THEN new.rac = entries[i].rac + 1 /\ new.sav = {b}
                                 ELSE /\ new.rac = entries[i].rac
                                      /\ new.sav = entries[i].sav \cup {b}
  <2>1. entries[i] \in Entry /\ entries[i].sav \subseteq Bank
    BY <1>1 DEF Entry
  <2>2. CASE b \in entries[i].sav
    <3>1. new = [row_id |-> r, rac |-> entries[i].rac + 1, sav |-> {b}]
      BY <1>1, <2>1, <2>2 DEF Joined, Entry
    <3> HIDE DEF new
    <3> QED  BY <1>1, <2>1, <2>2, <3>1, ConstantFacts DEF Entry
  <2>3. CASE b \notin entries[i].sav
    <3>1. new = [row_id |-> r, rac |-> entries[i].rac, sav |-> entries[i].sav \cup {b}]
      BY <1>1, <2>1, <2>3 DEF Joined, Entry
    <3> HIDE DEF new
    <3> QED  BY <1>1, <2>1, <2>3, <3>1, ConstantFacts DEF Entry
  <2> QED  BY <2>2, <2>3
<1>4. due <=> new.rac = prt
  BY <1>3, DueIs
<1> HIDE DEF new, due
<1>5. /\ entries' \in [Index -> Entry] /\ \A j \in Index \ {i} : entries'[j] = entries[j]
      /\ entries'[i].row_id = r /\ entries'[i].rac < prt
      /\ IF due THEN entries'[i].rac = spillover + 1 /\ entries'[i].sav = {}
                ELSE entries'[i] = new
  <2>1. CASE due
    <3>1. entries' = [entries EXCEPT ![i] = [new EXCEPT !.rac = spillover + 1, !.sav = {}]]
      BY <1>2, <2>1
    <3>2. spillover + 1 \in Nat /\ spillover + 1 < prt
      BY <1>1, ConstantFacts
    <3> QED  BY <1>1, <1>3, <2>1, <3>1, <3>2 DEF Entry
  <2>2. CASE ~due
    <3>1. entries' = [entries EXCEPT ![i] = new]
      BY <1>2, <2>2
    <3>2. new.rac < prt
      BY <1>3, <1>4, <2>2, ConstantFacts
    <3> QED  BY <1>1, <1>3, <2>2, <3>1, <3>2
  <2> QED  BY <2>1, <2>2
<1>6. since' \in [Bank -> [Watched -> Nat]] /\ hammer' \in [Bank -> [Watched -> Nat]]
      /\ HammerIsSplit'
  BY <1>2, HistoryStep
<1>7. TypeOK'
  BY <1>2, <1>5, <1>6 DEF IInv, TypeOK, Entry
<1>8. CycleForgets'
  BY <1>2 DEF CycleForgets, FlagsServed
<1>9. OneEntryBelowPrt'
  <2>1. \A j \in Index : entries'[j].row_id = entries[j].row_id /\ entries'[j].rac < prt
    BY <1>1, <1>5 DEF OneEntryBelowPrt
  <2> QED  BY <1>1, <2>1 DEF OneEntryBelowPrt
<1>10. ASSUME NEW c \in Bank, NEW x \in CountedRow
       PROVE  /\ ~Found(x)' => since'[c][x] <= spillover'
              /\ \A j \in Index : TrackedBy(x, j)' =>
                     since'[c][x] + (IF c \in entries'[j].sav THEN 0 ELSE 1) <= entries'[j].rac
  <2>1. /\ ~Found(x) => since[c][x] <= spillover
        /\ \A j \in Index : entries[j].row_id = x =>
               since[c][x] + (IF c \in entries[j].sav THEN 0 ELSE 1) <= entries[j].rac
        /\ since[c][x] \in Nat /\ x \in Watched /\ x # RowZero
    BY <1>1, ConstantFacts DEF IInv, NeverUndercounts, TrackedBy
  <2>2. \A j \in Index : entries'[j].row_id = entries[j].row_id
    BY <1>1, <1>5
  <2>3. CASE x # r
    <3>1. since'[c][x] = since[c][x]
      BY <1>1, <1>2, <2>1, <2>3, CountedIs, MitigatedIs
    <3>2. \A j \in Index : TrackedBy(x, j)' => entries'[j] = entries[j]
      BY <1>5, <2>3 DEF TrackedBy
    <3> QED  BY <1>2, <2>1, <2>2, <3>1, <3>2 DEF Found, TrackedBy
  <2>4. CASE x = r
    <3>1. Found(x)' /\ \A j \in Index : TrackedBy(x, j)' => j = i
      BY <1>1, <1>5, <2>1, <2>2, <2>4 DEF Found, TrackedBy, OneEntryBelowPrt
    <3>2. since'[c][x] + (IF c \in entries'[i].sav THEN 0 ELSE 1) <= entries'[i].rac
      <4>1. CASE due
        <5>1. since'[c][x] = 0
          BY <1>1, <1>2, <2>1, <2>4, <4>1, MitigatedIs
        <5> QED  BY <1>1, <1>5, <4>1, <5>1, ConstantFacts
      <4>2. CASE ~due
        <5>1. since'[c][x] = IF c = b THEN since[c][x] + 1 ELSE since[c][x]
          BY <1>1, <1>2, <2>1, <2>4, <4>2, CountedIs
        <5>2. since[c][x] + (IF c \in entries[i].sav THEN 0 ELSE 1) <= entries[i].rac
          BY <1>1, <2>1, <2>4
        <5>3. CASE c = b
          BY <1>1, <1>3, <1>5, <2>1, <4>2, <5>1, <5>2, <5>3
        <5>4. CASE c # b
          BY <1>1, <1>3, <1>5, <2>1, <4>2, <5>1, <5>2, <5>4
        <5> QED  BY <5>3, <5>4
      <4> QED  BY <4>1, <4>2
    <3> QED  BY <3>1, <3>2
  <2> QED  BY <2>3, <2>4
<1>11. NeverUndercounts'
  BY <1>9, <1>10 DEF NeverUndercounts
<1> QED  BY <1>6, <1>7, <1>8, <1>11 DEF IInv

\* The row is not found and no refresh cycle is due: it takes over entry i, or raises
\* the spillover counter.
LEMMA MissedInv ==
    ASSUME IInv, NEW b \in Bank, NEW r \in Row, NEW i \in Index,
           FlagsServed, UNCHANGED page, ~Found(r), Lowest(i), CountMissed(b, r, i)
    PROVE  IInv'
<1> DEFINE lowest  == entries[i].rac
           replace == lowest = spillover
           spill   == IF replace THEN spillover ELSE spillover + 1
           new     == IF replace THEN [row_id |-> r, rac |-> spill + 1, sav |-> {b}]
                                 ELSE entries[i]
<1>1. /\ entries \in [Index -> Entry] /\ spillover \in 0..rct-1
      /\ since \in [Bank -> [Watched -> Nat]]
      /\ OneEntryBelowPrt
      /\ lowest \in Nat /\ lowest < prt
  BY DEF IInv, TypeOK, Entry, NeverUndercounts, OneEntryBelowPrt
<1>2. CASE CycleDue(lowest, spill)
  <2>1. RefreshCycle /\ rh_update' = rh_update \cup {b} /\ rh_swap' = rh_swap
    BY <1>2 DEF CountMissed
  <2>2. rh_swap' \subseteq Bank /\ rh_update' \subseteq Bank
    BY <2>1 DEF IInv, TypeOK
  <2> QED  BY <2>1, <2>2, RefreshCycleInv
<1>3. CASE ~CycleDue(lowest, spill)
  <2>1. /\ entries' = [entries EXCEPT ![i] = new]
        /\ spillover' = spill /\ rh_swap' = rh_swap /\ rh_update' = rh_update
        /\ since' = Counted(b, r, since) /\ hammer' = Counted(b, r, hammer)
    <3>1. lowest # prt
      BY <1>1, ConstantFacts
    <3> QED  BY <1>3, <3>1 DEF CountMissed
  <2>2. lowest >= spillover /\ spill # rct /\ spill \in 0..rct-1 /\ spillover <= spill
    <3>1. ~(lowest < spillover) /\ spill # rct
      BY <1>3 DEF CycleDue
    <3>2. spill \in 0..rct
      BY <1>1, ConstantFacts
    <3> QED  BY <1>1, <3>1, <3>2, ConstantFacts
  <2>3. new \in Entry /\ new.rac < prt
    <3>1. CASE replace
      BY <1>1, <3>1, ConstantFacts DEF Entry
    <3>2. CASE ~replace
      BY <1>1, <3>2
    <3> QED  BY <3>1, <3>2
  <2>4. /\ entries' \in [Index -> Entry] /\ \A j \in Index \ {i} : entries'[j] = entries[j]
        /\ entries'[i] = new
    BY <1>1, <2>1, <2>3
  <2>5. /\ replace => new.row_id = r /\ new.rac = spillover + 1 /\ new.sav = {b}
        /\ ~replace => new = entries[i]
    BY <1>1
  <2>6. replace \/ spill = spillover + 1
    OBVIOUS
  <2> HIDE DEF new, spill
  <2>7. since' \in [Bank -> [Watched -> Nat]] /\ hammer' \in [Bank -> [Watched -> Nat]]
        /\ HammerIsSplit'
    BY <2>1, HistoryStep
  <2>8. TypeOK' /\ CycleForgets'
    BY <2>1, <2>2, <2>4, <2>7 DEF IInv, TypeOK, Entry, CycleForgets, FlagsServed
  <2>9. \A j \in Index : entries[j].row_id # r
    BY DEF Found
  <2>10. OneEntryBelowPrt'
    <3>1. \A j \in Index : entries'[j].rac < prt
      BY <1>1, <2>3, <2>4 DEF OneEntryBelowPrt
    <3>2. ASSUME NEW j \in Index, NEW k \in Index, j # k, entries'[j].row_id # RowZero
          PROVE  entries'[j].row_id # entries'[k].row_id
      BY <1>1, <2>4, <2>5, <2>9, <3>2 DEF OneEntryBelowPrt
    <3> QED  BY <3>1, <3>2 DEF OneEntryBelowPrt
  <2>11. ASSUME NEW c \in Bank, NEW x \in CountedRow
         PROVE  /\ ~Found(x)' => since'[c][x] <= spillover'
                /\ \A j \in Index : TrackedBy(x, j)' =>
                       since'[c][x] + (IF c \in entries'[j].sav THEN 0 ELSE 1)
                           <= entries'[j].rac
    <3>1. /\ ~Found(x) => since[c][x] <= spillover
          /\ \A j \in Index : entries[j].row_id = x =>
                 since[c][x] + (IF c \in entries[j].sav THEN 0 ELSE 1) <= entries[j].rac
          /\ since[c][x] \in Nat /\ x \in Watched /\ x # RowZero
      BY <1>1, ConstantFacts DEF IInv, NeverUndercounts, TrackedBy
    <3>2. since'[c][x] = IF c = b /\ x = r THEN since[c][x] + 1 ELSE since[c][x]
      <4>1. Counted(b, r, since)[c][x] = IF c = b /\ x = r THEN since[c][x] + 1
                                                           ELSE since[c][x]
        BY ConstantFacts DEF Counted
      <4> QED  BY <2>1, <4>1
    <3>3. \A j \in Index : entries[j].rac \in Nat /\ entries'[j].rac \in Nat
      BY <1>1, <2>4 DEF Entry
    <3>4. CASE x # r
      <4>1. \A j \in Index : TrackedBy(x, j)' => entries'[j] = entries[j]
        BY <2>4, <2>5, <3>4 DEF TrackedBy
      <4>2. ~Found(x)' => since'[c][x] <= spillover'
        <5>1. CASE ~Found(x)
          BY <1>1, <2>1, <2>2, <3>1, <3>2, <3>4, <5>1
        <5>2. CASE Found(x) /\ ~Found(x)'
          <6>1. entries[i].row_id = x /\ replace
            BY <2>4, <2>5, <5>2 DEF Found
          <6>2. since[c][x] <= spillover
            BY <1>1, <3>1, <6>1
          <6> QED  BY <1>1, <2>1, <2>2, <3>1, <3>2, <3>4, <6>2
        <5> QED  BY <5>1, <5>2
      <4> QED  BY <3>1, <3>2, <3>4, <4>1, <4>2 DEF TrackedBy
    <3>5. CASE x = r
      <4>1. since[c][x] <= spillover
        BY <3>1, <3>5
      <4>2. CASE replace
        <5>1. Found(x)' /\ \A j \in Index : TrackedBy(x, j)' => j = i
          BY <2>4, <2>5, <2>9, <3>5, <4>2 DEF Found, TrackedBy
        <5>2. since'[c][x] + (IF c \in entries'[i].sav THEN 0 ELSE 1) <= entries'[i].rac
          BY <1>1, <2>4, <2>5, <3>1, <3>2, <3>5, <4>1, <4>2
        <5> QED  BY <5>1, <5>2
      <4>3. CASE ~replace
        <5>1. \A j \in Index : ~TrackedBy(x, j)'
          BY <2>4, <2>5, <2>9, <3>5, <4>3 DEF TrackedBy
        <5>2. since'[c][x] <= spillover'
          BY <1>1, <2>1, <2>6, <3>1, <3>2, <4>1, <4>3
        <5> QED  BY <5>1, <5>2
      <4> QED  BY <4>2, <4>3
    <3> QED  BY <3>4, <3>5
  <2>12. NeverUndercounts'
    BY <2>10, <2>11 DEF NeverUndercounts
  <2> QED  BY <2>7, <2>8, <2>12 DEF IInv
<1> QED  BY <1>2, <1>3

LEMMA ActivateInv ==
    ASSUME IInv, NEW b \in Bank, NEW r \in Row, Activate(b, r) PROVE IInv'
<1>1. FlagsServed /\ page' = page
  BY DEF Activate
<1>2. PICK i \in Index : IF Found(r) THEN Hit(r, i) /\ CountFound(b, r, i)
                                     ELSE Lowest(i) /\ CountMissed(b, r, i)
  BY DEF Activate
<1>3. CASE Found(r)
  BY <1>1, <1>2, <1>3, FoundInv
<1>4. CASE ~Found(r)
  BY <1>1, <1>2, <1>4, MissedInv
<1> QED  BY <1>3, <1>4

LEMMA StepInv == IInv /\ [Next]_vars => IInv'
<1> SUFFICES ASSUME IInv, [Next]_vars PROVE IInv'
  OBVIOUS
<1>1. CASE ServeFlags
  BY <1>1, ServeFlagsInv
<1>2. CASE AutoRefresh
  BY <1>2, AutoRefreshInv
<1>3. ASSUME NEW b \in Bank, NEW r \in Row, Activate(b, r) PROVE IInv'
  BY <1>3, ActivateInv
<1>4. CASE UNCHANGED vars
  BY <1>4 DEF vars, IInv, TypeOK, NeverUndercounts, OneEntryBelowPrt, Found, TrackedBy,
              CycleForgets, HammerIsSplit, Carried
<1> QED  BY <1>1, <1>2, <1>3, <1>4 DEF Next

---------------------------------------------------------------------------------------
(* The theorems *)

(* In every reachable state the shared counts are ahead of every bank, and the history   *)
(* since the last auto-refresh splits into this window and the one before.               *)
THEOREM Invariance == Spec => []IInv
<1>1. Init => IInv
  BY InitInv
<1>2. IInv /\ [Next]_vars => IInv'
  BY StepInv
<1> QED  BY <1>1, <1>2, PTL DEF Spec

(* ABACuS::activate() never undercounts a row other than row 0 in any bank, whatever     *)
(* banks activate it, in any order of evictions, refresh cycles and resets.              *)
THEOREM SharedCountersAreSafe == Spec => []NeverUndercounts
<1>1. IInv => NeverUndercounts
  BY DEF IInv
<1> QED  BY <1>1, Invariance, PTL

(* No row other than row 0 is activated N_RH times in a bank between two refreshes of    *)
(* its neighbours, although periodic_refresh() forgets the counts once per window.       *)
THEOREM NeighboursRefreshedInTime == Spec => []BelowNRH
<1>1. IInv => BelowNRH
  <2>1. SUFFICES ASSUME IInv, NEW b \in Bank, NEW r \in CountedRow
                 PROVE  hammer[b][r] < 2 * prt
    BY DEF BelowNRH
  <2>2. since[b][r] \in Nat /\ since[b][r] < prt
    BY <2>1, UnderInv
  <2>3. hammer[b][r] \in Nat /\ hammer[b][r] <= since[b][r] + Carried(r)
    BY <2>1, ConstantFacts DEF IInv, TypeOK, HammerIsSplit
  <2>4. Carried(r) \in 0..prt-1
    BY ConstantFacts DEF Carried
  <2> QED  BY <2>2, <2>3, <2>4, ConstantFacts
<1> QED  BY <1>1, Invariance, PTL

(* The refresh_cycle() that process_event() runs for a refresh cycle activate() has     *)
(* already begun changes nothing and forgets no activation.                             *)
THEOREM SecondCycleIsIdle == Spec => NothingDiscarded
<1>1. IInv /\ [Next]_vars => [ServeFlags => UNCHANGED <<tables, since>>]_vars
  <2> SUFFICES ASSUME IInv, ServeFlags PROVE UNCHANGED <<tables, since>>
    OBVIOUS
  <2>1. CASE rh_update # {}
    BY <2>1 DEF ServeFlags, RefreshCycle, IInv, CycleForgets, tables
  <2>2. CASE rh_update = {}
    BY <2>2 DEF ServeFlags, tables
  <2> QED  BY <2>1, <2>2
<1> QED  BY <1>1, Invariance, PTL DEF Spec, NothingDiscarded

\* What an activation makes of the history.
LEMMA ActivateHistory ==
    ASSUME IInv, NEW b \in Bank, NEW r \in Row, Activate(b, r)
    PROVE  \/ since' = Counted(b, r, since)
           \/ since' = Mitigated(r, since)
           \/ since' = NoActs
<1>1. PICK i \in Index : IF Found(r) THEN Hit(r, i) /\ CountFound(b, r, i)
                                     ELSE Lowest(i) /\ CountMissed(b, r, i)
  BY DEF Activate
<1>2. CASE Found(r)
  BY <1>1, <1>2 DEF CountFound
<1>3. CASE ~Found(r)
  <2>1. entries[i].rac # prt
    <3>1. entries[i].rac \in Nat /\ entries[i].rac < prt
      BY DEF IInv, TypeOK, NeverUndercounts, OneEntryBelowPrt
    <3> QED  BY <3>1, ConstantFacts
  <2> QED  BY <1>1, <1>3, <2>1 DEF CountMissed, RefreshCycle
<1> QED  BY <1>2, <1>3

(* ABACuS implements the abstract tracker for the rows of every bank but row 0: each      *)
(* activation, preventive refresh and refresh cycle is a step the abstract tracker allows. *)
THEOREM Implementation == Spec => KeepsPromise
<1> DEFINE Pairs == Bank \X CountedRow
<1>1. Init => Promise!Init
  <2> SUFFICES ASSUME Init PROVE CountedActs = [x \in Pairs |-> 0]
    BY DEF Promise!Init
  <2>1. \A x \in Pairs : since[x[1]][x[2]] = 0
    BY EmptyIs, ConstantFacts DEF Init
  <2> QED  BY <2>1 DEF CountedActs
<1>2. IInv /\ IInv' /\ [Next]_vars => [Promise!Next]_CountedActs
  <2> SUFFICES ASSUME IInv, IInv', [Next]_vars PROVE [Promise!Next]_CountedActs
    OBVIOUS
  <2>1. ASSUME since' = since PROVE CountedActs' = CountedActs
    BY <2>1 DEF CountedActs
  <2>2. ASSUME since' = NoActs PROVE Promise!Next
    <3>1. \A x \in Pairs : since'[x[1]][x[2]] = 0
      BY <2>2, EmptyIs, ConstantFacts
    <3>2. CountedActs' = [x \in Pairs |-> IF x \in Pairs THEN 0 ELSE CountedActs[x]]
      BY <3>1 DEF CountedActs
    <3> HIDE DEF Pairs
    <3>3. \E S \in SUBSET Pairs :
              CountedActs' = [x \in Pairs |-> IF x \in S THEN 0 ELSE CountedActs[x]]
      BY <3>2
    <3> QED  BY <3>3 DEF Promise!Next, Promise!Refresh, Pairs
  <2>3. ASSUME NEW b \in Bank, NEW r \in Row, Activate(b, r)
        PROVE  [Promise!Next]_CountedActs
    <3>1. since \in [Bank -> [Watched -> Nat]]
      BY DEF IInv, TypeOK
    <3>2. CASE since' = NoActs
      BY <2>2, <3>2
    <3>3. CASE r \notin CountedRow /\ since' # NoActs
      <4>1. \/ since' = Counted(b, r, since)
            \/ since' = Mitigated(r, since)
        BY <2>3, <3>3, ActivateHistory
      <4>2. \A c \in Bank, x \in CountedRow : since'[c][x] = since[c][x]
        BY <3>3, <4>1, ConstantFacts DEF Counted, Mitigated
      <4>3. CountedActs' = CountedActs
        BY <4>2 DEF CountedActs
      <4> QED  BY <4>3
    <3>4. CASE r \in CountedRow /\ since' # NoActs
      <4>1. <<b, r>> \in Pairs
        BY <3>4
      <4>2. CountedActs'[<<b, r>>] <= prt - 1
        <5>1. since'[b][r] \in Nat /\ since'[b][r] < prt
          <6>1. BelowPrt'
            BY UnderEverywhere, PTL
          <6> QED  BY <3>4, <6>1 DEF BelowPrt
        <5> QED  BY <4>1, <5>1, ConstantFacts DEF CountedActs
      <4>3. \E S \in SUBSET Pairs :
                CountedActs' = [x \in Pairs |-> IF x \in S THEN 0
                                                ELSE IF x = <<b, r>> THEN CountedActs[x] + 1
                                                ELSE CountedActs[x]]
        <5>1. CASE since' = Counted(b, r, since)
          <6>1. \A x \in Pairs : since'[x[1]][x[2]] = IF x = <<b, r>> THEN since[x[1]][x[2]] + 1
                                                      ELSE since[x[1]][x[2]]
            BY <5>1, ConstantFacts DEF Counted
          <6>2. CountedActs' = [x \in Pairs |-> IF x \in {} THEN 0
                                                ELSE IF x = <<b, r>> THEN CountedActs[x] + 1
                                                ELSE CountedActs[x]]
            BY <6>1 DEF CountedActs
          <6> HIDE DEF Pairs
          <6>3. {} \in SUBSET Pairs
            OBVIOUS
          <6> QED  BY <6>2, <6>3, Zenon
        <5>2. CASE since' = Mitigated(r, since)
          <6>1. \A x \in Pairs : since'[x[1]][x[2]] = IF x \in Bank \X {r} THEN 0
                                                      ELSE since[x[1]][x[2]]
            BY <5>2, ConstantFacts DEF Mitigated
          <6>2. CountedActs' = [x \in Pairs |-> IF x \in Bank \X {r} THEN 0
                                                ELSE IF x = <<b, r>> THEN CountedActs[x] + 1
                                                ELSE CountedActs[x]]
            BY <6>1 DEF CountedActs
          <6>3. Bank \X {r} \in SUBSET Pairs
            BY <3>4
          <6> HIDE DEF Pairs
          <6> QED  BY <6>2, <6>3, Zenon
        <5> QED  BY <2>3, <3>4, <5>1, <5>2, ActivateHistory
      <4>4. Promise!Activate(<<b, r>>)
        BY <4>2, <4>3 DEF Promise!Activate
      <4> QED  BY <4>1, <4>4 DEF Promise!Next
    <3> QED  BY <3>2, <3>3, <3>4
  <2>4. CASE ServeFlags
    <3>1. since' = since \/ since' = NoActs
      BY <2>4 DEF ServeFlags, RefreshCycle
    <3> QED  BY <2>1, <2>2, <3>1
  <2>5. CASE AutoRefresh
    <3>1. since' = since \/ since' = NoActs
      BY <2>5 DEF AutoRefresh
    <3> QED  BY <2>1, <2>2, <3>1
  <2>6. CASE UNCHANGED vars
    BY <2>1, <2>6 DEF vars
  <2> QED  BY <2>3, <2>4, <2>5, <2>6 DEF Next
<1> QED  BY <1>1, <1>2, Invariance, PTL DEF Spec, KeepsPromise, Promise!Spec
=======================================================================================
