---------------------------- MODULE MemoryControllerProofs ----------------------------
(* Proofs about MemoryController for every topology, set of timings and mix of requests. *)
(* The invariant carries, for each bank, what is left of its stalls: they end before the *)
(* bank may be activated, because action_time was put off by as much.                    *)
EXTENDS MemoryController, SequenceTheorems, TLAPS

\* Periods are positive, and a bank names a rank and a bank group.
LEMMA ConstantFacts ==
    /\ Period \in Nat \ {0} /\ Cycle \in Nat \ {0}
    /\ Bank \subseteq Rank \X Int
    /\ \A b \in Bank : b[1] \in Rank /\ GroupOf(b) \in Group
    /\ 0 \in Rank /\ Rank \subseteq Nat
<1>1. Period \in Nat \ {0} /\ clearing_interval \in Nat \ {0}
  BY TopologyAssumption
<1>2. Period * clearing_interval \in Nat \ {0}
  BY <1>1
<1>3. Cycle \in Nat \ {0}
  BY <1>1, <1>2 DEF Cycle
<1>4. ASSUME NEW b \in Bank PROVE b[1] \in Rank /\ GroupOf(b) \in Group
  <2>1. b[1] \in Rank /\ b[2] \in 0..num_banks_per_rank-1
    BY DEF Bank
  <2>2. b[2] \in Nat /\ num_bank_groups \in Nat \ {0}
    BY <2>1, TopologyAssumption
  <2>3. b[2] % num_bank_groups \in 0..num_bank_groups-1
    BY <2>2
  <2> QED  BY <2>1, <2>3 DEF GroupOf, Group
<1>5. Bank \subseteq Rank \X Int
  BY TopologyAssumption DEF Bank
<1>6. 0 \in Rank /\ Rank \subseteq Nat
  BY TopologyAssumption DEF Rank
<1> QED  BY <1>1, <1>3, <1>4, <1>5, <1>6

\* The timings that stalls are made of are natural numbers.
LEMMA TimingFacts ==
    /\ Old \in Nat /\ OldBus \in Nat
    /\ tRP \in Nat /\ tRFC_t \in Nat /\ tRFC_t - tRP \in Nat
    /\ tRTP \in Nat /\ tWTP \in Nat
    /\ \A m \in Modes : Service[m] \in Nat
    /\ "bank" \in Modes /\ "rank" \in Modes
BY TimingAssumption DEF Timings, Modes

\* An age grows, by one at most, and stays within its bound.
LEMMA OlderFacts ==
    ASSUME NEW old \in Nat, NEW a \in Int, a <= old
    PROVE  /\ Older(a, old) \in Int /\ Older(a, old) <= old
           /\ a <= Older(a, old) /\ Older(a, old) <= a + 1
BY DEF Older

\* What a bank keeps of a stall is all or nothing.
LEMMA KeptType ==
    ASSUME TypeOK
    PROVE  /\ Kept \in [Bank -> Nat]
           /\ \A b \in Bank : Kept[b] = IF Forfeits(b) THEN 0 ELSE busy[b]
BY DEF TypeOK, Kept

\* Time keeps the types of what a pass leaves.
LEMMA ElapseType ==
    ASSUME TypeOK, NEW B \in [Bank -> BankStatus], NEW s \in BusStatus,
           NEW stall \in [Bank -> Nat], Elapse(B, s, stall)
    PROVE  /\ <<mode', policy'>> \in Setups
           /\ now' \in 0..Cycle-1
           /\ bank' \in [Bank -> BankStatus]
           /\ bus' \in BusStatus
           /\ busy' \in [Bank -> Nat]
<1>1. <<mode', policy'>> \in Setups
  BY DEF TypeOK, Elapse
<1>2. now' \in 0..Cycle-1
  <2>1. now + 1 \in Nat /\ Cycle \in Nat \ {0}
    BY ConstantFacts DEF TypeOK
  <2>2. (now + 1) % Cycle \in 0..Cycle-1
    BY <2>1
  <2> QED  BY <2>2 DEF Elapse
<1>3. ASSUME NEW b \in Bank
      PROVE  [B[b] EXCEPT !.age = Older(@, Old), !.act = Older(@, Old)] \in BankStatus
  <2>1. B[b] \in BankStatus
    OBVIOUS
  <2>2. B[b].age \in Int /\ B[b].age <= Old /\ B[b].act \in 0..Old
    BY <2>1 DEF BankStatus
  <2>3. Older(B[b].age, Old) \in Int /\ Older(B[b].age, Old) <= Old
    BY <2>2, OlderFacts, TimingFacts
  <2>4. Older(B[b].act, Old) \in 0..Old
    BY <2>2, TimingFacts DEF Older
  <2> QED  BY <2>1, <2>3, <2>4 DEF BankStatus
<1>4. bank' \in [Bank -> BankStatus]
  BY <1>3 DEF Elapse
<1>5. ASSUME NEW X, NEW f \in [X -> BusAges] PROVE AllOlder(f) \in [X -> BusAges]
  BY TimingFacts DEF AllOlder, Older, BusAges
<1>6. bus' \in BusStatus
  <2>1. /\ s.act \in [Rank -> BusAges] /\ s.rd \in [Rank -> BusAges]
        /\ s.wr \in [Rank -> BusAges] /\ s.col \in [Rank \X Group -> BusAges]
    BY DEF BusStatus
  <2>2. /\ AllOlder(s.act) \in [Rank -> BusAges] /\ AllOlder(s.rd) \in [Rank -> BusAges]
        /\ AllOlder(s.wr) \in [Rank -> BusAges]
        /\ AllOlder(s.col) \in [Rank \X Group -> BusAges]
    BY <1>5, <2>1
  <2> QED  BY <2>2 DEF Elapse, BusStatus
<1>7. busy' \in [Bank -> Nat]
  <2>1. ASSUME NEW b \in Bank PROVE Less(Longer(Kept[b], stall[b])) \in Nat
    BY KeptType DEF Less, Longer
  <2> QED  BY <2>1 DEF Elapse
<1> QED  BY <1>1, <1>2, <1>4, <1>6, <1>7

\* The flags of a pass keep the types.
LEMMA ClosedType ==
    ASSUME NEW s \in BankStatus, NEW type \in Open \cup Shut, NEW delay \in Nat
    PROVE  /\ Closed(s, type, delay) \in BankStatus
           /\ Closed(s, type, delay).action_type = type
           /\ Closed(s, type, delay).age = -delay
           /\ Closed(s, type, delay).flag = s.flag
<1>1. -delay \in {a \in Int : a <= Old}
  BY TimingFacts
<1> DEFINE t == [s EXCEPT !.action_type = type, !.age = -delay, !.page = NoPage]
<1>2. t \in BankStatus /\ t.action_type = type /\ t.age = -delay /\ t.flag = s.flag
  BY <1>1, Zenon DEF BankStatus
<1> QED  BY <1>2 DEF Closed

\* What the service of the flags leaves of each bank.
LEMMA AfterFlagsType ==
    ASSUME TypeOK
    PROVE  /\ AfterFlags \in [Bank -> BankStatus]
           /\ FlagStall \in [Bank -> Nat] /\ NoStall \in [Bank -> Nat]
           /\ Service[mode] \in Nat
           /\ \A b \in Bank : /\ b \notin ServedBanks => AfterFlags[b] = bank[b]
                              /\ b \in ServedBanks =>
                                    /\ AfterFlags[b].action_type =
                                           IF mode = "rank" THEN "refresh" ELSE "precharge"
                                    /\ AfterFlags[b].age = -Service[mode]
                                    /\ AfterFlags[b].flag = FALSE
<1>1. Service[mode] \in Nat
  BY TopologyAssumption, TimingFacts DEF TypeOK
<1>2. ASSUME NEW b \in Bank, NEW type \in Shut
      PROVE  LET s == [Closed(bank[b], type, Service[mode]) EXCEPT !.flag = FALSE]
             IN  /\ s \in BankStatus /\ s.action_type = type
                 /\ s.age = -Service[mode] /\ s.flag = FALSE
  <2>1. /\ Closed(bank[b], type, Service[mode]) \in BankStatus
        /\ Closed(bank[b], type, Service[mode]).action_type = type
        /\ Closed(bank[b], type, Service[mode]).age = -Service[mode]
    BY <1>1, ClosedType, SMTT(60) DEF TypeOK
  <2> QED  BY <2>1 DEF BankStatus
<1>3. "refresh" \in Shut /\ "precharge" \in Shut
  BY DEF Shut
<1>4. AfterFlags \in [Bank -> BankStatus]
  BY <1>2, <1>3 DEF AfterFlags, TypeOK
<1>5. FlagStall \in [Bank -> Nat] /\ NoStall \in [Bank -> Nat]
  BY <1>1 DEF FlagStall, NoStall
<1> QED  BY <1>1, <1>2, <1>3, <1>4, <1>5 DEF AfterFlags

\* A bank that closes owes at most one mitigation, and performs it.
LEMMA ClosingFacts ==
    ASSUME TypeOK, NEW s \in BankStatus, NEW delay \in Nat
    PROVE  /\ Closing(s, delay) \in BankStatus
           /\ ClosingStall(s, delay) \in Nat
           /\ Closing(s, delay).action_type = "precharge"
           /\ Owes(s) => Closing(s, delay).age = -ClosingStall(s, delay)
           /\ Owes(s) => ClosingStall(s, delay) = delay + Service["bank"]
           /\ ~Owes(s) => ClosingStall(s, delay) = 0
           /\ Closing(s, delay).flag => s.flag
           /\ mode # "bank" => ~Owes(s)
<1> DEFINE d == delay + IF Owes(s) THEN Service[mode] ELSE 0
           c == Closed(s, "precharge", d)
<1>1. d \in Nat
  BY AfterFlagsType
<1>2. c \in BankStatus /\ c.action_type = "precharge" /\ c.age = -d /\ c.flag = s.flag
  <2>1. "precharge" \in Open \cup Shut
    BY DEF Shut
  <2> HIDE DEF d
  <2> QED  BY <1>1, <2>1, ClosedType
<1>3. Closing(s, delay) = [c EXCEPT !.flag = @ /\ ~Owes(s)]
  BY DEF Closing
<1>4. s.flag \in BOOLEAN /\ Owes(s) \in BOOLEAN
  BY DEF BankStatus, Owes
<1>5. /\ Closing(s, delay) \in BankStatus
      /\ Closing(s, delay).action_type = "precharge"
      /\ Closing(s, delay).age = -d
      /\ Closing(s, delay).flag => s.flag
  <2> HIDE DEF c, d
  <2> QED  BY <1>2, <1>3, <1>4 DEF BankStatus
<1> QED  BY <1>1, <1>5, AfterFlagsType DEF ClosingStall, Owes
-------------------------------------------------------------------------------------
(* Type correctness *)

BlissStatus == [th_id : Thread, served : 0..threshold-1, blacklist : SUBSET Thread,
                event : BOOLEAN]

\* A queued request names a thread, a bank and a page; taking one out leaves a queue.
LEMMA RequestsType ==
    ASSUME TypeOK
    PROVE  /\ RequestsNow \in Seq(Request)
           /\ \A i \in 1..Len(RequestsNow) :
                  /\ Event(i) \in [th_id : Thread, bank : Bank, page : Page, write : BOOLEAN]
                  /\ Without(RequestsNow, i) \in Seq(Request)
<1>1. RequestsNow \in Seq(Request)
  BY ConcatProperties DEF TypeOK, RequestsNow
<1>2. ASSUME NEW i \in 1..Len(RequestsNow)
      PROVE  Event(i) \in [th_id : Thread, bank : Bank, page : Page, write : BOOLEAN]
  BY <1>1, ElementOfSeq, TopologyAssumption DEF Event
<1>3. ASSUME NEW i \in 1..Len(RequestsNow)
      PROVE  Without(RequestsNow, i) \in Seq(Request)
  <2> DEFINE n == Len(RequestsNow)
  <2>1. n \in Nat /\ i \in Int /\ i >= 1 /\ i <= n
    BY <1>1, LenProperties
  <2>2. \A j \in 1..n : RequestsNow[j] \in Request
    BY <1>1, ElementOfSeq
  <2> HIDE DEF n
  <2>3. SubSeq(RequestsNow, 1, i - 1) \in Seq(Request)
    <3>1. 1 \in Int /\ i - 1 \in Int /\ \A j \in 1..i-1 : RequestsNow[j] \in Request
      BY <2>1, <2>2
    <3> QED  BY <3>1, SubSeqProperties
  <2>4. SubSeq(RequestsNow, i + 1, n) \in Seq(Request)
    <3>1. i + 1 \in Int /\ n \in Int /\ \A j \in i+1..n : RequestsNow[j] \in Request
      BY <2>1, <2>2
    <3> QED  BY <3>1, SubSeqProperties
  <2> QED  BY <2>3, <2>4, ConcatProperties DEF Without, n
<1> QED  BY <1>1, <1>2, <1>3

\* However a pass ends, the queues keep their type.
LEMMA EndsWithType ==
    ASSUME TypeOK, NEW B, NEW rest \in Seq(Request), EndsWith(B, rest)
    PROVE  /\ req_l' \in Seq(Request) /\ req_event' \in Seq(Request)
           /\ wake' \in BOOLEAN
           /\ curr_refresh_rank' \in Rank
<1>1. <<>> \in Seq(Request)
  BY EmptySeq
<1> QED  BY <1>1 DEF TypeOK, EndsWith, StillOpen

\* Bliss counts below its threshold, whoever is served (update_blacklist).
LEMMA BlissType ==
    ASSUME TypeOK
    PROVE  /\ Cleared \in BlissStatus
           /\ \A th \in Thread : Served(th) \in BlissStatus
<1>1. bliss \in BlissStatus
  BY DEF TypeOK, BlissStatus
<1>2. Blacklist \in SUBSET Thread /\ NextClearing \in BOOLEAN
  BY <1>1 DEF Blacklist, NextClearing, BlissStatus
<1>3. Cleared \in BlissStatus
  BY <1>1, <1>2, Zenon DEF Cleared, BlissStatus
<1>4. ASSUME NEW th \in Thread PROVE Served(th) \in BlissStatus
  <2> DEFINE c == Cleared
  <2>1. /\ c \in BlissStatus /\ c.served \in 0..threshold-1 /\ c.blacklist \in SUBSET Thread
        /\ threshold \in Nat \ {0, 1} /\ 0 \in Thread
    BY <1>3, TopologyAssumption DEF BlissStatus
  <2>2. Served(th) =
            IF th # c.th_id THEN [c EXCEPT !.th_id = th, !.served = 1]
            ELSE IF Blacklists(c.served + 1)
            THEN [c EXCEPT !.th_id = 0, !.served = 0, !.blacklist = @ \cup {th}]
            ELSE [c EXCEPT !.served = @ + 1]
    BY DEF Served
  <2> HIDE DEF c
  <2>3. 0 \in 0..threshold-1 /\ 1 \in 0..threshold-1
    BY <2>1
  <2>4. [c EXCEPT !.th_id = th, !.served = 1] \in BlissStatus
    BY <2>1, <2>3, Zenon DEF BlissStatus
  <2>5. c.blacklist \cup {th} \in SUBSET Thread
    BY <2>1
  <2>6. [c EXCEPT !.th_id = 0, !.served = 0, !.blacklist = @ \cup {th}] \in BlissStatus
    BY <2>1, <2>3, <2>5, Zenon DEF BlissStatus
  <2>7. ASSUME ~Blacklists(c.served + 1)
        PROVE  [c EXCEPT !.served = @ + 1] \in BlissStatus
    <3>1. c.served + 1 \in 0..threshold-1
      BY <2>1, <2>7 DEF Blacklists
    <3> QED  BY <2>1, <3>1 DEF BlissStatus
  <2> QED  BY <2>2, <2>4, <2>6, <2>7
<1> QED  BY <1>3, <1>4

\* The oldest of the candidates is the position of a request in the window.
LEMMA CandidatesFacts ==
    ASSUME NEW B, NEW i \in Candidates(B)
    PROVE  i \in 1..Len(RequestsNow)
BY DEF Candidates, Hits, Misses, Fair, Window

\* The initial state is well typed.
LEMMA InitType == Init => TypeOK
<1> SUFFICES ASSUME Init PROVE TypeOK
  OBVIOUS
<1> USE DEF Init
<1>1. <<mode, policy>> \in Setups
  <2>1. PICK setup \in Setups : mode = setup[1] /\ policy = setup[2]
    OBVIOUS
  <2>2. setup = <<setup[1], setup[2]>>
    <3>1. setup \in Modes \X Policies
      BY TopologyAssumption
    <3> QED  BY <3>1
  <2> QED  BY <2>1, <2>2
<1>2. now \in 0..Cycle-1
  <2>1. Period \in Int /\ Cycle \in Nat \ {0}
    BY ConstantFacts
  <2>2. Period % Cycle \in 0..Cycle-1
    BY <2>1
  <2> QED  BY <2>2
<1>3. bank \in [Bank -> BankStatus]
  <2>1. [action_type |-> "idle", age |-> Old, page |-> NoPage, act |-> Old, flag |-> FALSE]
            \in BankStatus
    BY TimingFacts DEF BankStatus, Shut
  <2> QED  BY <2>1
<1>4. bus \in BusStatus
  <2>1. OldBus \in BusAges /\ 0 \in Rank
    BY TimingFacts, ConstantFacts DEF BusAges
  <2> QED  BY <2>1 DEF BusStatus
<1>5. req_event \in Seq(Request) /\ req_l \in Seq(Request)
  BY EmptySeq
<1>6. bliss \in BlissStatus
  BY TopologyAssumption DEF BlissStatus
<1>7. acts \in [Bank -> 0..AsksAfter-1] /\ busy \in [Bank -> Nat]
  BY TopologyAssumption
<1> QED  BY <1>1, <1>2, <1>3, <1>4, <1>5, <1>6, <1>7, ConstantFacts DEF TypeOK, BlissStatus

\* A request that comes is one more of the queue.
LEMMA ArriveType == ASSUME TypeOK, NEW q \in Request, Arrive(q) PROVE TypeOK'
<1>1. req_event' \in Seq(Request)
  BY AppendProperties DEF Arrive, TypeOK
<1> QED  BY <1>1 DEF Arrive, TypeOK

\* A time without an event only makes things older.
LEMMA SleepType == ASSUME TypeOK, Sleep PROVE TypeOK'
<1>1. Elapse(bank, bus, NoStall)
  BY DEF Sleep
<1>2. bank \in [Bank -> BankStatus] /\ bus \in BusStatus
  BY DEF TypeOK
<1>3. /\ <<mode', policy'>> \in Setups /\ now' \in 0..Cycle-1
      /\ bank' \in [Bank -> BankStatus] /\ bus' \in BusStatus /\ busy' \in [Bank -> Nat]
  BY <1>1, <1>2, AfterFlagsType, ElapseType
<1> QED  BY <1>3 DEF Sleep, TypeOK

\* The banks and the stalls that an auto-refresh leaves.
RefreshedBanks ==
    [b \in Bank |-> IF b \in BanksOf(NextRank)
                    THEN Closed(AfterFlags[b], "refresh", tRFC_t - tRP)
                    ELSE AfterFlags[b]]
RefreshStall == [b \in Bank |-> IF b \in BanksOf(NextRank) THEN tRFC_t ELSE FlagStall[b]]

\* What an auto-refresh leaves of each bank.
LEMMA RefreshedType ==
    ASSUME TypeOK
    PROVE  /\ RefreshedBanks \in [Bank -> BankStatus]
           /\ RefreshStall \in [Bank -> Nat]
           /\ \A b \in BanksOf(NextRank) :
                  /\ RefreshedBanks[b].action_type = "refresh"
                  /\ RefreshedBanks[b].age = tRP - tRFC_t
                  /\ RefreshedBanks[b].flag = AfterFlags[b].flag
<1>1. ASSUME NEW b \in Bank
      PROVE  /\ Closed(AfterFlags[b], "refresh", tRFC_t - tRP) \in BankStatus
             /\ Closed(AfterFlags[b], "refresh", tRFC_t - tRP).action_type = "refresh"
             /\ Closed(AfterFlags[b], "refresh", tRFC_t - tRP).age = -(tRFC_t - tRP)
             /\ Closed(AfterFlags[b], "refresh", tRFC_t - tRP).flag = AfterFlags[b].flag
  <2>1. "refresh" \in Open \cup Shut /\ AfterFlags[b] \in BankStatus
    BY AfterFlagsType DEF Shut
  <2> QED  BY <2>1, TimingFacts, ClosedType
<1>2. -(tRFC_t - tRP) = tRP - tRFC_t
  BY TimingFacts
<1>3. \A b \in BanksOf(NextRank) : b \in Bank
  BY DEF BanksOf
<1>4. RefreshedBanks \in [Bank -> BankStatus]
  BY <1>1, AfterFlagsType DEF RefreshedBanks
<1>5. RefreshStall \in [Bank -> Nat]
  BY AfterFlagsType, TimingFacts DEF RefreshStall
<1> QED  BY <1>1, <1>2, <1>3, <1>4, <1>5 DEF RefreshedBanks

\* An auto-refresh keeps the types.
LEMMA RefreshType == ASSUME TypeOK, Refresh PROVE TypeOK'
<1>1. Elapse(RefreshedBanks, bus, RefreshStall)
  BY DEF Refresh, RefreshedBanks, RefreshStall
<1>2. bus \in BusStatus
  BY DEF TypeOK
<1>3. /\ <<mode', policy'>> \in Setups /\ now' \in 0..Cycle-1
      /\ bank' \in [Bank -> BankStatus] /\ bus' \in BusStatus /\ busy' \in [Bank -> Nat]
  BY <1>1, <1>2, RefreshedType, ElapseType
<1>4. req_l' \in Seq(Request) /\ req_event' \in Seq(Request)
  BY ConcatProperties, EmptySeq DEF Refresh, TypeOK
<1>5. bliss' \in BlissStatus
  BY BlissType DEF Refresh
<1>6. curr_refresh_rank' \in Rank
  <2>1. num_ranks_per_mc \in Nat \ {0} /\ curr_refresh_rank + 1 \in Nat
    BY TopologyAssumption, ConstantFacts DEF TypeOK
  <2>2. (curr_refresh_rank + 1) % num_ranks_per_mc \in 0..num_ranks_per_mc-1
    BY <2>1
  <2> QED  BY <2>2 DEF Refresh, NextRank, Rank
<1> QED  BY <1>3, <1>4, <1>5, <1>6 DEF Refresh, TypeOK, BlissStatus

\* The bus and the bank as a column access leaves them.
Accessed(s, write) == [s EXCEPT !.action_type = IF write THEN "write" ELSE "read", !.age = 0]

\* An accessed bank is open, its flag as before.
LEMMA AccessedType ==
    ASSUME NEW s \in BankStatus, NEW write \in BOOLEAN
    PROVE  /\ Accessed(s, write) \in BankStatus
           /\ Accessed(s, write).action_type \in Open
           /\ Accessed(s, write).flag = s.flag
<1> DEFINE t == IF write THEN "write" ELSE "read"
<1>1. t \in Open /\ t \in Open \cup Shut
  BY DEF Open
<1>2. 0 \in {a \in Int : a <= Old}
  BY TimingFacts
<1>3. Accessed(s, write) = [s EXCEPT !.action_type = t, !.age = 0]
  BY DEF Accessed
<1> HIDE DEF t
<1> QED  BY <1>1, <1>2, <1>3, Zenon DEF BankStatus

Opened(s, page, asks) ==
    [s EXCEPT !.action_type = "activate", !.age = 0, !.page = page, !.act = 0,
              !.flag = @ \/ asks]

\* An activated bank is open.
LEMMA OpenedType ==
    ASSUME NEW s \in BankStatus, NEW page \in Page, NEW asks \in BOOLEAN
    PROVE  /\ Opened(s, page, asks) \in BankStatus
           /\ Opened(s, page, asks).action_type = "activate"
<1>1. "activate" \in Open \cup Shut /\ page \in Page \cup {NoPage}
  BY DEF Open
<1>2. 0 \in {a \in Int : a <= Old} /\ 0 \in 0..Old
  BY TimingFacts
<1>3. (s.flag \/ asks) \in BOOLEAN
  BY DEF BankStatus
<1> QED  BY <1>1, <1>2, <1>3, Zenon DEF Opened, BankStatus

\* An activation keeps the types.
LEMMA ActivateType ==
    ASSUME TypeOK, NEW i \in 1..Len(RequestsNow), Activate(AfterFlags, i)
    PROVE  TypeOK'
<1> DEFINE b == Event(i).bank
           B == AfterFlags
<1>1. b \in Bank /\ Event(i).page \in Page /\ b[1] \in Rank
  BY RequestsType, ConstantFacts
<1>2. PICK asks \in BOOLEAN :
          /\ acts' = [acts EXCEPT ![b] = IF asks THEN 0 ELSE
                                         IF @ + 1 < AsksAfter THEN @ + 1 ELSE @]
          /\ Elapse([B EXCEPT ![b].action_type = "activate", ![b].age = 0,
                              ![b].page = Event(i).page, ![b].act = 0, ![b].flag = @ \/ asks],
                    [bus EXCEPT !.act[b[1]] = 0], FlagStall)
  BY Zenon DEF Activate
<1>3. [B EXCEPT ![b].action_type = "activate", ![b].age = 0, ![b].page = Event(i).page,
                ![b].act = 0, ![b].flag = @ \/ asks] \in [Bank -> BankStatus]
  <2>1. Opened(B[b], Event(i).page, asks) \in BankStatus
    BY <1>1, AfterFlagsType, OpenedType
  <2> HIDE DEF b, B
  <2>2. [B EXCEPT ![b] = Opened(B[b], Event(i).page, asks)] \in [Bank -> BankStatus]
    BY <2>1, <1>1, AfterFlagsType DEF B
  <2> QED  BY <2>2, Zenon DEF Opened
<1>4. [bus EXCEPT !.act[b[1]] = 0] \in BusStatus
  <2>1. bus \in BusStatus /\ 0 \in BusAges
    BY TimingFacts DEF TypeOK, BusAges
  <2> HIDE DEF b
  <2> QED  BY <1>1, <2>1 DEF BusStatus
<1>5. acts' \in [Bank -> 0..AsksAfter-1]
  <2>1. acts \in [Bank -> 0..AsksAfter-1] /\ AsksAfter \in Nat \ {0}
    BY TopologyAssumption DEF TypeOK
  <2>2. (IF asks THEN 0 ELSE IF acts[b] + 1 < AsksAfter THEN acts[b] + 1 ELSE acts[b])
            \in 0..AsksAfter-1
    BY <1>1, <2>1
  <2> HIDE DEF b
  <2> QED  BY <1>1, <1>2, <2>1, <2>2
<1>6. /\ <<mode', policy'>> \in Setups /\ now' \in 0..Cycle-1
      /\ bank' \in [Bank -> BankStatus] /\ bus' \in BusStatus /\ busy' \in [Bank -> Nat]
  BY <1>2, <1>3, <1>4, AfterFlagsType, ElapseType
<1>7. /\ req_l' \in Seq(Request) /\ req_event' \in Seq(Request) /\ wake' \in BOOLEAN
      /\ curr_refresh_rank' \in Rank
  BY RequestsType, EndsWithType DEF Activate
<1>8. bliss' \in BlissStatus
  BY BlissType DEF Activate
<1> QED  BY <1>5, <1>6, <1>7, <1>8 DEF TypeOK, BlissStatus

\* A precharge keeps the types.
LEMMA PrechargeType ==
    ASSUME TypeOK, NEW i \in 1..Len(RequestsNow), Precharge(AfterFlags, i)
    PROVE  TypeOK'
<1> DEFINE b == Event(i).bank
           B2 == [AfterFlags EXCEPT ![b] = Closing(AfterFlags[b], 0)]
           stall == [FlagStall EXCEPT ![b] = ClosingStall(AfterFlags[b], 0)]
<1>1. b \in Bank
  BY RequestsType
<1>2. /\ Closing(AfterFlags[b], 0) \in BankStatus
      /\ ClosingStall(AfterFlags[b], 0) \in Nat
  BY <1>1, AfterFlagsType, ClosingFacts
<1>3. B2 \in [Bank -> BankStatus] /\ stall \in [Bank -> Nat]
  BY <1>1, <1>2, AfterFlagsType
<1>4. Elapse(B2, bus, stall)
  BY DEF Precharge
<1>5. bus \in BusStatus
  BY DEF TypeOK
<1>6. /\ <<mode', policy'>> \in Setups /\ now' \in 0..Cycle-1
      /\ bank' \in [Bank -> BankStatus] /\ bus' \in BusStatus /\ busy' \in [Bank -> Nat]
  <2> HIDE DEF B2, stall
  <2> QED  BY <1>3, <1>4, <1>5, ElapseType
<1>7. /\ req_l' \in Seq(Request) /\ req_event' \in Seq(Request) /\ wake' \in BOOLEAN
      /\ curr_refresh_rank' \in Rank
  BY RequestsType, EndsWithType DEF Precharge
<1>8. bliss' \in BlissStatus /\ acts' = acts
  BY BlissType DEF Precharge
<1> QED  BY <1>6, <1>7, <1>8 DEF TypeOK, BlissStatus

\* The banks and the stalls that the access of the bank b leaves.
AccessedBank(b, write) ==
    LET s == Accessed(AfterFlags[b], write)
    IN  IF policy = "closed" THEN Closing(s, IF write THEN tWTP ELSE tRTP) ELSE s
AccessStall(b, write) ==
    LET s == Accessed(AfterFlags[b], write)
    IN  IF policy = "closed" THEN ClosingStall(s, IF write THEN tWTP ELSE tRTP) ELSE 0

\* An access keeps the types; it leaves the banks and stalls defined above.
LEMMA AccessType ==
    ASSUME TypeOK, NEW i \in 1..Len(RequestsNow), Access(AfterFlags, i)
    PROVE  /\ TypeOK'
           /\ \E s \in BusStatus :
                  Elapse([AfterFlags EXCEPT ![Event(i).bank] =
                              AccessedBank(Event(i).bank, Event(i).write)], s,
                         [FlagStall EXCEPT ![Event(i).bank] =
                              AccessStall(Event(i).bank, Event(i).write)])
<1> DEFINE b == Event(i).bank
           k == b[1]
           write == Event(i).write
           onbus == [bus EXCEPT !.col[<<k, GroupOf(b)>>] = 0, !.last = k]
           after == IF write THEN [onbus EXCEPT !.wr[k] = 0]
                             ELSE [onbus EXCEPT !.rd[k] = 0, !.reader = k]
           B2 == [AfterFlags EXCEPT ![b] = AccessedBank(b, write)]
           stall == [FlagStall EXCEPT ![b] = AccessStall(b, write)]
<1>1. b \in Bank /\ write \in BOOLEAN /\ Event(i).th_id \in Thread
  BY RequestsType
<1>2. k \in Rank /\ GroupOf(b) \in Group
  BY <1>1, ConstantFacts
<1>3. after \in BusStatus
  <2>1. bus \in BusStatus /\ 0 \in BusAges
    BY TimingFacts DEF TypeOK, BusAges
  <2>2. onbus \in BusStatus
    <3> HIDE DEF k
    <3> QED  BY <1>2, <2>1, Zenon DEF BusStatus
  <2> HIDE DEF onbus, k
  <2>3. [onbus EXCEPT !.wr[k] = 0] \in BusStatus
    BY <1>2, <2>1, <2>2, Zenon DEF BusStatus
  <2>4. [onbus EXCEPT !.rd[k] = 0, !.reader = k] \in BusStatus
    BY <1>2, <2>1, <2>2, Zenon DEF BusStatus
  <2> QED  BY <2>3, <2>4
<1>4. AccessedBank(b, write) \in BankStatus /\ AccessStall(b, write) \in Nat
  <2>1. Accessed(AfterFlags[b], write) \in BankStatus
    BY <1>1, AfterFlagsType, AccessedType
  <2> QED  BY <2>1, ClosingFacts, TimingFacts DEF AccessedBank, AccessStall
<1>5. B2 \in [Bank -> BankStatus] /\ stall \in [Bank -> Nat]
  BY <1>1, <1>4, AfterFlagsType
<1>6. Elapse(B2, after, stall)
  BY DEF Access, AccessedBank, AccessStall, Accessed
<1>7. /\ <<mode', policy'>> \in Setups /\ now' \in 0..Cycle-1
      /\ bank' \in [Bank -> BankStatus] /\ bus' \in BusStatus /\ busy' \in [Bank -> Nat]
  <2> HIDE DEF B2, stall, after
  <2> QED  BY <1>3, <1>5, <1>6, ElapseType
<1>8. /\ req_l' \in Seq(Request) /\ req_event' \in Seq(Request) /\ wake' \in BOOLEAN
      /\ curr_refresh_rank' \in Rank
  BY RequestsType, EndsWithType DEF Access
<1>9. bliss' \in BlissStatus /\ acts' = acts
  BY <1>1, BlissType DEF Access
<1>10. TypeOK'
  BY <1>7, <1>8, <1>9 DEF TypeOK, BlissStatus
<1> QED
  <2> HIDE DEF after
  <2> QED  BY <1>3, <1>6, <1>10

\* The banks and the stalls that time-outs leave.
TimedOut ==
    [b \in Bank |-> IF FirstOverdue(AfterFlags, b) THEN Closing(AfterFlags[b], 0)
                    ELSE AfterFlags[b]]
TimeOutStall ==
    [b \in Bank |-> IF FirstOverdue(AfterFlags, b) THEN ClosingStall(AfterFlags[b], 0)
                    ELSE FlagStall[b]]

\* A time-out keeps the types.
LEMMA TimeOutType == ASSUME TypeOK, TimeOut(AfterFlags) PROVE TypeOK'
<1>1. Elapse(TimedOut, bus, TimeOutStall)
  BY DEF TimeOut, TimedOut, TimeOutStall
<1>2. ASSUME NEW b \in Bank
      PROVE  /\ Closing(AfterFlags[b], 0) \in BankStatus
             /\ ClosingStall(AfterFlags[b], 0) \in Nat
  BY AfterFlagsType, ClosingFacts
<1>3. TimedOut \in [Bank -> BankStatus] /\ TimeOutStall \in [Bank -> Nat]
  BY <1>2, AfterFlagsType DEF TimedOut, TimeOutStall
<1>4. bus \in BusStatus
  BY DEF TypeOK
<1>5. /\ <<mode', policy'>> \in Setups /\ now' \in 0..Cycle-1
      /\ bank' \in [Bank -> BankStatus] /\ bus' \in BusStatus /\ busy' \in [Bank -> Nat]
  BY <1>1, <1>3, <1>4, ElapseType
<1>6. /\ req_l' \in Seq(Request) /\ req_event' \in Seq(Request) /\ wake' \in BOOLEAN
      /\ curr_refresh_rank' \in Rank
  BY RequestsType, EndsWithType DEF TimeOut
<1>7. bliss' \in BlissStatus /\ acts' = acts
  BY BlissType DEF TimeOut
<1> QED  BY <1>5, <1>6, <1>7 DEF TypeOK, BlissStatus

\* A pass that issues a command is one of four, for a request of the window.
LEMMA CommandCases ==
    ASSUME Command
    PROVE  \/ \E i \in 1..Len(RequestsNow) :
                 Activate(AfterFlags, i) \/ Precharge(AfterFlags, i) \/ Access(AfterFlags, i)
           \/ TimeOut(AfterFlags)
BY CandidatesFacts DEF Command

\* Every step keeps the types.
LEMMA NextType == TypeOK /\ [Next]_vars => TypeOK'
<1> SUFFICES ASSUME TypeOK, [Next]_vars PROVE TypeOK'
  OBVIOUS
<1>1. CASE Sleep
  BY <1>1, SleepType
<1>2. CASE Refresh
  BY <1>2, RefreshType
<1>3. CASE Command
  BY <1>3, CommandCases, ActivateType, PrechargeType, AccessType, TimeOutType
<1>4. ASSUME NEW q \in Request, Arrive(q) PROVE TypeOK'
  BY <1>4, ArriveType
<1>5. CASE UNCHANGED vars
  BY <1>5 DEF vars, TypeOK
<1> QED  BY <1>1, <1>2, <1>3, <1>4, <1>5 DEF Next, Step

\* Type correctness, for all constants: the bounds of the ages are wide enough, and Bliss
\* blacklists a thread (update_blacklist) before its count reaches the threshold.
THEOREM TypeCorrect == Spec => []TypeOK
<1>1. Init => TypeOK
  BY InitType
<1>2. TypeOK /\ [Next]_vars => TypeOK'
  BY NextType
<1> QED  BY <1>1, <1>2, PTL DEF Spec
-------------------------------------------------------------------------------------
(* Stalls *)

\* In B a bank with a stall of m[b] is closed, and cannot be activated before it is over.
StallsHold(B, m) ==
    \A b \in Bank :
        m[b] > 0 => B[b].action_type \in {"precharge", "refresh"} /\ m[b] + B[b].age <= tRP

\* The banks of a rank stall together, and the flagged banks are of one rank and free.
WholeRanks(B, m) ==
    /\ \A b, c \in Bank : b[1] = c[1] => m[b] = m[c]
    /\ \A b \in Bank : B[b].flag => m[b] = 0
    /\ \A b, c \in Bank : B[b].flag /\ B[c].flag => b[1] = c[1]

\* A bank with an RFM to come has no stall, but for an auto-refresh.
FlaggedAreFree(B, m) == \A b \in Bank : B[b].flag => m[b] = 0 \/ B[b].action_type = "refresh"

Accounted(B, m) ==
    /\ StallsHold(B, m)
    /\ mode = "rank" => WholeRanks(B, m)
    /\ mode = "rfm" => FlaggedAreFree(B, m)

StallInv == Accounted(bank, busy)

IInv == TypeOK /\ StallInv

\* The stalls of a pass that gives stall[b] to each bank b.
Stalled(stall) == [b \in Bank |-> Longer(Kept[b], stall[b])]

\* No bank stalls at first.
LEMMA InitStalls == Init => StallInv
BY TimingFacts DEF Init, StallInv, Accounted, StallsHold, WholeRanks, FlaggedAreFree

\* An open bank has no stall left.
LEMMA OpenIsFree ==
    ASSUME NEW B, NEW m \in [Bank -> Nat], StallsHold(B, m), NEW b \in Bank,
           B[b].action_type \in Open
    PROVE  m[b] = 0
BY DEF StallsHold, Open

\* Stalls are natural numbers.
LEMMA StalledType == ASSUME TypeOK, NEW stall \in [Bank -> Nat]
                     PROVE  Stalled(stall) \in [Bank -> Nat]
BY KeptType DEF Stalled, Longer

\* As time goes by a stall gets shorter as fast as the bank gets older, or faster.
LEMMA ElapseStalls ==
    ASSUME TypeOK, NEW B \in [Bank -> BankStatus], NEW s, NEW stall \in [Bank -> Nat],
           Elapse(B, s, stall), Accounted(B, Stalled(stall))
    PROVE  StallInv'
<1> DEFINE m == Stalled(stall)
<1>1. ASSUME NEW b \in Bank
      PROVE  /\ busy'[b] = Less(m[b]) /\ m[b] \in Nat
             /\ bank'[b].action_type = B[b].action_type
             /\ bank'[b].flag = B[b].flag
             /\ bank'[b].age = Older(B[b].age, Old)
  <2>1. /\ busy'[b] = Less(Longer(Kept[b], stall[b]))
        /\ bank'[b] = [B[b] EXCEPT !.age = Older(@, Old), !.act = Older(@, Old)]
    BY DEF Elapse
  <2>2. B[b] \in BankStatus
    OBVIOUS
  <2> QED  BY <2>1, <2>2, StalledType, Zenon DEF Stalled, BankStatus
<1>2. \A b \in Bank : /\ Less(m[b]) \in Nat /\ Less(m[b]) <= m[b]
                      /\ Less(m[b]) > 0 => Less(m[b]) = m[b] - 1
  BY <1>1 DEF Less
<1>3. StallsHold(bank', busy')
  <2>1. ASSUME NEW b \in Bank, busy'[b] > 0
        PROVE  bank'[b].action_type \in {"precharge", "refresh"} /\ busy'[b] + bank'[b].age <= tRP
    <3>1. B[b].age \in Int /\ B[b].age <= Old
      BY DEF BankStatus
    <3>2. Older(B[b].age, Old) \in Int /\ Older(B[b].age, Old) <= B[b].age + 1
      BY <3>1, OlderFacts, TimingFacts
    <3>3. m[b] > 0 => B[b].action_type \in {"precharge", "refresh"} /\ m[b] + B[b].age <= tRP
      BY DEF Accounted, StallsHold
    <3> HIDE DEF m
    <3> QED  BY <1>1, <1>2, <2>1, <3>1, <3>2, <3>3, TimingFacts
  <2> QED  BY <2>1 DEF StallsHold
<1>4. Less(0) = 0
  BY DEF Less
<1>5. ASSUME mode = "rank" PROVE WholeRanks(bank', busy')
  <2>1. WholeRanks(B, m)
    BY <1>5 DEF Accounted
  <2> HIDE DEF m
  <2>2. ASSUME NEW b \in Bank, NEW c \in Bank, b[1] = c[1] PROVE busy'[b] = busy'[c]
    <3>1. m[b] = m[c]
      BY <2>1, <2>2 DEF WholeRanks
    <3>2. busy'[b] = Less(m[b]) /\ busy'[c] = Less(m[c])
      BY <1>1
    <3> QED  BY <3>1, <3>2
  <2>3. \A b \in Bank : bank'[b].flag => busy'[b] = 0
    BY <1>1, <1>4, <2>1, Zenon DEF WholeRanks
  <2>4. \A b, c \in Bank : bank'[b].flag /\ bank'[c].flag => b[1] = c[1]
    BY <1>1, <2>1, Zenon DEF WholeRanks
  <2> QED  BY <2>2, <2>3, <2>4, Zenon DEF WholeRanks
<1>6. ASSUME mode = "rfm" PROVE FlaggedAreFree(bank', busy')
  <2>1. FlaggedAreFree(B, m)
    BY <1>6 DEF Accounted
  <2> HIDE DEF m
  <2> QED  BY <1>1, <1>4, <2>1, Zenon DEF FlaggedAreFree
<1> QED  BY <1>3, <1>5, <1>6 DEF StallInv, Accounted, Elapse

\* A bank that is served has nothing to lose; in mode "rank" it is served with its rank.
LEMMA ServedAreFree ==
    ASSUME IInv
    PROVE  /\ \A b \in ServedBanks : b \in Bank /\ Kept[b] = 0
           /\ mode = "bank" => ServedBanks = {}
           /\ mode = "rank" => /\ \A b \in Bank \ ServedBanks : ~bank[b].flag
                               /\ \A b, c \in Bank : b[1] = c[1] /\ b \in ServedBanks =>
                                                     c \in ServedBanks
<1>1. TypeOK /\ mode \in Modes
  BY TopologyAssumption DEF IInv, TypeOK
<1>2. CASE mode = "bank"
  BY <1>2 DEF ServedBanks
<1>3. CASE mode = "rfm"
  <2>1. FlaggedAreFree(bank, busy)
    BY <1>3 DEF IInv, StallInv, Accounted
  <2>2. \A b \in ServedBanks : b \in Bank /\ bank[b].flag
    BY <1>3 DEF ServedBanks
  <2> QED  BY <1>1, <1>3, <2>1, <2>2, KeptType DEF FlaggedAreFree, Forfeits
<1>4. CASE mode = "rank"
  <2>1. WholeRanks(bank, busy)
    BY <1>4 DEF IInv, StallInv, Accounted
  <2>2. \A b \in Bank : b[1] \in Rank
    BY ConstantFacts
  <2>3. CASE FlaggedRanks = {}
    <3>1. \A b \in Bank : ~bank[b].flag
      BY <2>2, <2>3 DEF FlaggedRanks, BanksOf
    <3>2. ServedBanks = {}
      BY <1>4, <2>3 DEF ServedBanks
    <3> QED  BY <1>4, <3>1, <3>2
  <2>4. CASE FlaggedRanks # {}
    <3>1. PICK k \in FlaggedRanks : TRUE
      BY <2>4
    <3>2. \A j \in FlaggedRanks : j = k
      BY <2>1 DEF FlaggedRanks, BanksOf, WholeRanks
    <3>3. k \in Nat
      BY <3>1, ConstantFacts DEF FlaggedRanks
    <3>4. (CHOOSE l \in FlaggedRanks : \A j \in FlaggedRanks : l <= j) = k
      <4>1. \E l \in FlaggedRanks : \A j \in FlaggedRanks : l <= j
        BY <3>1, <3>2, <3>3
      <4>2. (CHOOSE l \in FlaggedRanks : \A j \in FlaggedRanks : l <= j) \in FlaggedRanks
        BY <4>1
      <4> QED  BY <3>2, <4>2
    <3>5. ServedBanks = BanksOf(k)
      BY <1>4, <2>4, <3>4 DEF ServedBanks
    <3>6. \A b \in Bank : bank[b].flag => b[1] = k
      BY <2>2, <3>2 DEF FlaggedRanks, BanksOf
    <3>7. \A b \in BanksOf(k) : b \in Bank /\ busy[b] = 0
      BY <2>1, <3>1 DEF WholeRanks, FlaggedRanks, BanksOf
    <3>8. \A b \in BanksOf(k) : b \in Bank /\ Kept[b] = 0
      BY <1>1, <3>7, KeptType
    <3> QED  BY <1>4, <3>5, <3>6, <3>8 DEF BanksOf
  <2> QED  BY <2>3, <2>4
<1> QED  BY <1>1, <1>2, <1>3, <1>4 DEF Modes

\* The longer one of two times.
LEMMA LongerFacts ==
    ASSUME NEW a \in Nat, NEW b \in Nat
    PROVE  /\ Longer(a, b) \in Nat /\ Longer(a, 0) = a /\ Longer(0, a) = a
           /\ Longer(a, b) = 0 => a = 0 /\ b = 0
           /\ a <= b => Longer(a, b) = b
BY DEF Longer

\* Once the flags are served the stalls hold, and in mode "rank" no flag is left.
LEMMA FlagStalls ==
    ASSUME IInv
    PROVE  /\ Accounted(AfterFlags, Stalled(FlagStall))
           /\ mode = "rank" => \A b \in Bank : ~AfterFlags[b].flag
<1> DEFINE m == Stalled(FlagStall)
<1>1. TypeOK /\ Accounted(bank, busy)
  BY DEF IInv, StallInv
<1>2. /\ \A b \in Bank : busy[b] \in Nat /\ Kept[b] \in {busy[b], 0}
      /\ Service[mode] \in Nat
  BY <1>1, AfterFlagsType, KeptType DEF TypeOK
<1>3. \A b \in Bank : b \notin ServedBanks => m[b] = Kept[b] /\ AfterFlags[b] = bank[b]
  BY <1>1, <1>2, LongerFacts, AfterFlagsType DEF Stalled, FlagStall
<1>4. \A b \in ServedBanks : /\ m[b] = Service[mode]
                             /\ AfterFlags[b].action_type \in {"precharge", "refresh"}
                             /\ AfterFlags[b].age = -Service[mode]
                             /\ ~AfterFlags[b].flag
  BY <1>1, <1>2, ServedAreFree, LongerFacts, AfterFlagsType DEF Stalled, FlagStall
<1>5. StallsHold(AfterFlags, m)
  <2>1. ASSUME NEW b \in Bank, m[b] > 0
        PROVE  AfterFlags[b].action_type \in {"precharge", "refresh"} /\ m[b] + AfterFlags[b].age <= tRP
    <3>1. CASE b \in ServedBanks
      <4> HIDE DEF m
      <4> QED  BY <3>1, <1>2, <1>4, TimingFacts
    <3>2. CASE b \notin ServedBanks
      <4> HIDE DEF m
      <4> QED  BY <2>1, <3>2, <1>1, <1>2, <1>3 DEF Accounted, StallsHold
    <3> QED  BY <3>1, <3>2
  <2> HIDE DEF m
  <2> QED  BY <2>1 DEF StallsHold
<1>6. ASSUME mode = "rank"
      PROVE  WholeRanks(AfterFlags, m) /\ \A b \in Bank : ~AfterFlags[b].flag
  <2>1. \A b \in Bank : ~AfterFlags[b].flag
    BY <1>3, <1>4, <1>6, ServedAreFree
  <2>2. ASSUME NEW b \in Bank, NEW c \in Bank, b[1] = c[1] PROVE m[b] = m[c]
    <3>1. b \in ServedBanks <=> c \in ServedBanks
      BY <2>2, <1>6, ServedAreFree
    <3>2. busy[b] = busy[c]
      BY <2>2, <1>1, <1>6 DEF Accounted, WholeRanks
    <3>3. Kept[b] = Kept[c]
      BY <1>1, <1>6, <2>2, <3>2, KeptType DEF Forfeits
    <3> HIDE DEF m
    <3> QED  BY <3>1, <3>3, <1>3, <1>4
  <2> HIDE DEF m
  <2> QED  BY <2>1, <2>2, Zenon DEF WholeRanks
<1>7. ASSUME mode = "rfm" PROVE FlaggedAreFree(AfterFlags, m)
  <2> HIDE DEF m
  <2> QED  BY <1>1, <1>2, <1>3, <1>4, <1>7 DEF Accounted, FlaggedAreFree
<1> QED  BY <1>5, <1>6, <1>7 DEF Accounted

\* A pass that leaves every bank as the flags did, or closes or accesses open ones.
LEMMA ClosingStalls ==
    ASSUME IInv,
           NEW B \in [Bank -> BankStatus], NEW stall \in [Bank -> Nat],
           \A b \in Bank :
               \/ B[b] = AfterFlags[b] /\ stall[b] = FlagStall[b]
               \/ /\ AfterFlags[b].action_type \in Open
                  /\ B[b].action_type \in Open /\ B[b].flag = AfterFlags[b].flag
                  /\ stall[b] = 0
               \/ /\ AfterFlags[b].action_type \in Open
                  /\ \E s \in BankStatus, delay \in Nat :
                        /\ s.flag = AfterFlags[b].flag
                        /\ B[b] = Closing(s, delay) /\ stall[b] = ClosingStall(s, delay)
    PROVE  Accounted(B, Stalled(stall))
<1> DEFINE m == Stalled(FlagStall)
           n == Stalled(stall)
<1>1. TypeOK /\ Accounted(AfterFlags, m) /\ StallsHold(AfterFlags, m)
  BY FlagStalls DEF IInv, Accounted
<1>2. \A b \in Bank : Kept[b] \in Nat /\ FlagStall[b] \in Nat /\ stall[b] \in Nat
  BY <1>1, AfterFlagsType, KeptType
<1>3. \A b \in Bank : stall[b] = FlagStall[b] => n[b] = m[b]
  BY DEF Stalled
<1>4. ASSUME NEW b \in Bank, AfterFlags[b].action_type \in Open
      PROVE  m[b] = 0 /\ n[b] = stall[b]
  <2>1. m[b] = 0
    BY <1>1, <1>4, AfterFlagsType, StalledType, OpenIsFree
  <2>2. Kept[b] = 0
    BY <2>1, <1>2, LongerFacts DEF Stalled
  <2> QED  BY <2>1, <2>2, <1>2, LongerFacts DEF Stalled
<1>5. ASSUME NEW b \in Bank
      PROVE  /\ n[b] > 0 => B[b].action_type \in {"precharge", "refresh"} /\ n[b] + B[b].age <= tRP
             /\ mode # "bank" => n[b] = m[b]
             /\ B[b].flag => AfterFlags[b].flag
             /\ B[b].action_type = AfterFlags[b].action_type \/ m[b] = 0
  <2> HIDE DEF m, n
  <2>1. CASE B[b] = AfterFlags[b] /\ stall[b] = FlagStall[b]
    BY <2>1, <1>1, <1>3 DEF StallsHold
  <2>2. CASE /\ AfterFlags[b].action_type \in Open
             /\ B[b].action_type \in Open /\ B[b].flag = AfterFlags[b].flag
             /\ stall[b] = 0
    <3>1. n[b] = 0 /\ m[b] = 0
      BY <2>2, <1>4
    <3>2. B[b].flag => AfterFlags[b].flag
      BY <2>2
    <3> QED  BY <3>1, <3>2, TimingFacts
  <2>3. CASE /\ AfterFlags[b].action_type \in Open
             /\ \E s \in BankStatus, delay \in Nat :
                   /\ s.flag = AfterFlags[b].flag
                   /\ B[b] = Closing(s, delay) /\ stall[b] = ClosingStall(s, delay)
    <3>1. PICK s \in BankStatus, delay \in Nat :
              /\ s.flag = AfterFlags[b].flag
              /\ B[b] = Closing(s, delay) /\ stall[b] = ClosingStall(s, delay)
      BY <2>3
    <3>2. Service["bank"] \in Nat
      BY TimingFacts
    <3>3. /\ Owes(s) => B[b].age = -stall[b] /\ stall[b] = delay + Service["bank"]
          /\ ~Owes(s) => stall[b] = 0
          /\ B[b].action_type = "precharge"
          /\ B[b].flag => AfterFlags[b].flag
          /\ mode # "bank" => ~Owes(s)
      <4>1. /\ Closing(s, delay).action_type = "precharge"
            /\ Owes(s) => Closing(s, delay).age = -ClosingStall(s, delay)
            /\ Owes(s) => ClosingStall(s, delay) = delay + Service["bank"]
            /\ ~Owes(s) => ClosingStall(s, delay) = 0
            /\ Closing(s, delay).flag => s.flag
            /\ mode # "bank" => ~Owes(s)
        BY <1>1, <3>2, ClosingFacts
      <4> QED  BY <3>1, <4>1, Zenon
    <3>4. n[b] = stall[b] /\ m[b] = 0
      BY <1>4, <2>3
    <3> QED  BY <3>2, <3>3, <3>4, TimingFacts
  <2> QED  BY <2>1, <2>2, <2>3
<1>6. StallsHold(B, n)
  <2> HIDE DEF m, n
  <2> QED  BY <1>5 DEF StallsHold
<1>7. ASSUME mode = "rank" PROVE WholeRanks(B, n)
  <2>1. WholeRanks(AfterFlags, m)
    BY <1>1, <1>7 DEF Accounted
  <2> HIDE DEF m, n
  <2>2. ASSUME NEW b \in Bank, NEW c \in Bank, b[1] = c[1] PROVE n[b] = n[c]
    <3>1. m[b] = m[c]
      BY <2>1, <2>2 DEF WholeRanks
    <3> QED  BY <3>1, <1>5, <1>7
  <2>3. \A b \in Bank : ~B[b].flag
    BY <1>5, <1>7, FlagStalls
  <2> QED  BY <2>2, <2>3, Zenon DEF WholeRanks
<1>8. ASSUME mode = "rfm" PROVE FlaggedAreFree(B, n)
  <2>1. FlaggedAreFree(AfterFlags, m)
    BY <1>1, <1>8 DEF Accounted
  <2> HIDE DEF m, n
  <2> QED  BY <1>5, <1>8, <2>1 DEF FlaggedAreFree
<1> QED  BY <1>6, <1>7, <1>8 DEF Accounted

\* A time without an event shortens stalls.
LEMMA SleepStalls == ASSUME IInv, Sleep PROVE StallInv'
<1> DEFINE n == Stalled(NoStall)
<1>1. TypeOK /\ StallInv /\ ~Refreshing
  BY DEF IInv, Sleep, Called
<1>2. ASSUME NEW b \in Bank
      PROVE  n[b] = Kept[b] /\ (Kept[b] = busy[b] \/ Kept[b] = 0)
  BY <1>1, LongerFacts, KeptType DEF Stalled, NoStall
<1>3. mode = "rank" => \A b \in Bank : Kept[b] = busy[b]
  BY <1>1, KeptType DEF Forfeits
<1>4. bank \in [Bank -> BankStatus] /\ Elapse(bank, bus, NoStall)
  BY <1>1 DEF Sleep, TypeOK
<1>5. Accounted(bank, n)
  <2> HIDE DEF n
  <2>1. StallsHold(bank, n)
    BY <1>1, <1>2 DEF StallInv, Accounted, StallsHold
  <2>2. mode = "rank" => WholeRanks(bank, n)
    BY <1>1, <1>2, <1>3 DEF StallInv, Accounted, WholeRanks
  <2>3. mode = "rfm" => FlaggedAreFree(bank, n)
    BY <1>1, <1>2 DEF StallInv, Accounted, FlaggedAreFree
  <2> QED  BY <2>1, <2>2, <2>3 DEF Accounted
<1> QED  BY <1>1, <1>4, <1>5, AfterFlagsType, ElapseStalls

\* The auto-refresh replaces what is left of any stall of the rank.
LEMMA RefreshStalls == ASSUME IInv, Refresh PROVE StallInv'
<1> DEFINE m == Stalled(FlagStall)
           n == Stalled(RefreshStall)
<1>1. TypeOK /\ Accounted(AfterFlags, m)
  BY FlagStalls DEF IInv
<1>2. \A b \in Bank : Kept[b] \in Nat /\ (b \in BanksOf(NextRank) => Kept[b] = 0)
  BY <1>1, KeptType DEF Forfeits, BanksOf, Refresh
<1>3. \A b \in Bank : IF b \in BanksOf(NextRank) THEN n[b] = tRFC_t
                      ELSE n[b] = m[b] /\ RefreshedBanks[b] = AfterFlags[b]
  BY <1>2, TimingFacts, LongerFacts DEF Stalled, RefreshStall, RefreshedBanks
<1>4. StallsHold(RefreshedBanks, n)
  <2>1. ASSUME NEW b \in Bank, n[b] > 0
        PROVE  /\ RefreshedBanks[b].action_type \in {"precharge", "refresh"}
               /\ n[b] + RefreshedBanks[b].age <= tRP
    <3> HIDE DEF m, n
    <3>1. CASE b \in BanksOf(NextRank)
      BY <3>1, <1>1, <1>3, RefreshedType, TimingFacts
    <3>2. CASE b \notin BanksOf(NextRank)
      BY <2>1, <3>2, <1>1, <1>3 DEF Accounted, StallsHold
    <3> QED  BY <3>1, <3>2
  <2> HIDE DEF n
  <2> QED  BY <2>1 DEF StallsHold
<1>5. ASSUME mode = "rank" PROVE WholeRanks(RefreshedBanks, n)
  <2>1. WholeRanks(AfterFlags, m) /\ \A b \in Bank : ~AfterFlags[b].flag
    BY <1>1, <1>5, FlagStalls DEF Accounted
  <2> HIDE DEF m, n
  <2>2. \A b \in Bank : ~RefreshedBanks[b].flag
    BY <2>1, <1>1, <1>3, RefreshedType
  <2>3. ASSUME NEW b \in Bank, NEW c \in Bank, b[1] = c[1] PROVE n[b] = n[c]
    <3>1. b \in BanksOf(NextRank) <=> c \in BanksOf(NextRank)
      BY <2>3 DEF BanksOf
    <3>2. m[b] = m[c]
      BY <2>1, <2>3 DEF WholeRanks
    <3> QED  BY <3>1, <3>2, <1>3
  <2> QED  BY <2>2, <2>3, Zenon DEF WholeRanks
<1>6. ASSUME mode = "rfm" PROVE FlaggedAreFree(RefreshedBanks, n)
  <2> HIDE DEF m, n
  <2>1. FlaggedAreFree(AfterFlags, m)
    BY <1>1, <1>6 DEF Accounted
  <2>2. \A b \in BanksOf(NextRank) \cap Bank : RefreshedBanks[b].action_type = "refresh"
    BY <1>1, RefreshedType
  <2> QED  BY <1>3, <2>1, <2>2 DEF FlaggedAreFree
<1>7. Elapse(RefreshedBanks, bus, RefreshStall)
  BY DEF Refresh, RefreshedBanks, RefreshStall
<1>8. Accounted(RefreshedBanks, n)
  BY <1>4, <1>5, <1>6 DEF Accounted
<1> QED  BY <1>1, <1>7, <1>8, RefreshedType, ElapseStalls

\* A bank that may be activated has no stall left, not even one of this pass.
LEMMA ActivateStalls ==
    ASSUME IInv, NEW i \in 1..Len(RequestsNow), Activate(AfterFlags, i)
    PROVE  StallInv'
<1> DEFINE b == Event(i).bank
           m == Stalled(FlagStall)
<1>1. /\ TypeOK /\ Accounted(AfterFlags, m) /\ StallsHold(AfterFlags, m)
      /\ m \in [Bank -> Nat]
  BY FlagStalls, AfterFlagsType, StalledType DEF IInv, Accounted
<1>2. b \in Bank /\ Event(i).page \in Page
  BY <1>1, RequestsType
<1>3. PICK asks \in BOOLEAN :
          Elapse([AfterFlags EXCEPT ![b].action_type = "activate", ![b].age = 0,
                                    ![b].page = Event(i).page, ![b].act = 0,
                                    ![b].flag = @ \/ asks],
                 [bus EXCEPT !.act[b[1]] = 0], FlagStall)
  BY Zenon DEF Activate
<1> DEFINE new == Opened(AfterFlags[b], Event(i).page, asks)
           B == [AfterFlags EXCEPT ![b] = new]
<1>4. new \in BankStatus /\ new.action_type = "activate"
  BY <1>1, <1>2, AfterFlagsType, OpenedType
<1>5. m[b] = 0
  <2>1. \/ AfterFlags[b].action_type = "idle"
        \/ AfterFlags[b].age >= tRP
    BY DEF Activate, CanActivate
  <2>2. AfterFlags[b].age \in Int
    BY <1>1, <1>2, AfterFlagsType DEF BankStatus
  <2>3. m[b] > 0 => /\ AfterFlags[b].action_type \in {"precharge", "refresh"}
                    /\ m[b] + AfterFlags[b].age <= tRP
    BY <1>1, <1>2 DEF StallsHold
  <2> HIDE DEF m, b
  <2> QED  BY <1>1, <1>2, <2>1, <2>2, <2>3, TimingFacts
<1>6. Elapse(B, [bus EXCEPT !.act[b[1]] = 0], FlagStall)
  <2> HIDE DEF b
  <2> QED  BY <1>3, Zenon DEF Opened
<1>7. /\ B \in [Bank -> BankStatus] /\ B[b] = new
      /\ \A c \in Bank : c # b => B[c] = AfterFlags[c]
  <2> HIDE DEF b, new
  <2> QED  BY <1>1, <1>2, <1>4, AfterFlagsType
<1>8. StallsHold(B, m)
  <2> HIDE DEF B, m, b, new
  <2>1. ASSUME NEW c \in Bank, m[c] > 0
        PROVE  B[c].action_type \in {"precharge", "refresh"} /\ m[c] + B[c].age <= tRP
    BY <1>1, <1>5, <1>7, <2>1 DEF StallsHold
  <2> QED  BY <2>1 DEF StallsHold
<1>9. ASSUME mode = "rank" PROVE WholeRanks(B, m)
  <2>1. WholeRanks(AfterFlags, m) /\ \A c \in Bank : ~AfterFlags[c].flag
    BY <1>1, <1>9, FlagStalls DEF Accounted
  <2> HIDE DEF B, m, b, new
  <2>2. \A c \in Bank : B[c].flag => c = b
    BY <2>1, <1>7
  <2>3. \A c \in Bank : B[c].flag => m[c] = 0
    BY <2>2, <1>5
  <2>4. \A c, d \in Bank : B[c].flag /\ B[d].flag => c[1] = d[1]
    BY <2>2
  <2> QED  BY <2>1, <2>3, <2>4, Zenon DEF WholeRanks
<1>10. ASSUME mode = "rfm" PROVE FlaggedAreFree(B, m)
  <2> HIDE DEF B, m, b, new
  <2>1. FlaggedAreFree(AfterFlags, m)
    BY <1>1, <1>10 DEF Accounted
  <2> QED  BY <1>5, <1>7, <2>1 DEF FlaggedAreFree
<1>11. Accounted(B, m)
  BY <1>8, <1>9, <1>10 DEF Accounted
<1> QED
  <2> HIDE DEF B, b
  <2> QED  BY <1>1, <1>6, <1>7, <1>11, AfterFlagsType, ElapseStalls

\* A row miss closes one open bank, with the mitigation it owes.
LEMMA PrechargeStalls ==
    ASSUME IInv, NEW i \in 1..Len(RequestsNow), Precharge(AfterFlags, i)
    PROVE  StallInv'
<1> DEFINE b == Event(i).bank
           B == [AfterFlags EXCEPT ![b] = Closing(AfterFlags[b], 0)]
           stall == [FlagStall EXCEPT ![b] = ClosingStall(AfterFlags[b], 0)]
<1>1. TypeOK
  BY DEF IInv
<1>2. b \in Bank /\ AfterFlags[b].action_type \in Open
  BY <1>1, RequestsType DEF Precharge, CanPrecharge, Open
<1>3. AfterFlags[b] \in BankStatus /\ 0 \in Nat
  BY <1>1, <1>2, AfterFlagsType
<1>4. B \in [Bank -> BankStatus] /\ stall \in [Bank -> Nat]
  BY <1>1, <1>2, <1>3, AfterFlagsType, ClosingFacts
<1>5. /\ B[b] = Closing(AfterFlags[b], 0) /\ stall[b] = ClosingStall(AfterFlags[b], 0)
      /\ \A c \in Bank : c # b => B[c] = AfterFlags[c] /\ stall[c] = FlagStall[c]
  <2> HIDE DEF b
  <2> QED  BY <1>1, <1>2, AfterFlagsType
<1>6. Elapse(B, bus, stall)
  BY DEF Precharge
<1> HIDE DEF B, stall, b
<1>7. Accounted(B, Stalled(stall))
  BY <1>2, <1>3, <1>4, <1>5, ClosingStalls
<1> QED  BY <1>1, <1>4, <1>6, <1>7, ElapseStalls

\* An access leaves its bank open, or closed with the mitigation it owes.
LEMMA AccessStalls ==
    ASSUME IInv, NEW i \in 1..Len(RequestsNow), Access(AfterFlags, i)
    PROVE  StallInv'
<1> DEFINE b == Event(i).bank
           write == Event(i).write
           delay == IF write THEN tWTP ELSE tRTP
           t == Accessed(AfterFlags[b], write)
           B == [AfterFlags EXCEPT ![b] = AccessedBank(b, write)]
           stall == [FlagStall EXCEPT ![b] = AccessStall(b, write)]
<1>1. TypeOK
  BY DEF IInv
<1>2. b \in Bank /\ write \in BOOLEAN /\ AfterFlags[b].action_type \in Open
  BY <1>1, RequestsType DEF Access, CanAccess
<1>3. t \in BankStatus /\ t.action_type \in Open /\ t.flag = AfterFlags[b].flag
  BY <1>1, <1>2, AfterFlagsType, AccessedType
<1>4. delay \in Nat
  BY TimingFacts
<1>5. \/ AccessedBank(b, write) = t /\ AccessStall(b, write) = 0
      \/ /\ policy = "closed"
         /\ AccessedBank(b, write) = Closing(t, delay)
         /\ AccessStall(b, write) = ClosingStall(t, delay)
  BY DEF AccessedBank, AccessStall
<1>6. AccessedBank(b, write) \in BankStatus /\ AccessStall(b, write) \in Nat
  <2> HIDE DEF t, delay
  <2>1. Closing(t, delay) \in BankStatus /\ ClosingStall(t, delay) \in Nat
    BY <1>1, <1>3, <1>4, ClosingFacts
  <2>2. 0 \in Nat
    OBVIOUS
  <2> QED  BY <1>3, <1>5, <2>1, <2>2, Zenon
<1>7. /\ B \in [Bank -> BankStatus] /\ stall \in [Bank -> Nat]
      /\ B[b] = AccessedBank(b, write) /\ stall[b] = AccessStall(b, write)
      /\ \A c \in Bank : c # b => B[c] = AfterFlags[c] /\ stall[c] = FlagStall[c]
  <2> HIDE DEF b, write
  <2> QED  BY <1>1, <1>2, <1>6, AfterFlagsType
<1>8. PICK s \in BusStatus : Elapse(B, s, stall)
  BY <1>1, AccessType
<1> HIDE DEF B, stall, t, delay, b, write
<1>9. Accounted(B, Stalled(stall))
  BY <1>2, <1>3, <1>4, <1>5, <1>7, ClosingStalls
<1> QED  BY <1>1, <1>7, <1>8, <1>9, ElapseStalls

\* A time-out closes open banks, with the mitigations they owe.
LEMMA TimeOutStalls ==
    ASSUME IInv, TimeOut(AfterFlags)
    PROVE  StallInv'
<1>1. TypeOK
  BY DEF IInv
<1>2. ASSUME NEW b \in Bank
      PROVE  /\ AfterFlags[b] \in BankStatus
             /\ Closing(AfterFlags[b], 0) \in BankStatus
             /\ ClosingStall(AfterFlags[b], 0) \in Nat
             /\ FirstOverdue(AfterFlags, b) => AfterFlags[b].action_type \in Open
             /\ 0 \in Nat
  <2>1. AfterFlags[b] \in BankStatus /\ 0 \in Nat
    BY <1>1, AfterFlagsType
  <2>2. FirstOverdue(AfterFlags, b) => AfterFlags[b].action_type \in Open
    BY DEF FirstOverdue, Overdue, Open
  <2> QED  BY <1>1, <2>1, <2>2, ClosingFacts
<1>3. TimedOut \in [Bank -> BankStatus] /\ TimeOutStall \in [Bank -> Nat]
  BY <1>1, <1>2, AfterFlagsType DEF TimedOut, TimeOutStall
<1>4. \A b \in Bank :
          \/ TimedOut[b] = AfterFlags[b] /\ TimeOutStall[b] = FlagStall[b]
          \/ /\ AfterFlags[b].action_type \in Open
             /\ TimedOut[b] = Closing(AfterFlags[b], 0)
             /\ TimeOutStall[b] = ClosingStall(AfterFlags[b], 0)
  BY <1>2 DEF TimedOut, TimeOutStall
<1>5. Accounted(TimedOut, Stalled(TimeOutStall))
  BY <1>2, <1>3, <1>4, ClosingStalls
<1>6. Elapse(TimedOut, bus, TimeOutStall)
  BY DEF TimeOut, TimedOut, TimeOutStall
<1> QED  BY <1>1, <1>3, <1>5, <1>6, ElapseStalls

\* Every step keeps the invariant.
LEMMA NextInv == IInv /\ [Next]_vars => IInv'
<1> SUFFICES ASSUME IInv, [Next]_vars PROVE IInv'
  OBVIOUS
<1>1. TypeOK'
  BY NextType DEF IInv
<1>2. CASE Sleep
  BY <1>1, <1>2, SleepStalls DEF IInv
<1>3. CASE Refresh
  BY <1>1, <1>3, RefreshStalls DEF IInv
<1>4. CASE Command
  <2>1. StallInv'
    BY <1>4, CommandCases, ActivateStalls, PrechargeStalls, AccessStalls, TimeOutStalls
  <2> QED  BY <1>1, <2>1 DEF IInv
<1>5. CASE UNCHANGED <<mode, bank, busy>>
  BY <1>1, <1>5 DEF IInv, StallInv, Accounted, StallsHold, WholeRanks, FlaggedAreFree
<1>6. ASSUME NEW q \in Request, Arrive(q) PROVE UNCHANGED <<mode, bank, busy>>
  BY <1>6 DEF Arrive
<1>7. CASE UNCHANGED vars
  BY <1>5, <1>7 DEF vars
<1> QED  BY <1>2, <1>3, <1>4, <1>5, <1>6, <1>7 DEF Next, Step

\* Stalls, and what is left of them, are accounted for by action_time at all times.
THEOREM Invariance == Spec => []IInv
<1>1. Init => IInv
  BY InitType, InitStalls DEF IInv
<1>2. IInv /\ [Next]_vars => IInv'
  BY NextInv
<1> QED  BY <1>1, <1>2, PTL DEF Spec

\* For every topology, timing, window and mix of requests, and for mitigations of any
\* length and kind, no bank is opened while rows of it are being refreshed, as long as the
\* auto-refresh of its rank (PTSMemoryController.cc:1030) or an RFM (1123) has not replaced
\* that refresh: those two are the only steps that cut one short.
THEOREM StallsAlwaysRunOut == Spec => []StallsRunOut
<1>1. IInv => StallsRunOut
  <2> SUFFICES ASSUME IInv PROVE StallsRunOut
    OBVIOUS
  <2>1. busy \in [Bank -> Nat] /\ StallsHold(bank, busy)
    BY DEF IInv, TypeOK, StallInv, Accounted
  <2> QED  BY <2>1, OpenIsFree DEF StallsRunOut
<1>2. Spec => []IInv
  BY Invariance
<1> QED  BY <1>1, <1>2, PTL
-------------------------------------------------------------------------------------
(* BanksSound for every topology, set of timings, configuration and mix of requests.     *)
(* The invariant is BanksSound with one conjunct more: where flags are served by rank,   *)
(* one rank at most has any, so that a pass that serves a rank leaves no flag behind.    *)

AgesReached(B) == \A b \in Bank : B[b].action_type \in Open => B[b].age >= 0

\* The request at position i of the queue q asks for the row that bank b has open in B.
AsksFor(q, i, B, b) ==
    local_event[q[i]].bank = b /\ local_event[q[i]].page = B[b].page
Wanted(q, B) ==
    \A b \in Bank : B[b].action_type = "activate" =>
        \E i \in 1..Len(q) : i <= req_window_sz /\ AsksFor(q, i, B, b)

FlagsSeen(B, w) ==
    \A b \in Bank : B[b].flag =>
        IF mode = "bank" THEN B[b].action_type \in Open \cup {"refresh"} ELSE w

OneRankFlagged(B) ==
    mode = "rank" => \A b, c \in Bank : B[b].flag /\ B[c].flag => b[1] = c[1]

Sound(B, q, w) ==
    AgesReached(B) /\ Wanted(q, B) /\ FlagsSeen(B, w) /\ OneRankFlagged(B)

BankInv == TypeOK /\ Sound(bank, req_l, wake)

LEMMA BankInvImplies == BankInv => BanksSound
BY DEF BankInv, Sound, AgesReached, Wanted, AsksFor, FlagsSeen,
       BanksSound, ScanEnds, OpenedIsWanted, FlagsAreServed

\* Time changes the ages of what a pass leaves, and nothing else of a bank.
LEMMA ElapseSound ==
    ASSUME TypeOK, NEW B \in [Bank -> BankStatus], NEW s, NEW stall,
           Elapse(B, s, stall), Sound(B, req_l', wake')
    PROVE  Sound(bank, req_l, wake)'
<1>1. ASSUME NEW b \in Bank
      PROVE  /\ bank'[b].action_type = B[b].action_type
             /\ bank'[b].flag = B[b].flag /\ bank'[b].page = B[b].page
             /\ B[b].age >= 0 => bank'[b].age >= 0
  <2>1. bank'[b] = [B[b] EXCEPT !.age = Older(@, Old), !.act = Older(@, Old)]
    BY DEF Elapse
  <2>2. B[b] \in BankStatus
    OBVIOUS
  <2>3. /\ bank'[b].action_type = B[b].action_type
        /\ bank'[b].flag = B[b].flag /\ bank'[b].page = B[b].page
        /\ bank'[b].age = Older(B[b].age, Old)
    BY <2>1, <2>2, Zenon DEF BankStatus
  <2>4. B[b].age \in Int /\ B[b].age <= Old
    BY <2>2 DEF BankStatus
  <2>5. Older(B[b].age, Old) \in Int /\ B[b].age <= Older(B[b].age, Old)
    BY <2>4, OlderFacts, TimingFacts
  <2> QED  BY <2>3, <2>4, <2>5
<1>2. mode' = mode
  BY DEF Elapse
<1>3. AgesReached(bank)'
  BY <1>1 DEF Sound, AgesReached
<1>4. Wanted(req_l, bank)'
  BY <1>1 DEF Sound, Wanted, AsksFor
<1>5. FlagsSeen(bank, wake)'
  BY <1>1, <1>2 DEF Sound, FlagsSeen
<1>6. OneRankFlagged(bank)'
  BY <1>1, <1>2 DEF Sound, OneRankFlagged
<1> QED  BY <1>3, <1>4, <1>5, <1>6 DEF Sound

---------------------------------------------------------------------------------------
(* The service of the flags *)

\* What is left of the flags is for the closing of a bank, or for the next pass.
LEMMA FlagsLeft ==
    ASSUME BankInv
    PROVE  \A b \in Bank : AfterFlags[b].flag =>
               \/ mode = "bank" /\ AfterFlags[b].action_type \in Open \cup {"refresh"}
               \/ mode = "rfm" /\ Refreshing
<1>1. TypeOK /\ mode \in Modes /\ FlagsSeen(bank, wake) /\ OneRankFlagged(bank)
  BY TopologyAssumption DEF BankInv, Sound, TypeOK
<1>2. \A b \in Bank : /\ b \notin ServedBanks => AfterFlags[b] = bank[b]
                      /\ b \in ServedBanks => AfterFlags[b].flag = FALSE
  BY <1>1, AfterFlagsType
<1>3. CASE mode = "bank"
  <2>1. ServedBanks = {}
    BY <1>3 DEF ServedBanks
  <2> QED  BY <1>1, <1>2, <1>3, <2>1 DEF FlagsSeen
<1>4. CASE mode = "rank"
  <2>1. \A b \in Bank : bank[b].flag => b \in ServedBanks
    <3>1. SUFFICES ASSUME NEW b \in Bank, bank[b].flag PROVE b \in ServedBanks
      OBVIOUS
    <3>2. b[1] \in FlaggedRanks /\ b[1] \in Nat
      BY <3>1, ConstantFacts DEF FlaggedRanks, BanksOf
    <3>3. \A j \in FlaggedRanks : j = b[1]
      BY <1>1, <1>4, <3>1 DEF FlaggedRanks, BanksOf, OneRankFlagged
    <3>4. (CHOOSE k \in FlaggedRanks : \A j \in FlaggedRanks : k <= j) = b[1]
      <4>1. \E k \in FlaggedRanks : \A j \in FlaggedRanks : k <= j
        BY <3>2, <3>3
      <4>2. (CHOOSE k \in FlaggedRanks : \A j \in FlaggedRanks : k <= j) \in FlaggedRanks
        BY <4>1
      <4> QED  BY <3>3, <4>2
    <3> QED  BY <1>4, <3>2, <3>4 DEF ServedBanks, BanksOf
  <2> QED  BY <1>2, <2>1
<1>5. CASE mode = "rfm" /\ ~Refreshing
  BY <1>2, <1>5 DEF ServedBanks
<1>6. CASE mode = "rfm" /\ Refreshing
  BY <1>6
<1> QED  BY <1>1, <1>3, <1>4, <1>5, <1>6 DEF Modes

\* A bank that is open after the service of the flags was not touched by it.
LEMMA OpenUntouched ==
    ASSUME TypeOK, NEW b \in Bank, AfterFlags[b].action_type \in Open
    PROVE  AfterFlags[b] = bank[b]
<1>1. CASE b \in ServedBanks
  <2>1. AfterFlags[b].action_type \in {"refresh", "precharge"}
    BY <1>1, AfterFlagsType
  <2> QED  BY <2>1 DEF Open
<1>2. CASE b \notin ServedBanks
  BY <1>2, AfterFlagsType
<1> QED  BY <1>1, <1>2

\* Arrivals come behind the requests that wait.
LEMMA StillWanted ==
    ASSUME BankInv, NEW b \in Bank, AfterFlags[b].action_type = "activate"
    PROVE  \E i \in 1..Len(RequestsNow) :
               i <= req_window_sz /\ AsksFor(RequestsNow, i, AfterFlags, b)
<1>1. TypeOK /\ AfterFlags[b] = bank[b]
  BY OpenUntouched DEF BankInv, Open
<1>2. PICK i \in 1..Len(req_l) : i <= req_window_sz /\ AsksFor(req_l, i, bank, b)
  BY <1>1 DEF BankInv, Sound, Wanted
<1>3. req_l \in Seq(Request) /\ req_event \in Seq(Request)
  BY <1>1 DEF TypeOK
<1>4. i \in 1..Len(RequestsNow) /\ RequestsNow[i] = req_l[i]
  <2>1. /\ Len(req_l) \in Nat /\ Len(req_event) \in Nat
        /\ Len(RequestsNow) = Len(req_l) + Len(req_event)
        /\ \A j \in 1..Len(req_l) + Len(req_event) :
               RequestsNow[j] = IF j <= Len(req_l) THEN req_l[j] ELSE req_event[j - Len(req_l)]
    BY <1>3, ConcatProperties, LenProperties DEF RequestsNow
  <2> QED  BY <2>1
<1> QED  BY <1>1, <1>2, <1>4 DEF AsksFor

\* Requests move up by one position at most when one is served.
LEMMA WithoutFacts ==
    ASSUME NEW q \in Seq(Request), NEW i \in 1..Len(q), NEW j \in 1..Len(q), j # i
    PROVE  \E k \in 1..Len(Without(q, i)) : k <= j /\ Without(q, i)[k] = q[j]
<1> DEFINE n == Len(q)
           head == SubSeq(q, 1, i - 1)
           tail == SubSeq(q, i + 1, n)
<1>1. n \in Nat /\ i \in 1..n /\ j \in 1..n /\ \A k \in 1..n : q[k] \in Request
  BY LenProperties, ElementOfSeq
<1> HIDE DEF n
<1>2. /\ head \in Seq(Request) /\ Len(head) = i - 1
      /\ \A k \in 1..i-1 : head[k] = q[k]
  <2>1. 1 \in Int /\ i - 1 \in Int /\ \A k \in 1..i-1 : q[k] \in Request
    BY <1>1
  <2>2. /\ head \in Seq(Request)
        /\ Len(head) = IF 1 <= i - 1 THEN (i - 1) - 1 + 1 ELSE 0
        /\ \A k \in 1..(i - 1) - 1 + 1 : head[k] = q[1 + k - 1]
    BY <2>1, SubSeqProperties
  <2> HIDE DEF head
  <2>3. (i - 1) - 1 + 1 = i - 1 /\ \A k \in 1..i-1 : 1 + k - 1 = k
    BY <1>1
  <2> QED  BY <1>1, <2>2, <2>3
<1>3. /\ tail \in Seq(Request) /\ Len(tail) = n - i
      /\ \A k \in 1..n-i : tail[k] = q[i + k]
  <2>1. i + 1 \in Int /\ n \in Int /\ \A k \in i+1..n : q[k] \in Request
    BY <1>1
  <2>2. /\ tail \in Seq(Request)
        /\ Len(tail) = IF i + 1 <= n THEN n - (i + 1) + 1 ELSE 0
        /\ \A k \in 1..n-(i+1)+1 : tail[k] = q[(i + 1) + k - 1]
    BY <2>1, SubSeqProperties
  <2> HIDE DEF tail
  <2>3. n - (i + 1) + 1 = n - i /\ \A k \in 1..n-i : (i + 1) + k - 1 = i + k
    BY <1>1
  <2> QED  BY <1>1, <2>2, <2>3
<1>4. Without(q, i) = head \o tail
  BY DEF Without, n
<1> HIDE DEF head, tail
<1>5. /\ Len(head \o tail) = n - 1
      /\ \A k \in 1..n-1 : (head \o tail)[k] = IF k <= i - 1 THEN head[k] ELSE tail[k - (i - 1)]
  <2>1. /\ Len(head \o tail) = Len(head) + Len(tail)
        /\ \A k \in 1..Len(head)+Len(tail) :
               (head \o tail)[k] = IF k <= Len(head) THEN head[k] ELSE tail[k - Len(head)]
    BY <1>2, <1>3, ConcatProperties
  <2>2. Len(head) + Len(tail) = n - 1
    BY <1>1, <1>2, <1>3
  <2> QED  BY <1>2, <2>1, <2>2
<1>6. CASE j < i
  <2>1. j \in 1..n-1 /\ j \in 1..i-1 /\ j <= i - 1 /\ j <= j
    BY <1>1, <1>6
  <2>2. (head \o tail)[j] = q[j]
    BY <1>2, <1>5, <2>1
  <2> QED  BY <1>4, <1>5, <2>1, <2>2
<1>7. CASE j > i
  <2>1. /\ j - 1 \in 1..n-1 /\ ~(j - 1 <= i - 1) /\ (j - 1) - (i - 1) = j - i
        /\ j - i \in 1..n-i /\ i + (j - i) = j /\ j - 1 <= j
    BY <1>1, <1>7
  <2>2. (head \o tail)[j - 1] = q[j]
    BY <1>3, <1>5, <2>1
  <2> QED  BY <1>4, <1>5, <2>1, <2>2
<1> QED  BY <1>1, <1>6, <1>7

---------------------------------------------------------------------------------------
(* The commands *)

\* A pass with at most one command: it leaves a bank as the flags did, or accesses an open
\* one, or closes an open one.
LEMMA PassSound ==
    ASSUME BankInv, ~Refreshing, NEW B \in [Bank -> BankStatus],
           \A b \in Bank :
               \/ B[b] = AfterFlags[b]
               \/ /\ AfterFlags[b].action_type \in Open
                  /\ B[b].action_type \in {"read", "write"} /\ B[b].age = 0
                  /\ B[b].flag = AfterFlags[b].flag
               \/ \E s \in BankStatus, delay \in Nat :
                      s.flag = AfterFlags[b].flag /\ B[b] = Closing(s, delay)
    PROVE  /\ AgesReached(B) /\ OneRankFlagged(B) /\ \A w : FlagsSeen(B, w)
           /\ \A b \in Bank : B[b].action_type = "activate" => B[b] = AfterFlags[b]
<1>1. TypeOK /\ AgesReached(bank)
  BY DEF BankInv, Sound
<1>2. ASSUME NEW b \in Bank
      PROVE  /\ B[b].action_type \in Open => B[b].age >= 0
             /\ B[b].flag => mode = "bank" /\ B[b].action_type \in Open \cup {"refresh"}
             /\ B[b].action_type = "activate" => B[b] = AfterFlags[b]
  <2>1. AfterFlags[b].flag =>
            mode = "bank" /\ AfterFlags[b].action_type \in Open \cup {"refresh"}
    BY FlagsLeft
  <2>2. CASE B[b] = AfterFlags[b]
    <3>1. B[b].action_type \in Open => B[b].age >= 0
      BY <1>1, <2>2, OpenUntouched DEF AgesReached
    <3> QED  BY <2>1, <2>2, <3>1
  <2>3. CASE /\ AfterFlags[b].action_type \in Open
             /\ B[b].action_type \in {"read", "write"} /\ B[b].age = 0
             /\ B[b].flag = AfterFlags[b].flag
    BY <2>1, <2>3 DEF Open
  <2>4. CASE \E s \in BankStatus, delay \in Nat :
                 s.flag = AfterFlags[b].flag /\ B[b] = Closing(s, delay)
    <3>1. PICK s \in BankStatus, delay \in Nat :
              s.flag = AfterFlags[b].flag /\ B[b] = Closing(s, delay)
      BY <2>4
    <3>2. B[b].action_type = "precharge" /\ (B[b].flag => s.flag)
      <4>1. Closing(s, delay).action_type = "precharge" /\ (Closing(s, delay).flag => s.flag)
        BY <1>1, ClosingFacts
      <4> QED  BY <3>1, <4>1, Zenon
    <3>3. B[b].flag => ~Owes(s)
      <4> DEFINE d == delay + IF Owes(s) THEN Service[mode] ELSE 0
                 c == Closed(s, "precharge", d)
      <4>1. d \in Nat
        BY <1>1, AfterFlagsType
      <4> HIDE DEF d
      <4>2. c \in BankStatus
        BY <4>1, ClosedType DEF Shut
      <4>3. Closing(s, delay) = [c EXCEPT !.flag = @ /\ ~Owes(s)]
        BY DEF Closing, d
      <4> HIDE DEF c
      <4>4. Closing(s, delay).flag = (c.flag /\ ~Owes(s))
        BY <4>2, <4>3, Zenon DEF BankStatus
      <4> QED  BY <3>1, <4>4
    <3>4. ~B[b].flag
      BY <2>1, <3>1, <3>2, <3>3 DEF Owes
    <3> QED  BY <3>2, <3>4 DEF Open
  <2> QED  BY <2>2, <2>3, <2>4
<1>3. AgesReached(B)
  BY <1>2 DEF AgesReached
<1>4. OneRankFlagged(B)
  BY <1>2 DEF OneRankFlagged
<1>5. \A w : FlagsSeen(B, w)
  BY <1>2 DEF FlagsSeen
<1> QED  BY <1>2, <1>3, <1>4, <1>5

LEMMA SleepSound == ASSUME BankInv, Sleep PROVE Sound(bank, req_l, wake)'
<1>1. Elapse(bank, bus, NoStall) /\ req_l' = req_l /\ wake' = wake
  BY DEF Sleep
<1>2. bank \in [Bank -> BankStatus] /\ TypeOK /\ Sound(bank, req_l', wake')
  BY <1>1 DEF BankInv, TypeOK
<1> QED  BY <1>1, <1>2, ElapseSound

\* The auto-refresh closes banks whatever they owe, and keeps the controller awake.
LEMMA RefreshSound == ASSUME BankInv, Refresh PROVE Sound(bank, req_l, wake)'
<1>1. /\ Elapse(RefreshedBanks, bus, RefreshStall)
      /\ req_l' = RequestsNow /\ wake' = TRUE
  BY DEF Refresh, RefreshedBanks, RefreshStall, RequestsNow
<1>2. TypeOK /\ AgesReached(bank) /\ mode \in Modes
  BY TopologyAssumption DEF BankInv, Sound, TypeOK
<1>3. ASSUME NEW b \in Bank
      PROVE  \/ RefreshedBanks[b] = AfterFlags[b]
             \/ /\ RefreshedBanks[b].action_type = "refresh"
                /\ RefreshedBanks[b].flag = AfterFlags[b].flag
  <2>1. CASE b \in BanksOf(NextRank)
    BY <1>2, <2>1, RefreshedType
  <2>2. CASE b \notin BanksOf(NextRank)
    BY <2>2 DEF RefreshedBanks
  <2> QED  BY <2>1, <2>2
<1>4. AgesReached(RefreshedBanks)
  BY <1>2, <1>3, OpenUntouched DEF AgesReached, Open
<1>5. Wanted(RequestsNow, RefreshedBanks)
  <2>1. SUFFICES ASSUME NEW b \in Bank, RefreshedBanks[b].action_type = "activate"
                 PROVE  \E i \in 1..Len(RequestsNow) :
                            i <= req_window_sz /\ AsksFor(RequestsNow, i, RefreshedBanks, b)
    BY DEF Wanted
  <2>2. RefreshedBanks[b] = AfterFlags[b]
    BY <1>3, <2>1
  <2> QED  BY <2>1, <2>2, StillWanted DEF AsksFor
<1>6. FlagsSeen(RefreshedBanks, TRUE) /\ OneRankFlagged(RefreshedBanks)
  BY <1>2, <1>3, FlagsLeft DEF FlagsSeen, OneRankFlagged, Modes
<1>7. Sound(RefreshedBanks, req_l', wake')
  BY <1>1, <1>4, <1>5, <1>6 DEF Sound
<1> QED  BY <1>1, <1>2, <1>7, RefreshedType, ElapseSound

\* The row that is opened is the row of a request of the window, which stays queued.
LEMMA ActivateSound ==
    ASSUME BankInv, ~Refreshing, NEW i \in Window, Activate(AfterFlags, i)
    PROVE  Sound(bank, req_l, wake)'
<1> DEFINE b == Event(i).bank
<1>1. TypeOK /\ i \in 1..Len(RequestsNow) /\ i <= req_window_sz
  BY DEF BankInv, Window
<1>2. b \in Bank /\ Event(i).page \in Page
  BY <1>1, RequestsType
<1>3. PICK asks \in BOOLEAN :
          Elapse([AfterFlags EXCEPT ![b].action_type = "activate", ![b].age = 0,
                                    ![b].page = Event(i).page, ![b].act = 0,
                                    ![b].flag = @ \/ asks],
                 [bus EXCEPT !.act[b[1]] = 0], FlagStall)
  BY Zenon DEF Activate
<1> DEFINE new == Opened(AfterFlags[b], Event(i).page, asks)
           B == [AfterFlags EXCEPT ![b] = new]
<1>4. /\ new \in BankStatus /\ new.action_type = "activate"
      /\ new.age = 0 /\ new.page = Event(i).page
  <2>1. new \in BankStatus /\ new.action_type = "activate" /\ AfterFlags[b] \in BankStatus
    BY <1>1, <1>2, AfterFlagsType, OpenedType
  <2> HIDE DEF b
  <2> QED  BY <2>1, Zenon DEF Opened, BankStatus
<1>5. Elapse(B, [bus EXCEPT !.act[b[1]] = 0], FlagStall)
  <2> HIDE DEF b
  <2> QED  BY <1>3, Zenon DEF Opened
<1>6. /\ B \in [Bank -> BankStatus] /\ B[b] = new
      /\ \A c \in Bank : c # b => B[c] = AfterFlags[c]
  <2> HIDE DEF b, new
  <2> QED  BY <1>1, <1>2, <1>4, AfterFlagsType
<1>7. req_l' = RequestsNow /\ wake' = TRUE
  <2>1. RequestsNow # <<>>
    BY <1>1
  <2> QED  BY <2>1 DEF Activate, EndsWith
<1>8. /\ AgesReached(AfterFlags)
      /\ \A c \in Bank : AfterFlags[c].flag =>
             mode = "bank" /\ AfterFlags[c].action_type \in Open \cup {"refresh"}
  BY <1>1, OpenUntouched, FlagsLeft DEF AgesReached, BankInv, Sound
<1> HIDE DEF B, new
<1>9. AgesReached(B)
  BY <1>4, <1>6, <1>8 DEF AgesReached
<1>10. Wanted(RequestsNow, B)
  <2>1. SUFFICES ASSUME NEW c \in Bank, B[c].action_type = "activate"
                 PROVE  \E j \in 1..Len(RequestsNow) :
                            j <= req_window_sz /\ AsksFor(RequestsNow, j, B, c)
    BY DEF Wanted
  <2>2. CASE c = b
    <3>1. AsksFor(RequestsNow, i, B, b)
      BY <1>4, <1>6 DEF AsksFor, Event
    <3> QED  BY <1>1, <2>2, <3>1
  <2>3. CASE c # b
    BY <1>6, <2>1, <2>3, StillWanted DEF AsksFor
  <2> QED  BY <2>2, <2>3
<1>11. FlagsSeen(B, TRUE) /\ OneRankFlagged(B)
  <2>1. FlagsSeen(B, TRUE)
    BY <1>4, <1>6, <1>8 DEF FlagsSeen, Open
  <2>2. mode = "rank" => \A c \in Bank : B[c].flag => c = b
    BY <1>6, <1>8
  <2> QED  BY <2>1, <2>2 DEF OneRankFlagged
<1>12. Sound(B, req_l', wake')
  BY <1>7, <1>9, <1>10, <1>11 DEF Sound
<1> QED  BY <1>1, <1>5, <1>6, <1>12, ElapseSound

\* A row miss closes an open bank; every request stays.
LEMMA PrechargeSound ==
    ASSUME BankInv, ~Refreshing, NEW i \in Window, Precharge(AfterFlags, i)
    PROVE  Sound(bank, req_l, wake)'
<1> DEFINE b == Event(i).bank
           B == [AfterFlags EXCEPT ![b] = Closing(AfterFlags[b], 0)]
           stall == [FlagStall EXCEPT ![b] = ClosingStall(AfterFlags[b], 0)]
<1>1. TypeOK /\ i \in 1..Len(RequestsNow)
  BY DEF BankInv, Window
<1>2. b \in Bank
  BY <1>1, RequestsType
<1>3. AfterFlags[b] \in BankStatus /\ 0 \in Nat /\ AfterFlags \in [Bank -> BankStatus]
  BY <1>1, <1>2, AfterFlagsType
<1>4. Closing(AfterFlags[b], 0) \in BankStatus
  BY <1>1, <1>3, ClosingFacts
<1>5. B \in [Bank -> BankStatus] /\ B[b] = Closing(AfterFlags[b], 0)
      /\ \A c \in Bank : c # b => B[c] = AfterFlags[c]
  <2> HIDE DEF b
  <2> QED  BY <1>2, <1>3, <1>4
<1>6. Elapse(B, bus, stall) /\ req_l' = RequestsNow
  BY DEF Precharge, EndsWith
<1> HIDE DEF B, stall
<1>7. /\ AgesReached(B) /\ OneRankFlagged(B) /\ \A w : FlagsSeen(B, w)
      /\ \A c \in Bank : B[c].action_type = "activate" => B[c] = AfterFlags[c]
  BY <1>2, <1>3, <1>5, PassSound
<1>8. Wanted(RequestsNow, B)
  BY <1>7, StillWanted DEF Wanted, AsksFor
<1>9. Sound(B, req_l', wake')
  BY <1>6, <1>7, <1>8 DEF Sound
<1> QED  BY <1>1, <1>5, <1>6, <1>9, ElapseSound

\* The request that is served leaves the queue; the rows that others wait for stay wanted.
LEMMA AccessSound ==
    ASSUME BankInv, ~Refreshing, NEW i \in Window, Access(AfterFlags, i)
    PROVE  Sound(bank, req_l, wake)'
<1> DEFINE b == Event(i).bank
           write == Event(i).write
           t == Accessed(AfterFlags[b], write)
           B == [AfterFlags EXCEPT ![b] = AccessedBank(b, write)]
           stall == [FlagStall EXCEPT ![b] = AccessStall(b, write)]
<1>1. TypeOK /\ i \in 1..Len(RequestsNow)
  BY DEF BankInv, Window
<1>2. b \in Bank /\ write \in BOOLEAN /\ AfterFlags[b].action_type \in Open
  BY <1>1, RequestsType DEF Access, CanAccess
<1>3. AfterFlags[b] \in BankStatus /\ AfterFlags \in [Bank -> BankStatus]
  BY <1>1, <1>2, AfterFlagsType
<1>4. /\ t \in BankStatus /\ t.action_type \in {"read", "write"} /\ t.age = 0
      /\ t.flag = AfterFlags[b].flag
  <2>1. t \in BankStatus /\ t.flag = AfterFlags[b].flag
    BY <1>2, <1>3, AccessedType
  <2>2. t.action_type = (IF write THEN "write" ELSE "read") /\ t.age = 0
    <3> HIDE DEF b, write
    <3> QED  BY <1>3, Zenon DEF Accessed, BankStatus
  <2> HIDE DEF t
  <2> QED  BY <2>1, <2>2
<1>5. tRTP \in Nat /\ tWTP \in Nat
  BY TimingFacts
<1>6. \/ AccessedBank(b, write) = t
      \/ \E delay \in Nat : AccessedBank(b, write) = Closing(t, delay)
  BY <1>5 DEF AccessedBank
<1> HIDE DEF t
<1>7. AccessedBank(b, write) \in BankStatus
  BY <1>1, <1>4, <1>6, ClosingFacts
<1>8. /\ B \in [Bank -> BankStatus] /\ B[b] = AccessedBank(b, write)
      /\ \A c \in Bank : c # b => B[c] = AfterFlags[c]
  <2> HIDE DEF b, write
  <2> QED  BY <1>2, <1>3, <1>7
<1>9. PICK s \in BusStatus : Elapse(B, s, stall)
  BY <1>1, AccessType
<1>10. req_l' = Without(RequestsNow, i)
  BY DEF Access, EndsWith
<1> HIDE DEF B, stall
<1>11. /\ AgesReached(B) /\ OneRankFlagged(B) /\ \A w : FlagsSeen(B, w)
       /\ \A c \in Bank : B[c].action_type = "activate" => B[c] = AfterFlags[c]
  BY <1>2, <1>4, <1>6, <1>8, PassSound
<1>12. B[b].action_type # "activate"
  <2>1. \A delay \in Nat : Closing(t, delay).action_type = "precharge"
    BY <1>1, <1>4, ClosingFacts
  <2> QED  BY <1>4, <1>6, <1>8, <2>1
<1>13. Wanted(req_l', B)
  <2>1. SUFFICES ASSUME NEW c \in Bank, B[c].action_type = "activate"
                 PROVE  \E k \in 1..Len(req_l') :
                            k <= req_window_sz /\ AsksFor(req_l', k, B, c)
    BY DEF Wanted
  <2>2. c # b /\ B[c] = AfterFlags[c]
    BY <1>11, <1>12, <2>1
  <2>3. PICK j \in 1..Len(RequestsNow) :
            j <= req_window_sz /\ AsksFor(RequestsNow, j, AfterFlags, c)
    BY <2>1, <2>2, StillWanted
  <2>4. j # i
    BY <2>2, <2>3 DEF AsksFor, Event
  <2>5. RequestsNow \in Seq(Request)
    BY <1>1, RequestsType
  <2>6. PICK k \in 1..Len(Without(RequestsNow, i)) :
            k <= j /\ Without(RequestsNow, i)[k] = RequestsNow[j]
    BY <1>1, <2>4, <2>5, WithoutFacts
  <2>7. k <= req_window_sz
    <3>1. k \in Int /\ j \in Int /\ req_window_sz \in Int
      BY TopologyAssumption
    <3> QED  BY <2>3, <2>6, <3>1
  <2> QED  BY <1>10, <2>2, <2>3, <2>6, <2>7 DEF AsksFor
<1>14. Sound(B, req_l', wake')
  BY <1>11, <1>13 DEF Sound
<1> QED  BY <1>1, <1>8, <1>9, <1>14, ElapseSound

\* A time-out closes banks whose row was accessed.
LEMMA TimeOutSound ==
    ASSUME BankInv, ~Refreshing, TimeOut(AfterFlags) PROVE Sound(bank, req_l, wake)'
<1>1. TypeOK
  BY DEF BankInv
<1>2. \A b \in Bank : AfterFlags[b] \in BankStatus /\ Closing(AfterFlags[b], 0) \in BankStatus
  BY <1>1, AfterFlagsType, ClosingFacts
<1>3. /\ TimedOut \in [Bank -> BankStatus]
      /\ \A b \in Bank : \/ TimedOut[b] = AfterFlags[b]
                         \/ \E s \in BankStatus, delay \in Nat :
                                s.flag = AfterFlags[b].flag /\ TimedOut[b] = Closing(s, delay)
  BY <1>2 DEF TimedOut
<1>4. Elapse(TimedOut, bus, TimeOutStall) /\ req_l' = RequestsNow
  BY DEF TimeOut, TimedOut, TimeOutStall, EndsWith
<1>5. /\ AgesReached(TimedOut) /\ OneRankFlagged(TimedOut) /\ \A w : FlagsSeen(TimedOut, w)
      /\ \A c \in Bank : TimedOut[c].action_type = "activate" => TimedOut[c] = AfterFlags[c]
  BY <1>3, PassSound
<1>6. Wanted(RequestsNow, TimedOut)
  BY <1>5, StillWanted DEF Wanted, AsksFor
<1>7. Sound(TimedOut, req_l', wake')
  BY <1>4, <1>5, <1>6 DEF Sound
<1> QED  BY <1>1, <1>3, <1>4, <1>7, ElapseSound

---------------------------------------------------------------------------------------
(* The theorem *)

LEMMA CommandSound == ASSUME BankInv, Command PROVE Sound(bank, req_l, wake)'
<1>1. ~Refreshing
  BY DEF Command
<1>2. \/ \E i \in Window :
             Activate(AfterFlags, i) \/ Precharge(AfterFlags, i) \/ Access(AfterFlags, i)
      \/ TimeOut(AfterFlags)
  BY DEF Command, Candidates, Hits, Misses, Fair
<1> QED  BY <1>1, <1>2, ActivateSound, PrechargeSound, AccessSound, TimeOutSound

LEMMA BankStep == BankInv /\ [Next]_vars => BankInv'
<1> SUFFICES ASSUME BankInv, [Next]_vars PROVE BankInv'
  OBVIOUS
<1>1. TypeOK'
  BY NextType DEF BankInv
<1>2. CASE UNCHANGED <<mode, bank, req_l, wake>>
  BY <1>1, <1>2 DEF BankInv, Sound, AgesReached, Wanted, AsksFor, FlagsSeen, OneRankFlagged
<1>3. ASSUME NEW q \in Request, Arrive(q) PROVE UNCHANGED <<mode, bank, req_l, wake>>
  BY <1>3 DEF Arrive
<1>4. CASE UNCHANGED vars
  BY <1>2, <1>4 DEF vars
<1>5. CASE Step
  BY <1>1, <1>5, SleepSound, RefreshSound, CommandSound DEF Step, BankInv
<1> QED  BY <1>2, <1>3, <1>4, <1>5 DEF Next

\* Initially the banks are closed and no flag is up.
LEMMA BankInit == Init => BankInv
BY InitType DEF Init, BankInv, Sound, AgesReached, Wanted, FlagsSeen, OneRankFlagged, Open

(* For every topology, timing, window, configuration and mix of requests: the scan of the *)
(* request list ends (PTSMemoryController.cc:1203), a row that was opened has a request    *)
(* of the window waiting for it, and no flag is left where nobody will look at it.         *)
THEOREM BanksAreSound == Spec => []BanksSound
<1>1. Init => BankInv
  BY BankInit
<1>2. BankInv /\ [Next]_vars => BankInv'
  BY BankStep
<1>3. BankInv => BanksSound
  BY BankInvImplies
<1> QED  BY <1>1, <1>2, <1>3, PTL DEF Spec
=====================================================================================
