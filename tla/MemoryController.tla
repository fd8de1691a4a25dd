-------------------------------- MODULE MemoryController --------------------------------
(* MemoryController::process_event (PTSMemoryController.cc): one pass of the controller  *)
(* over its banks and its request list.  A pass closes the banks whose row-hammer flags  *)
(* are raised, or starts an auto-refresh, or issues one DRAM command for one request, or *)
(* else closes banks that were open for long.  A time is kept as the number of process   *)
(* intervals since then, up to Old; only the action_time of a closed bank may lie ahead, *)
(* which is a negative age.  The tracker is reduced to its answer to an activation.      *)
EXTENDS Integers, Sequences, FiniteSets

CONSTANTS
    num_ranks_per_mc, num_banks_per_rank, num_bank_groups, Thread, Page,
    NoPage,           \* page_num of a closed bank, which these policies do not read
    Request,          \* the requests of the caches; each may come again once it is served
    local_event,      \* local_event[q]: thread, bank, page and kind of request q
    Setups,           \* the pairs of rh_mode and scheduling_policy to start with
    \* DRAM timings, in process intervals
    tRCD, tRR, tRP, tRAS, tRTP, tWTP, tCL, tBL, tBBL, tBBLW, tWRBUB, tRWBUB, tRRBUB,
    tWTR, tRTW, tRTRS, tRDBUB_same_group, tWRBUB_same_group, tM_OPEN_TO, tRFC_t,
    Service,          \* what a mitigation adds to action_time, by rh_mode
    refresh_interval, req_window_sz,
    threshold,        \* Bliss: consecutive requests that blacklist a thread
    clearing_interval,
    AsksAfter,        \* a tracker asks for a mitigation at most every AsksAfter activations
    Old, OldBus       \* bounds: ages of a bank's and of a bus's commands are alike from here on

Rank == 0..num_ranks_per_mc-1
Bank == Rank \X (0..num_banks_per_rank-1)
Group == 0..num_bank_groups-1
GroupOf(b) == b[2] % num_bank_groups
BanksOf(k) == {b \in Bank : b[1] = k}
Period == refresh_interval \div num_ranks_per_mc
Cycle == IF Period % clearing_interval = 0 THEN Period ELSE Period * clearing_interval

\* How a request for a mitigation is served: "bank", when the bank is next closed (PARA,
\* Graphene, Hydra: rh_ref); "rank", by all banks of the rank at the next pass (SRS,
\* ABACuS: rh_swap); "rfm", by the bank at the next pass (RAMPART, PRAC: todo_RFM_flag).
Modes == {"bank", "rank", "rfm"}
Policies == {"open", "m_open", "closed"}
Open == {"activate", "read", "write"}
Shut == {"idle", "precharge", "refresh"}   \* "refresh": precharge, action_type_prev refresh

ASSUME TopologyAssumption ==
    /\ {num_ranks_per_mc, num_banks_per_rank, num_bank_groups} \subseteq Nat \ {0}
    /\ local_event \in [Request -> [th_id : Thread, bank : Bank, page : Page, write : BOOLEAN]]
    /\ 0 \in Thread /\ NoPage \notin Page
    /\ Setups \subseteq Modes \X Policies
    /\ refresh_interval \in Nat /\ Period \in Nat \ {0}
    /\ {req_window_sz, clearing_interval, AsksAfter} \subseteq Nat \ {0}
    /\ threshold \in Nat \ {0, 1}

Timings == {tRCD, tRR, tRP, tRAS, tRTP, tWTP, tCL, tBL, tBBL, tBBLW, tWRBUB, tRWBUB, tRRBUB,
            tWTR, tRTW, tRTRS, tRDBUB_same_group, tWRBUB_same_group, tM_OPEN_TO, tRFC_t}

\* No age at which a constraint ends lies beyond the bounds.
ASSUME TimingAssumption ==
    /\ Timings \subseteq Nat /\ {Old, OldBus} \subseteq Nat
    /\ Service \in [Modes -> Nat]
    /\ tRP <= tRFC_t
    /\ \A d \in {tRCD, tRAS + tRP, tRTP, tWTP, tBBL, tBBLW, tM_OPEN_TO} : d <= Old
    /\ \A d \in {tWRBUB, tRWBUB, tRTW, tRTRS, tRDBUB_same_group, tWRBUB_same_group} :
           tBL + d <= OldBus
    /\ tRR <= OldBus /\ tRRBUB <= OldBus
    /\ tWTR > 0 => tCL + tBL + tWTR <= OldBus

VARIABLES
    mode, policy,     \* the configuration, rh_mode and scheduling_policy
    now,              \* curr_time modulo Cycle
    bank,             \* bank_status
    bus,              \* the last commands of each rank and bank group
    req_event,        \* requests that arrived for this time, in the order of arrival
    req_l,
    wake,             \* the controller has an event at this time
    bliss,            \* my_bliss; event: the next clearing has an event
    curr_refresh_rank,
    acts,             \* activations of a bank since the tracker last asked, below AsksAfter
    busy              \* history: intervals a bank still has for its refreshes, of either kind

vars == <<mode, policy, now, bank, bus, req_event, req_l, wake, bliss, curr_refresh_rank,
          acts, busy>>

BankStatus == [action_type : Open \cup Shut,
               age : {a \in Int : a <= Old},    \* of action_time
               page : Page \cup {NoPage},
               act : 0..Old,                    \* of latest_activate_time
               flag : BOOLEAN]                  \* rh_ref, rh_swap or todo_RFM_flag
BusAges == 0..OldBus
BusStatus == [act : [Rank -> BusAges],          \* of last_activate_time
              rd : [Rank -> BusAges],           \* of last_read_time_rank's command
              wr : [Rank -> BusAges],           \* of last_write_time's command
              col : [Rank \X Group -> BusAges], \* of bank_group_status
              reader : Rank,                    \* last_read_time.first
              last : Rank \cup {-1}]            \* last_rank_num

\* States keep their types: ages stay within their bounds, and the requests that Bliss
\* counts (update_blacklist) below the threshold.
TypeOK ==
    /\ <<mode, policy>> \in Setups
    /\ now \in 0..Cycle-1
    /\ bank \in [Bank -> BankStatus]
    /\ bus \in BusStatus
    /\ req_event \in Seq(Request) /\ req_l \in Seq(Request)
    /\ wake \in BOOLEAN
    /\ bliss \in [th_id : Thread, served : 0..threshold-1, blacklist : SUBSET Thread,
                  event : BOOLEAN]
    /\ curr_refresh_rank \in Rank
    /\ acts \in [Bank -> 0..AsksAfter-1]
    /\ busy \in [Bank -> Nat]

Queued == {(req_l \o req_event)[i] : i \in 1..Len(req_l \o req_event)}

\* The time of the first auto-refresh; no request has come yet.
Init ==
    /\ \E setup \in Setups : mode = setup[1] /\ policy = setup[2]
    /\ now = Period % Cycle
    /\ bank = [b \in Bank |->
           [action_type |-> "idle", age |-> Old, page |-> NoPage, act |-> Old, flag |-> FALSE]]
    /\ bus = [act |-> [k \in Rank |-> OldBus], rd |-> [k \in Rank |-> OldBus],
              wr |-> [k \in Rank |-> OldBus], col |-> [c \in Rank \X Group |-> OldBus],
              reader |-> 0, last |-> -1]
    /\ req_event = <<>> /\ req_l = <<>>
    /\ wake = FALSE
    /\ bliss = [th_id |-> 0, served |-> 0, blacklist |-> {}, event |-> TRUE]
    /\ curr_refresh_rank = 0
    /\ acts = [b \in Bank |-> 0] /\ busy = [b \in Bank |-> 0]
-----------------------------------------------------------------------------------------
(* The banks that a pass is to refresh. *)

Refreshing == now % Period = 0
NextRank == (curr_refresh_rank + 1) % num_ranks_per_mc

\* The first rank with a flag is closed for the mitigation, and its flags are lowered.
FlaggedRanks == {k \in Rank : \E b \in BanksOf(k) : bank[b].flag}
ServedBanks ==
    CASE mode = "rank" /\ FlaggedRanks # {} ->
            BanksOf(CHOOSE k \in FlaggedRanks : \A j \in FlaggedRanks : k <= j)
      [] mode = "rfm" /\ ~Refreshing -> {b \in Bank : bank[b].flag}
      [] OTHER -> {}

\* Whatever refresh still goes on, each assigns action_time: an auto-refresh replaces what
\* is left of a mitigation, an RFM what is left of an auto-refresh.
Forfeits(b) == \/ Refreshing /\ b[1] = NextRank
               \/ mode = "rfm" /\ b \in ServedBanks /\ bank[b].action_type = "refresh"
Kept == [b \in Bank |-> IF Forfeits(b) THEN 0 ELSE busy[b]]
-----------------------------------------------------------------------------------------
(* Time. *)

Older(a, old) == IF a < old THEN a + 1 ELSE old
Longer(a, b) == IF a >= b THEN a ELSE b
Less(a) == IF a > 0 THEN a - 1 ELSE 0
AllOlder(f) == [x \in DOMAIN f |-> Older(f[x], OldBus)]

\* One process interval goes by: B and s are bank and bus as the pass leaves them, and
\* stall[b] the time that bank b has just been given for refreshing rows.
Elapse(B, s, stall) ==
    /\ now' = (now + 1) % Cycle
    /\ bank' = [b \in Bank |-> [B[b] EXCEPT !.age = Older(@, Old), !.act = Older(@, Old)]]
    /\ bus' = [s EXCEPT !.act = AllOlder(@), !.rd = AllOlder(@), !.wr = AllOlder(@),
                        !.col = AllOlder(@)]
    /\ busy' = [b \in Bank |-> Less(Longer(Kept[b], stall[b]))]
    /\ UNCHANGED <<mode, policy>>

NoStall == [b \in Bank |-> 0]

\* process_event is called for requests, for an event of its own, or for a clearing.
Called ==
    \/ Refreshing \/ wake \/ req_event # <<>>
    \/ bliss.event /\ now % clearing_interval = 0

Clearing == now % clearing_interval = 0 /\ req_l # <<>>
Blacklist == IF Clearing THEN {} ELSE bliss.blacklist
NextClearing == IF now % clearing_interval = 0 THEN req_l # <<>> ELSE bliss.event
Cleared == [bliss EXCEPT !.blacklist = Blacklist, !.event = NextClearing]

\* A request comes for this time, before the pass (add_req_event).
Arrive(q) ==
    /\ q \notin Queued
    /\ req_event' = Append(req_event, q)
    /\ UNCHANGED <<mode, policy, now, bank, bus, req_l, wake, bliss, curr_refresh_rank, acts,
                   busy>>

\* Nothing is due at this time.
Sleep ==
    /\ ~Called
    /\ Elapse(bank, bus, NoStall)
    /\ UNCHANGED <<req_event, req_l, wake, bliss, curr_refresh_rank, acts>>
-----------------------------------------------------------------------------------------
(* The first part of a pass: flags that do not wait for the bank to be closed. *)

Closed(s, type, delay) == [s EXCEPT !.action_type = type, !.age = -delay, !.page = NoPage]

AfterFlags ==
    [b \in Bank |->
        IF b \in ServedBanks
        THEN [Closed(bank[b], IF mode = "rank" THEN "refresh" ELSE "precharge", Service[mode])
                 EXCEPT !.flag = FALSE]
        ELSE bank[b]]
FlagStall == [b \in Bank |-> IF b \in ServedBanks THEN Service[mode] ELSE 0]

\* The auto-refresh closes every bank of the next rank and ends the pass.
Refresh ==
    /\ Refreshing
    /\ LET S == BanksOf(NextRank) IN
       Elapse([b \in Bank |-> IF b \in S THEN Closed(AfterFlags[b], "refresh", tRFC_t - tRP)
                              ELSE AfterFlags[b]],
              bus, [b \in Bank |-> IF b \in S THEN tRFC_t ELSE FlagStall[b]])
    /\ req_l' = req_l \o req_event /\ req_event' = <<>>
    /\ wake' = TRUE
    /\ bliss' = Cleared
    /\ curr_refresh_rank' = NextRank
    /\ UNCHANGED acts
-----------------------------------------------------------------------------------------
(* The choice of a request: B is bank after the flags were served. *)

RequestsNow == req_l \o req_event
Unlimited == 1..Len(RequestsNow)          \* mutant: req_window_sz is ignored
Window == {i \in 1..Len(RequestsNow) : i <= req_window_sz}
Event(i) == local_event[RequestsNow[i]]

\* tRR separates the activations of a rank; a precharge for a row miss waits for it too.
RankRests(b) == bus.act[b[1]] >= tRR

StaysShut(B, i) ==                        \* mutant: a refreshed bank is not opened again
    LET b == Event(i).bank IN
    /\ B[b].action_type \in Shut \ {"refresh"}
    /\ B[b].age >= tRP
    /\ RankRests(b)
CanActivate(B, i) ==
    LET b == Event(i).bank IN
    /\ \/ B[b].action_type = "idle"
       \/ B[b].action_type \in Shut /\ B[b].age >= tRP /\ B[b].act >= tRAS + tRP
    /\ RankRests(b)

\* How long a column access keeps the bank from the next one and from a precharge.
ColumnDone(s) == s.age >= tBBL /\ (s.action_type \in {"activate", "write"} => s.age >= tBBLW)
CanClose(s) ==
    /\ ColumnDone(s)
    /\ s.action_type = "read" => s.age >= tRTP
    /\ s.action_type = "write" => s.age >= tWTP
    /\ s.act >= tRAS

\* A row that was activated is not closed before it was accessed.
CanPrecharge(B, i) ==
    LET b == Event(i).bank IN
    /\ B[b].action_type \in {"read", "write"}
    /\ B[b].page # Event(i).page
    /\ CanClose(B[b]) /\ RankRests(b)

\* The data bus has room for a burst, and turning it round has had its time.
BusFree(b, write) ==
    LET k == b[1] IN
    /\ \A j \in Rank : IF write
                       THEN bus.wr[j] >= tBL /\ bus.rd[j] >= tBL + tRWBUB
                       ELSE bus.rd[j] >= tBL /\ bus.wr[j] >= tBL + tWRBUB
    /\ IF write THEN bus.rd[k] >= tBL + tRTW
       ELSE /\ tWTR > 0 => bus.wr[k] >= tCL + tBL + tWTR
            /\ bus.reader # k => bus.rd[bus.reader] >= tRRBUB
    /\ bus.last \notin {-1, k} => bus.rd[bus.reader] >= tBL + tRTRS
    /\ bus.col[<<k, GroupOf(b)>>] >=
           tBL + (IF write THEN tWRBUB_same_group ELSE tRDBUB_same_group)

CanAccess(B, i) ==
    LET b == Event(i).bank IN
    /\ B[b].action_type \in Open
    /\ B[b].page = Event(i).page
    /\ B[b].action_type = "activate" => B[b].age >= tRCD
    /\ ColumnDone(B[b])
    /\ BusFree(b, Event(i).write)

\* Bliss: a thread that is not blacklisted goes first, then a row hit, then the oldest.
Hits(B) == {i \in Window : CanAccess(B, i)}
Misses(B) == {i \in Window : CanActivate(B, i) \/ CanPrecharge(B, i)}
Fair(S) == {i \in S : Event(i).th_id \notin Blacklist}

Candidates(B) ==
    LET hits == Hits(B)
        misses == Misses(B)
    IN  IF Fair(hits) # {} THEN Fair(hits)
        ELSE IF Fair(misses) # {} THEN Fair(misses)
        ELSE IF hits # {} THEN hits
        ELSE misses
-----------------------------------------------------------------------------------------
(* The rest of a pass: a command for the chosen request, or the time-out of open banks. *)

\* The request leaves req_l when it has been accessed; the controller comes back while it
\* has requests, or if it had none and a bank is open (minimalist open).
StillOpen(B) == policy = "m_open" /\ \E b \in Bank : B[b].action_type \in Open

EndsWith(B, rest) ==
    /\ req_l' = rest /\ req_event' = <<>>
    /\ wake' = IF RequestsNow = <<>> THEN StillOpen(B) ELSE rest # <<>>
    /\ UNCHANGED curr_refresh_rank

\* The ACT goes to the tracker, which may ask for a mitigation.
Activate(B, i) ==
    LET b == Event(i).bank IN
    /\ CanActivate(B, i)
    /\ \E asks \in BOOLEAN :
          /\ asks => acts[b] + 1 >= AsksAfter
          /\ acts' = [acts EXCEPT ![b] = IF asks THEN 0 ELSE
                                         IF @ + 1 < AsksAfter THEN @ + 1 ELSE @]
          /\ Elapse([B EXCEPT ![b].action_type = "activate", ![b].age = 0,
                                       ![b].page = Event(i).page, ![b].act = 0,
                                       ![b].flag = @ \/ asks],
                    [bus EXCEPT !.act[b[1]] = 0], FlagStall)
    /\ EndsWith(B, RequestsNow)
    /\ bliss' = Cleared

ClosingAtOnce(s, delay) ==                \* mutant: a mitigation takes no time
    [Closed(s, "precharge", delay) EXCEPT !.flag = @ /\ mode # "bank"]

\* A bank that is closed performs the mitigation it owes, which puts off its next
\* activation; s is the bank as it is then, delay the time till the precharge.
Owes(s) == mode = "bank" /\ s.flag
Closing(s, delay) ==
    [Closed(s, "precharge", delay + IF Owes(s) THEN Service[mode] ELSE 0)
        EXCEPT !.flag = @ /\ ~Owes(s)]
ClosingStall(s, delay) == IF Owes(s) THEN delay + Service[mode] ELSE 0

\* A row miss: the open row makes way.
Precharge(B, i) ==
    LET b == Event(i).bank
        s == B[b]
    IN
    /\ CanPrecharge(B, i)
    /\ Elapse([B EXCEPT ![b] = Closing(s, 0)], bus,
              [FlagStall EXCEPT ![b] = ClosingStall(s, 0)])
    /\ EndsWith(B, RequestsNow)
    /\ bliss' = Cleared
    /\ UNCHANGED acts

Blacklists(n) == n >= threshold

\* Bliss::update_blacklist.
Served(th) ==
    LET c == Cleared IN
    IF th # c.th_id THEN [c EXCEPT !.th_id = th, !.served = 1]
    ELSE IF Blacklists(c.served + 1)
         THEN [c EXCEPT !.th_id = 0, !.served = 0, !.blacklist = @ \cup {th}]
         ELSE [c EXCEPT !.served = @ + 1]

Without(s, i) == SubSeq(s, 1, i - 1) \o SubSeq(s, i + 1, Len(s))

\* A row hit: the request is served.  The closed policy precharges the bank on its own.
Access(B, i) ==
    LET b == Event(i).bank
        k == b[1]
        write == Event(i).write
        s == [B[b] EXCEPT !.action_type = IF write THEN "write" ELSE "read", !.age = 0]
        delay == IF write THEN tWTP ELSE tRTP
        closes == policy = "closed"
        onbus == [bus EXCEPT !.col[<<k, GroupOf(b)>>] = 0, !.last = k]
    IN
    /\ CanAccess(B, i)
    /\ Elapse([B EXCEPT ![b] = IF closes THEN Closing(s, delay) ELSE s],
              IF write THEN [onbus EXCEPT !.wr[k] = 0]
                       ELSE [onbus EXCEPT !.rd[k] = 0, !.reader = k],
              [FlagStall EXCEPT ![b] = IF closes THEN ClosingStall(s, delay) ELSE 0])
    /\ EndsWith(B, Without(RequestsNow, i))
    /\ bliss' = Served(Event(i).th_id)
    /\ UNCHANGED acts

\* No request can go on: in each rank, the first bank open for long enough is closed.
Overdue(B, b) ==
    LET s == B[b] IN
    /\ policy = "m_open"
    /\ \/ s.action_type = "read" /\ s.age >= tBBL /\ s.age >= tRTP
       \/ s.action_type = "write" /\ s.age >= tBBLW /\ s.age >= tWTP
    /\ s.act >= tRAS /\ s.act >= tM_OPEN_TO

FirstOverdue(B, b) == Overdue(B, b) /\ \A c \in BanksOf(b[1]) : Overdue(B, c) => b[2] <= c[2]

TimeOut(B) ==
    /\ Elapse([b \in Bank |-> IF FirstOverdue(B, b) THEN Closing(B[b], 0) ELSE B[b]], bus,
              [b \in Bank |-> IF FirstOverdue(B, b) THEN ClosingStall(B[b], 0) ELSE FlagStall[b]])
    /\ EndsWith(B, RequestsNow)
    /\ bliss' = Cleared
    /\ UNCHANGED acts

\* At most one command a pass, for the first of the candidates.
Command ==
    /\ Called /\ ~Refreshing
    /\ \E B \in {AfterFlags} : \E candidates \in {Candidates(B)} :
          \/ \E i \in candidates :
                /\ \A j \in candidates : i <= j
                /\ Activate(B, i) \/ Precharge(B, i) \/ Access(B, i)
          \/ candidates = {} /\ TimeOut(B)

Step == Sleep \/ Refresh \/ Command
Next == Step \/ \E q \in Request : Arrive(q)

\* The event loop goes on for ever, whatever requests come: time passes.
Tick == now' = (now + 1) % Cycle
Spec == Init /\ [][Next]_vars /\ WF_now(Tick)
-----------------------------------------------------------------------------------------
(* Properties *)

\* The scan of req_l (PTSMemoryController.cc:1203) repeats itself without moving on when
\* it meets an open bank whose action_time lies ahead: there is never one.
ScanEnds == \A b \in Bank : bank[b].action_type \in Open => bank[b].age >= 0

\* A row is opened for a request that still waits, within the window, until the row is
\* accessed: a row nobody asks for would be closed by no row miss and no time-out.
OpenedIsWanted ==
    \A b \in Bank : bank[b].action_type = "activate" =>
        \E i \in 1..Len(req_l) :
            /\ i <= req_window_sz
            /\ local_event[req_l[i]].bank = b /\ local_event[req_l[i]].page = bank[b].page

\* A flag that the next pass has to see finds the controller awake, and a mitigation that
\* a closed bank still owes was left by an auto-refresh, the only way past its service.
FlagsAreServed ==
    \A b \in Bank : bank[b].flag =>
        IF mode = "bank"
        THEN bank[b].action_type \in Open \cup {"refresh"}
        ELSE wake

BanksSound == ScanEnds /\ OpenedIsWanted /\ FlagsAreServed

\* A bank is not opened before every refresh of its rows, automatic or asked for by the
\* tracker, has had the time it takes, but for what it forfeits: however the commands, the
\* flags and the time-outs of banks and ranks meet, nothing cuts a mitigation short but the
\* auto-refresh of its rank (PTSMemoryController.cc:1030), and nothing an auto-refresh but
\* the RFM of a bank (1123).
StallsRunOut == \A b \in Bank : bank[b].action_type \in Open => busy[b] = 0

\* The controller never stops serving: in every behaviour, either no request waits, again
\* and again, or a request is served, again and again, whatever other requests keep coming.
\* (One request may starve: row hits of threads in turns overtake it, unseen by Bliss.)
Serves == \E q \in Queued : q \notin Queued'
KeepsServing == []<>(Queued = {}) \/ []<><<Serves>>_vars
=========================================================================================
