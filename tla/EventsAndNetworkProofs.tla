------------------------ MODULE EventsAndNetworkProofs ------------------------
(* Proofs about the event queue and about the network on chip, for every machine.       *)
(*                                                                                      *)
(* The queue: any cores, units, process intervals and latencies of at least one tick.   *)
(* The invariant about a unit is reduced to three facts about sets of times (Passing,   *)
(* Arrival, TurnTaken), which rest on the arithmetic of multiples.                      *)
(*                                                                                      *)
(* The network: any crossbar, mesh or ring, and any flows.  What a pass does is said    *)
(* as a function from the places of the queues after it to those before it (Shifts),    *)
(* to which the passes of the crossbar and of the routers are reduced.  The invariant   *)
(* (Carries) says that every message that counts is under way at just one place, on a   *)
(* way that depends on its flow alone, and that no later message of the flow has done   *)
(* more hops, or as many and stands before it in their queue.                           *)
EXTENDS GlobalEventQueue, Network, FiniteSetTheorems, SequenceTheorems, WellFoundedInduction, TLAPS

-------------------------------------------------------------------------------------
\* Multiples of an interval.

LEMMA Division ==
    ASSUME NEW a \in Nat, NEW p \in Nat \ {0}
    PROVE  /\ a % p \in 0..p-1
           /\ \E k \in Nat : a = p * k + (a % p)
<1>1. a \div p \in Nat
    BY SMT
<1>2. a = p * (a \div p) + (a % p) /\ a % p \in 0..p-1
    BY SMT
<1> QED BY <1>1, <1>2, Zenon

LEMMA UniqueRemainder ==
    ASSUME NEW p \in Nat \ {0}, NEW k \in Nat, NEW j \in Nat,
           NEW r \in 0..p-1, NEW q \in 0..p-1, p * k + r = p * j + q
    PROVE  r = q
<1>1. CASE k < j
    <2>1. p * (k + 1) <= p * j
        BY <1>1, SMT
    <2>2. p * (k + 1) = p * k + p
        BY SMT
    <2> QED BY <2>1, <2>2, SMT
<1>2. CASE k > j
    <2>1. p * (j + 1) <= p * k
        BY <1>2, SMT
    <2>2. p * (j + 1) = p * j + p
        BY SMT
    <2> QED BY <2>1, <2>2, SMT
<1>3. CASE k = j
    BY <1>3, SMT
<1> QED BY <1>1, <1>2, <1>3, SMT

LEMMA Multiple ==
    ASSUME NEW p \in Nat \ {0}, NEW k \in Nat
    PROVE  (p * k) % p = 0
<1>1. p * k \in Nat
    BY SMT
<1>2. PICK j \in Nat : p * k = p * j + ((p * k) % p)
    BY <1>1, Division
<1>3. (p * k) % p \in 0..p-1
    BY <1>1, Division
<1>4. p * k + 0 = p * j + ((p * k) % p)
    BY <1>1, <1>2, SMT
<1>5. 0 \in 0..p-1
    BY SMT
<1> QED BY <1>3, <1>4, <1>5, UniqueRemainder, Zenon

LEMMA Divides ==
    ASSUME NEW p \in Nat \ {0}, NEW a \in Nat, a % p = 0
    PROVE  \E k \in Nat : a = p * k
<1>1. PICK k \in Nat : a = p * k + (a % p)
    BY Division
<1>2. a = p * k
    BY <1>1, SMT
<1> QED BY <1>2

\* Two different multiples of p are at least p apart.
LEMMA Apart ==
    ASSUME NEW a \in Nat, NEW b \in Nat, NEW p \in Nat \ {0},
           a % p = 0, b % p = 0, a < b
    PROVE  a + p <= b
<1>1. PICK k \in Nat : a = p * k
    BY Divides
<1>2. PICK j \in Nat : b = p * j
    BY Divides
<1>3. k < j
    <2>1. SUFFICES ASSUME j <= k PROVE FALSE
        BY SMT
    <2>2. p * j <= p * k
        BY <2>1, SMT
    <2> QED BY <2>2, <1>1, <1>2, SMT
<1>4. p * (k + 1) <= p * j
    BY <1>3, SMT
<1>5. p * (k + 1) = p * k + p
    BY SMT
<1> QED BY <1>1, <1>2, <1>4, <1>5

LEMMA NextMultiple ==
    ASSUME NEW a \in Nat, NEW p \in Nat \ {0}, a % p = 0
    PROVE  (a + p) % p = 0
<1>1. PICK k \in Nat : a = p * k
    BY Divides
<1>2. a + p = p * (k + 1)
    BY <1>1, SMT
<1>3. k + 1 \in Nat
    BY SMT
<1>4. (p * (k + 1)) % p = 0
    BY <1>3, Multiple
<1> QED BY <1>2, <1>4

\* Messages arrive no earlier than sent, at a multiple of the receiver's interval.
LEMMA AlignIsNext ==
    ASSUME NEW a \in Nat, NEW p \in Nat \ {0}
    PROVE  Align(a, p) \in Nat /\ Align(a, p) >= a /\ Align(a, p) % p = 0
<1>1. a % p \in 0..p-1
    BY Division
<1>2. Align(a, p) \in Nat /\ Align(a, p) >= a
    BY <1>1, SMT DEF Align
<1>3. CASE a % p # 0
    <2>1. PICK k \in Nat : a = p * k + (a % p)
        BY Division
    <2>2. a + p - (a % p) = p * k + p
        BY <2>1, <1>1, SMT
    <2>3. p * k + p = p * (k + 1)
        BY SMT
    <2>4. (p * (k + 1)) % p = 0
        BY Multiple, SMT
    <2> QED BY <1>2, <1>3, <2>2, <2>3, <2>4 DEF Align
<1>4. CASE a % p = 0
    BY <1>2, <1>4 DEF Align
<1> QED BY <1>3, <1>4

-------------------------------------------------------------------------------------
\* What time, an arriving message and a turn of the unit do to orderly turns.

LEMMA Passing ==
    ASSUME NEW T \in SUBSET Nat, NEW D, NEW queued \in BOOLEAN, NEW now \in Nat,
           NEW later \in Nat, NEW p \in Nat \ {0},
           Orderly(T, D, queued, now, p), later >= now, \A t \in T : t >= later
    PROVE  Orderly(T, D, queued, later, p)
BY SMT DEF Orderly

LEMMA Arrival ==
    ASSUME NEW T \in SUBSET Nat, NEW D, NEW queued \in BOOLEAN, NEW now \in Nat,
           NEW at \in Nat, NEW p \in Nat \ {0},
           Orderly(T, D, queued, now, p), at > now, at % p = 0
    PROVE  Orderly(T \cup {at}, D \cup {at}, queued, now, p)
<1>1. ASSUME NEW t \in T, t \notin D \cup {at}
      PROVE  queued /\ t <= now + p /\ \A s \in T \cup {at} : t <= s
    <2>1. queued /\ t <= now + p /\ t % p = 0 /\ \A s \in T : t <= s
        BY <1>1 DEF Orderly
    <2>2. ASSUME at < t PROVE FALSE
        <3>1. at + p <= t
            BY <2>1, <2>2, Apart
        <3> QED BY <3>1, <2>1, SMT
    <2>3. t <= at
        BY <2>2, SMT
    <2> QED BY <2>1, <2>3
<1>2. \A t \in T \cup {at} : t >= now /\ t % p = 0
    BY SMT DEF Orderly
<1>3. D \cup {at} \subseteq T \cup {at}
    BY DEF Orderly
<1> QED BY <1>1, <1>2, <1>3 DEF Orderly

LEMMA TurnTaken ==
    ASSUME NEW T \in SUBSET Nat, NEW D, NEW queued \in BOOLEAN, NEW now \in Nat,
           NEW left \in BOOLEAN, NEW p \in Nat \ {0},
           Orderly(T, D, queued, now, p), now \in T
    PROVE  Orderly((T \ {now}) \cup (IF left THEN {now + p} ELSE {}),
                   D \ {now}, left, now, p)
<1> DEFINE T2 == (T \ {now}) \cup (IF left THEN {now + p} ELSE {})
<1>1. \A t \in T \ {now} : t > now /\ t % p = 0 /\ t \in D
    <2> SUFFICES ASSUME NEW t \in T \ {now} PROVE t > now /\ t % p = 0 /\ t \in D
        OBVIOUS
    <2>1. t >= now /\ t % p = 0 /\ (t \notin D => t <= now)
        BY DEF Orderly
    <2> QED BY <2>1, SMT
<1>2. now % p = 0
    BY DEF Orderly
<1>3. (now + p) % p = 0 /\ now + p > now
    BY <1>2, NextMultiple, SMT
<1>4. \A t \in T \ {now} : now + p <= t
    <2> SUFFICES ASSUME NEW t \in T \ {now} PROVE now + p <= t
        OBVIOUS
    <2> QED BY <1>1, <1>2, Apart
<1>5. D \ {now} \subseteq T2
    BY DEF Orderly
<1>6. left => T2 # {}
    OBVIOUS
<1>7. ASSUME NEW t \in T2
      PROVE  /\ t >= now /\ t % p = 0
             /\ t \notin D \ {now} => left /\ t <= now + p /\ \A s \in T2 : t <= s
    <2>1. CASE t \in T \ {now}
        BY <2>1, <1>1, SMT
    <2>2. CASE left /\ t = now + p
        BY <2>2, <1>3, <1>4, SMT
    <2> QED BY <2>1, <2>2
<1> QED BY <1>5, <1>6, <1>7 DEF Orderly

-------------------------------------------------------------------------------------
\* The map from times to components, and the messages due, after a step.

TurnsIn(q, u) == {t \in Time : u \in q[t]}
DueIn(e, u)   == {t \in Time : \E k \in Kind : e[k][u][t] # <<>>}
For(u, adds)  == {t \in Time : <<t, u>> \in adds}

Queues  == [Time -> SUBSET Component]
Pending == [Kind -> [Unit -> [Time -> Seq(Message)]]]

LEMMA InsertedIs ==
    ASSUME NEW q \in Queues, NEW adds
    PROVE  /\ Inserted(q, adds) \in Queues
           /\ \A u \in Component : TurnsIn(Inserted(q, adds), u) = TurnsIn(q, u) \cup For(u, adds)
<1>1. Inserted(q, adds) \in Queues
    BY DEF Inserted, Queues
<1>2. ASSUME NEW u \in Component
      PROVE  TurnsIn(Inserted(q, adds), u) = TurnsIn(q, u) \cup For(u, adds)
    BY DEF Inserted, TurnsIn, For
<1> QED BY <1>1, <1>2

LEMMA ErasedIs ==
    ASSUME NEW q \in Queues, NEW t \in Time, NEW c \in Component
    PROVE  /\ Erased(q, t, c) \in Queues
           /\ TurnsIn(Erased(q, t, c), c) = TurnsIn(q, c) \ {t}
           /\ \A u \in Component \ {c} : TurnsIn(Erased(q, t, c), u) = TurnsIn(q, u)
<1>1. Erased(q, t, c) \in Queues
    BY DEF Erased, Queues
<1>2. \A s \in Time : Erased(q, t, c)[s] = IF s = t THEN q[s] \ {c} ELSE q[s]
    BY DEF Erased, Queues
<1> QED BY <1>1, <1>2 DEF TurnsIn

LEMMA AfterCoreIs ==
    ASSUME NEW q \in Queues, NEW t \in Time, NEW c \in Component, NEW adds
    PROVE  /\ AfterCore(q, t, c, adds) \in Queues
           /\ TurnsIn(AfterCore(q, t, c, adds), c) = (TurnsIn(q, c) \ {t}) \cup For(c, adds)
           /\ \A u \in Component \ {c} :
                  TurnsIn(AfterCore(q, t, c, adds), u) = TurnsIn(q, u) \cup For(u, adds)
<1>1. Erased(q, t, c) \in Queues
    BY ErasedIs
<1>2. /\ AfterCore(q, t, c, adds) \in Queues
      /\ \A u \in Component : TurnsIn(AfterCore(q, t, c, adds), u)
                                = TurnsIn(Erased(q, t, c), u) \cup For(u, adds)
    BY <1>1, InsertedIs DEF AfterCore
<1> QED BY <1>2, ErasedIs

LEMMA AfterUnitIs ==
    ASSUME NEW q \in Queues, NEW t \in Time, NEW c \in Component, NEW adds
    PROVE  /\ AfterUnit(q, t, c, adds) \in Queues
           /\ TurnsIn(AfterUnit(q, t, c, adds), c) = (TurnsIn(q, c) \cup For(c, adds)) \ {t}
           /\ \A u \in Component \ {c} :
                  TurnsIn(AfterUnit(q, t, c, adds), u) = TurnsIn(q, u) \cup For(u, adds)
<1>1. /\ Inserted(q, adds) \in Queues
      /\ \A u \in Component : TurnsIn(Inserted(q, adds), u) = TurnsIn(q, u) \cup For(u, adds)
    BY InsertedIs
<1> QED BY <1>1, ErasedIs DEF AfterUnit

LEMMA SentIs ==
    ASSUME NEW e \in Pending, NEW k \in Kind, NEW v \in Unit, NEW at \in Time, NEW m \in Message
    PROVE  /\ Sent(e, k, v, at, m) \in Pending
           /\ DueIn(Sent(e, k, v, at, m), v) = DueIn(e, v) \cup {at}
           /\ \A u \in Unit \ {v} : DueIn(Sent(e, k, v, at, m), u) = DueIn(e, u)
<1> DEFINE e2 == Sent(e, k, v, at, m)
<1>1. e[k][v][at] \in Seq(Message)
    BY DEF Pending
<1>2. Append(e[k][v][at], m) \in Seq(Message) /\ Append(e[k][v][at], m) # <<>>
    BY <1>1
<1>3. \A j \in Kind, u \in Unit, s \in Time :
          e2[j][u][s] = IF j = k /\ u = v /\ s = at THEN Append(e[k][v][at], m) ELSE e[j][u][s]
    BY DEF Sent, Pending
<1>4. e2 \in Pending
    BY <1>2 DEF Sent, Pending
<1>5. DueIn(e2, v) = DueIn(e, v) \cup {at}
    BY <1>2, <1>3, ZenonT(60) DEF DueIn
<1>6. \A u \in Unit \ {v} : DueIn(e2, u) = DueIn(e, u)
    BY <1>3 DEF DueIn
<1> QED BY <1>4, <1>5, <1>6

LEMMA ClearedIs ==
    ASSUME events \in Pending, NEW u \in Unit, NEW t \in Time
    PROVE  /\ Cleared(u, t) \in Pending
           /\ DueIn(Cleared(u, t), u) = DueIn(events, u) \ {t}
           /\ \A w \in Unit \ {u} : DueIn(Cleared(u, t), w) = DueIn(events, w)
<1>1. <<>> \in Seq(Message)
    BY SMT
<1>2. \A j \in Kind, w \in Unit, s \in Time :
          Cleared(u, t)[j][w][s] = IF w = u /\ s = t THEN <<>> ELSE events[j][w][s]
    BY DEF Cleared, Pending
<1>3. Cleared(u, t) \in Pending
    BY <1>1 DEF Cleared, Pending
<1>4. DueIn(Cleared(u, t), u) = DueIn(events, u) \ {t}
    BY <1>2 DEF DueIn
<1>5. \A w \in Unit \ {u} : DueIn(Cleared(u, t), w) = DueIn(events, w)
    BY <1>2 DEF DueIn
<1> QED BY <1>3, <1>4, <1>5

-------------------------------------------------------------------------------------
\* The invariant holds initially and every step preserves it.

LEMMA Constants ==
    /\ Core \subseteq Component /\ Unit \subseteq Component
    /\ \A c \in Core : c \notin Unit
    /\ \A c \in Component : Interval[c] \in Nat \ {0}
    /\ \A m \in Message : Owner[m] \in Core
    /\ \A l \in Latency : l \in Nat \ {0}
    /\ Time \subseteq Nat
BY EventQueueAssumption DEF Component, Time

LEMMA InitInv == Init => IInv
<1> SUFFICES ASSUME Init PROVE IInv
    OBVIOUS
<1> USE EventQueueAssumption, Constants DEF Init
<1>1. TypeOK
    <2>1. <<>> \in Seq(Message)
        BY SMT
    <2>2. event_queue \in [Time -> SUBSET Component] /\ curr_time \in Time
        BY SMT DEF Time
    <2>3. events \in [Kind -> [Unit -> [Time -> Seq(Message)]]]
          /\ queue \in [Kind -> [Unit -> Seq(Message)]]
        BY <2>1
    <2>4. hops \in [Message -> 0..MaxHops] /\ fills \in [Core -> 0..MaxFills]
        BY SMT
    <2> QED BY <2>2, <2>3, <2>4 DEF TypeOK, Load
<1>2. EventsAhead
    BY SMT DEF EventsAhead
<1>3. UnitsOrderly
    <2> SUFFICES ASSUME NEW u \in Unit
                 PROVE  Orderly(Turns(u), DueTimes(u), Queued(u), curr_time, Interval[u])
        BY DEF UnitsOrderly
    <2>1. Turns(u) = {}
        BY DEF Turns
    <2>2. DueTimes(u) = {} /\ ~Queued(u)
        BY DEF DueTimes, Due, Queued
    <2> QED BY <2>1, <2>2 DEF Orderly
<1>4. NoCoreForgotten
    <2> SUFFICES ASSUME NEW c \in Core, load[c] # "empty" \/ active[c],
                        ~(returned = c /\ load[c] = "empty")
                 PROVE  \E t \in Time : t >= curr_time /\ c \in event_queue[t]
        BY DEF NoCoreForgotten
    <2>1. c \in Started
        OBVIOUS
    <2>2. Interval[c] \in Time /\ c \in event_queue[Interval[c]]
        BY <2>1
    <2>3. Interval[c] >= curr_time
        BY SMT
    <2> QED BY <2>2, <2>3
<1> QED BY <1>1, <1>2, <1>3, <1>4 DEF IInv

\* The unit's view of the state is what the lemmas above speak about.
LEMMA Views ==
    /\ \A u \in Unit : Turns(u) = TurnsIn(event_queue, u) /\ DueTimes(u) = DueIn(events, u)
    /\ \A u \in Unit : TurnsIn(event_queue, u) \subseteq Time /\ DueIn(events, u) \subseteq Time
    /\ \A u \in Unit : Queued(u) \in BOOLEAN
    /\ \A u \in Unit : Turns(u)' = TurnsIn(event_queue', u) /\ DueTimes(u)' = DueIn(events', u)
BY DEF Turns, DueTimes, TurnsIn, DueIn, Due, Queued

\* Going on to the earliest time leaves the turns orderly.
LEMMA Advance ==
    ASSUME IInv, NEW t \in Time, Earliest(t)
    PROVE  /\ t >= curr_time
           /\ \A s \in Time : event_queue[s] # {} => s >= t
           /\ \A u \in Unit : Orderly(TurnsIn(event_queue, u), DueIn(events, u),
                                      Queued(u), t, Interval[u])
<1>1. t >= curr_time
    BY DEF IInv, EventsAhead, Earliest
<1>2. \A s \in Time : event_queue[s] # {} => s >= t
    BY SMT, Constants DEF Earliest
<1>3. ASSUME NEW u \in Unit
      PROVE  Orderly(TurnsIn(event_queue, u), DueIn(events, u), Queued(u), t, Interval[u])
    <2>1. Orderly(TurnsIn(event_queue, u), DueIn(events, u), Queued(u), curr_time, Interval[u])
        BY Views DEF IInv, UnitsOrderly
    <2>2. \A s \in TurnsIn(event_queue, u) : s >= t
        BY <1>2 DEF TurnsIn
    <2>3. curr_time \in Nat /\ t \in Nat /\ Interval[u] \in Nat \ {0}
        BY Constants DEF IInv, TypeOK
    <2>4. TurnsIn(event_queue, u) \in SUBSET Nat /\ Queued(u) \in BOOLEAN
        BY Views, Constants
    <2> QED BY <1>1, <2>1, <2>2, <2>3, <2>4, Passing
<1> QED BY <1>1, <1>2, <1>3

\* Where a step leaves a core alone, what keeps it from being forgotten stays.
LEMMA Remembered ==
    ASSUME IInv, NEW t \in Time, returned = NoCore, Earliest(t), NEW d \in Core,
           load[d] # "empty" \/ active[d],
           \A s \in Time : d \in event_queue[s] => d \in event_queue'[s],
           \A m \in Message : Owner[m] = d /\ out[m] => out'[m]
    PROVE  \/ \E s \in Time : s >= t /\ d \in event_queue'[s]
           \/ \E m \in Message : Owner[m] = d /\ out'[m]
<1>1. returned # d
    BY EventQueueAssumption
<1>2. \/ \E s \in Time : d \in event_queue[s]
      \/ \E m \in Message : Owner[m] = d /\ out[m]
    BY <1>1 DEF IInv, NoCoreForgotten
<1>3. \A s \in Time : d \in event_queue[s] => s >= t
    BY Advance
<1> QED BY <1>2, <1>3

\* A step that schedules nothing before t, the time it goes on to, keeps EventsAhead.
LEMMA LaterTimes ==
    ASSUME IInv, NEW t \in Time, Earliest(t), curr_time' = t,
           event_queue' \in Queues, NEW adds,
           \A a \in adds : a[1] >= t,
           \A d \in Component :
               TurnsIn(event_queue', d) \subseteq TurnsIn(event_queue, d) \cup For(d, adds)
    PROVE  EventsAhead'
<1> SUFFICES ASSUME NEW s \in Time, NEW d \in event_queue'[s] PROVE s >= t
    BY DEF EventsAhead
<1>1. d \in Component /\ s \in TurnsIn(event_queue', d)
    BY DEF Queues, TurnsIn
<1>2. CASE s \in TurnsIn(event_queue, d)
    BY <1>2, Advance DEF TurnsIn
<1>3. CASE s \in For(d, adds)
    <2>1. <<s, d>> \in adds
        BY <1>3 DEF For
    <2> QED BY <2>1
<1> QED BY <1>1, <1>2, <1>3

LEMMA FetchStep ==
    ASSUME IInv, NEW c \in Core, NEW t \in Time, returned = NoCore,
           Earliest(t), curr_time' = t, Fetch(c, t)
    PROVE  IInv'
<1> USE Constants DEF Fetch
<1>1. event_queue \in Queues
    BY DEF IInv, TypeOK, Queues
<1>2. /\ event_queue' \in Queues
      /\ TurnsIn(event_queue', c) = (TurnsIn(event_queue, c) \ {t}) \cup {t}
      /\ \A d \in Component \ {c} : TurnsIn(event_queue', d) = TurnsIn(event_queue, d)
    <2>1. For(c, {<<t, c>>}) = {t} /\ \A d \in Component \ {c} : For(d, {<<t, c>>}) = {}
        BY DEF For
    <2>2. /\ event_queue' \in Queues
          /\ TurnsIn(event_queue', c) = (TurnsIn(event_queue, c) \ {t}) \cup For(c, {<<t, c>>})
          /\ \A d \in Component \ {c} :
                TurnsIn(event_queue', d) = TurnsIn(event_queue, d) \cup For(d, {<<t, c>>})
        BY <1>1, AfterCoreIs
    <2> QED BY <2>1, <2>2
<1>3. TypeOK'
    BY <1>2 DEF IInv, TypeOK, Queues
<1>4. EventsAhead'
    <2>1. \A a \in {<<t, c>>} : a[1] >= t
        BY SMT
    <2>2. \A d \in Component :
              TurnsIn(event_queue', d) \subseteq TurnsIn(event_queue, d) \cup For(d, {<<t, c>>})
        BY <1>2 DEF For
    <2> QED BY <1>2, <2>1, <2>2, LaterTimes
<1>5. UnitsOrderly'
    BY <1>2, Advance, Views DEF UnitsOrderly, Queued
<1>6. NoCoreForgotten'
    <2> SUFFICES ASSUME NEW d \in Core, load[d] # "empty" \/ active[d]
                 PROVE  \/ \E s \in Time : s >= t /\ d \in event_queue'[s]
                        \/ \E m \in Message : Owner[m] = d /\ out'[m]
        BY DEF NoCoreForgotten
    <2>1. TurnsIn(event_queue, d) \subseteq TurnsIn(event_queue', d)
        BY <1>2
    <2>2. \A s \in Time : d \in event_queue[s] => d \in event_queue'[s]
        BY <2>1 DEF TurnsIn
    <2> QED BY <2>2, Remembered
<1> QED BY <1>3, <1>4, <1>5, <1>6 DEF IInv

\* A core that runs sends at most one message, which is an arrival at its unit.
LEMMA RunStep ==
    ASSUME IInv, NEW c \in Core, NEW t \in Time, returned = NoCore,
           Earliest(t), curr_time' = t, Run(c, t)
    PROVE  IInv'
<1> USE Constants
<1>1. event_queue \in Queues /\ events \in Pending
    BY DEF IInv, TypeOK, Queues, Pending
<1>2. /\ ~Fetches(c)
      /\ load' = [load EXCEPT ![c] = Lighter(@)]
      /\ UNCHANGED <<queue, active, returned, fills>>
    BY DEF Run
<1>3. PICK again \in BOOLEAN :
          /\ again => load'[c] # "empty" /\ t + Interval[c] \in Time
          /\ LET mine == IF again THEN {<<t + Interval[c], c>>} ELSE {} IN
             \/ /\ event_queue' = AfterCore(event_queue, t, c, mine)
                /\ UNCHANGED <<events, out, hops>>
             \/ \E m \in Message, u \in Unit, l \in Latency :
                   LET at == Align(t + l, Interval[u]) IN
                   /\ load[c] # "empty" /\ Owner[m] = c /\ ~out[m] /\ hops[m] < MaxHops
                   /\ at \in Time
                   /\ event_queue' = AfterCore(event_queue, t, c, mine \cup {<<at, u>>})
                   /\ events' = Sent(events, "req", u, at, m)
                   /\ out' = [out EXCEPT ![m] = TRUE]
                   /\ hops' = [hops EXCEPT ![m] = @ + 1]
          /\ again \/ Awaits(c)
    BY Zenon DEF Run
<1> DEFINE mine == IF again THEN {<<t + Interval[c], c>>} ELSE {}
<1>4. t \in Nat /\ Interval[c] \in Nat \ {0}
    OBVIOUS
<1>5. /\ \A a \in mine : a[1] >= t
      /\ \A d \in Component \ {c} : For(d, mine) = {}
      /\ again => For(c, mine) = {t + Interval[c]}
    <2>1. again => t + Interval[c] >= t
        BY <1>4, SMT
    <2> QED BY <1>3, <2>1 DEF For
<1> DEFINE Kept ==
               /\ TypeOK' /\ EventsAhead' /\ UnitsOrderly'
               /\ For(c, mine) \subseteq TurnsIn(event_queue', c)
               /\ \A d \in Component \ {c} :
                     TurnsIn(event_queue, d) \subseteq TurnsIn(event_queue', d)
               /\ \A n \in Message : out[n] => out'[n]
<1>6. Kept
    <2>0. load' \in [Core -> Load]
        BY <1>2 DEF IInv, TypeOK, Load, Lighter
    <2>1. CASE event_queue' = AfterCore(event_queue, t, c, mine)
               /\ UNCHANGED <<events, out, hops>>
        <3>1. /\ event_queue' \in Queues
              /\ TurnsIn(event_queue', c) = (TurnsIn(event_queue, c) \ {t}) \cup For(c, mine)
              /\ \A d \in Component \ {c} :
                    TurnsIn(event_queue', d) = TurnsIn(event_queue, d) \cup For(d, mine)
            BY <1>1, <2>1, AfterCoreIs
        <3>2. TypeOK'
            BY <1>2, <2>0, <2>1, <3>1 DEF IInv, TypeOK, Queues
        <3>3. EventsAhead'
            <4>1. \A d \in Component :
                      TurnsIn(event_queue', d) \subseteq TurnsIn(event_queue, d) \cup For(d, mine)
                BY <3>1
            <4> QED BY <3>1, <4>1, <1>5, LaterTimes
        <3>4. UnitsOrderly'
            <4> SUFFICES ASSUME NEW v \in Unit
                         PROVE  Orderly(TurnsIn(event_queue', v), DueIn(events', v),
                                        Queued(v)', t, Interval[v])
                BY Views DEF UnitsOrderly
            <4>1. v \in Component \ {c} /\ For(v, mine) = {}
                BY <1>5
            <4>2. TurnsIn(event_queue', v) = TurnsIn(event_queue, v)
                BY <3>1, <4>1
            <4>3. DueIn(events', v) = DueIn(events, v) /\ Queued(v)' = Queued(v)
                BY <1>2, <2>1 DEF Queued
            <4> QED BY <4>2, <4>3, Advance
        <3> QED BY <2>1, <3>1, <3>2, <3>3, <3>4
    <2>2. ASSUME NEW m \in Message, NEW u \in Unit, NEW l \in Latency,
                 hops[m] < MaxHops, Align(t + l, Interval[u]) \in Time,
                 event_queue' = AfterCore(event_queue, t, c,
                                          mine \cup {<<Align(t + l, Interval[u]), u>>}),
                 events' = Sent(events, "req", u, Align(t + l, Interval[u]), m),
                 out' = [out EXCEPT ![m] = TRUE],
                 hops' = [hops EXCEPT ![m] = @ + 1]
          PROVE  Kept
        <3> DEFINE at   == Align(t + l, Interval[u])
                   adds == mine \cup {<<at, u>>}
        <3> HIDE DEF mine
        <3>1. at \in Time /\ at > t /\ at % Interval[u] = 0
            <4>1. t + l \in Nat /\ t + l > t
                BY SMT
            <4>2. at \in Nat /\ at >= t + l /\ at % Interval[u] = 0
                BY <4>1, AlignIsNext
            <4> QED BY <2>2, <4>1, <4>2, SMT
        <3>2. /\ For(c, adds) = For(c, mine)
              /\ For(u, adds) = {at}
              /\ \A d \in Component \ {c, u} : For(d, adds) = {}
            BY <1>5, <3>1 DEF For
        <3>3. /\ event_queue' \in Queues
              /\ TurnsIn(event_queue', c) = (TurnsIn(event_queue, c) \ {t}) \cup For(c, adds)
              /\ \A d \in Component \ {c} :
                    TurnsIn(event_queue', d) = TurnsIn(event_queue, d) \cup For(d, adds)
            BY <1>1, <2>2, AfterCoreIs
        <3>4. /\ events' \in Pending
              /\ DueIn(events', u) = DueIn(events, u) \cup {at}
              /\ \A v \in Unit \ {u} : DueIn(events', v) = DueIn(events, v)
            <4>1. "req" \in Kind /\ events \in Pending /\ at \in Time
                BY <1>1, <3>1 DEF Kind
            <4>2. events' = Sent(events, "req", u, at, m)
                BY <2>2
            <4> HIDE DEF at
            <4>3. PICK e : e = Sent(events, "req", u, at, m)
                OBVIOUS
            <4>4. e \in Pending /\ DueIn(e, u) = DueIn(events, u) \cup {at}
                BY <4>1, <4>3, SentIs
            <4>5. \A v \in Unit \ {u} : DueIn(e, v) = DueIn(events, v)
                BY <4>1, <4>3, SentIs
            <4> QED BY <4>2, <4>3, <4>4, <4>5
        <3>5. TypeOK'
            <4>1. hops' \in [Message -> 0..MaxHops]
                <5>1. hops[m] + 1 \in 0..MaxHops
                    <6>1. PICK k, n : k = hops[m] /\ n = MaxHops
                        OBVIOUS
                    <6>2. n \in Nat /\ k \in 0..n /\ k < n
                        BY <2>2, <6>1, EventQueueAssumption DEF IInv, TypeOK
                    <6>3. k + 1 \in 0..n
                        BY <6>2
                    <6> QED BY <6>1, <6>3
                <5> QED BY <2>2, <5>1 DEF IInv, TypeOK
            <4>2. out' \in [Message -> BOOLEAN]
                BY <2>2 DEF IInv, TypeOK
            <4> QED BY <1>2, <2>0, <3>3, <3>4, <4>1, <4>2 DEF IInv, TypeOK, Queues, Pending
        <3>6. EventsAhead'
            <4>1. \A d \in Component :
                      TurnsIn(event_queue', d) \subseteq TurnsIn(event_queue, d) \cup For(d, adds)
                BY <3>3
            <4>2. \A a \in adds : a[1] >= t
                BY <1>5, <3>1, SMT
            <4> QED BY <3>3, <4>1, <4>2, LaterTimes
        <3>7. UnitsOrderly'
            <4> SUFFICES ASSUME NEW v \in Unit
                         PROVE  Orderly(TurnsIn(event_queue', v), DueIn(events', v),
                                        Queued(v)', t, Interval[v])
                BY Views DEF UnitsOrderly
            <4>1. Queued(v)' = Queued(v)
                BY <1>2 DEF Queued
            <4>2. Orderly(TurnsIn(event_queue, v), DueIn(events, v), Queued(v), t, Interval[v])
                BY Advance
            <4>3. CASE v = u
                <5>1. TurnsIn(event_queue, u) \in SUBSET Nat /\ Queued(u) \in BOOLEAN
                      /\ at \in Nat /\ Interval[u] \in Nat \ {0}
                    BY Views, <3>1
                <5>2. Orderly(TurnsIn(event_queue, u) \cup {at}, DueIn(events, u) \cup {at},
                              Queued(u), t, Interval[u])
                    BY <1>4, <3>1, <4>2, <4>3, <5>1, Arrival
                <5> QED BY <3>2, <3>3, <3>4, <4>1, <4>3, <5>2
            <4>4. CASE v # u
                BY <3>2, <3>3, <3>4, <4>1, <4>2, <4>4, ZenonT(60)
            <4> QED BY <4>3, <4>4
        <3>8. \A n \in Message : out[n] => out'[n]
            BY <2>2 DEF IInv, TypeOK
        <3> QED BY <3>2, <3>3, <3>5, <3>6, <3>7, <3>8
    <2> QED BY <1>3, <2>1, <2>2
<1>7. NoCoreForgotten'
    <2> SUFFICES ASSUME NEW d \in Core, load'[d] # "empty" \/ active[d]
                 PROVE  \/ \E s \in Time : s >= t /\ d \in event_queue'[s]
                        \/ \E m \in Message : Owner[m] = d /\ out'[m]
        BY <1>2 DEF NoCoreForgotten
    <2>1. CASE d = c /\ again
        <3>1. t + Interval[c] \in For(c, mine)
            BY <2>1, <1>5
        <3>2. For(c, mine) \subseteq TurnsIn(event_queue', c)
            BY <1>6
        <3>3. t + Interval[c] \in TurnsIn(event_queue', c)
            BY <3>1, <3>2, Zenon
        <3>4. t + Interval[c] >= t
            BY <1>4, SMT
        <3> QED BY <2>1, <3>3, <3>4 DEF TurnsIn
    <2>2. CASE d = c /\ ~again
        <3>1. load'[c] # "empty"
            <4>1. CASE active[c]
                BY <4>1, <1>2 DEF Fetches, Lighter, IInv, TypeOK
            <4>2. CASE ~active[c]
                BY <4>2, <2>2
            <4> QED BY <4>1, <4>2
        <3> QED BY <1>3, <2>2, <3>1 DEF Awaits
    <2>3. CASE d # c
        <3>1. load[d] # "empty" \/ active[d]
            BY <1>2, <2>3 DEF IInv, TypeOK
        <3>2. \A s \in Time : d \in event_queue[s] => d \in event_queue'[s]
            BY <1>6, <2>3 DEF TurnsIn
        <3> QED BY <1>6, <3>1, <3>2, Remembered
    <2> QED BY <2>1, <2>2, <2>3
<1> QED BY <1>6, <1>7 DEF IInv

\* A unit's turn: it drains what is due, is scheduled for what is left, and what it
\* sends arrives, at a core or at a unit, itself included.
LEMMA ServeStep ==
    ASSUME IInv, NEW u \in Unit, NEW t \in Time, returned = NoCore,
           Earliest(t), u \in event_queue[t], curr_time' = t, Serve(u, t)
    PROVE  IInv'
<1> USE Constants
<1> DEFINE left == Left(u, t)
           m    == Head(Ready(u, t)[Served(u, t)])
           more == Again(u, t, left)
           some == \E k \in Kind : left[k] # <<>>
<1>1. event_queue \in Queues /\ events \in Pending
    BY DEF IInv, TypeOK, Queues, Pending
<1>2. /\ Ready(u, t)[Served(u, t)] # <<>>
      /\ \A a \in more : a[1] \in Time
      /\ queue' = [k \in Kind |-> [queue[k] EXCEPT ![u] = left[k]]]
      /\ UNCHANGED <<load, active, returned, fills>>
    BY Zenon DEF Serve
<1>3. \/ \E l \in Latency :
            LET at == Align(t + l, Interval[Owner[m]]) IN
            /\ at \in Time
            /\ event_queue' = AfterUnit(event_queue, t, u, more \cup {<<at, Owner[m]>>})
            /\ events' = Cleared(u, t)
            /\ out' = [out EXCEPT ![m] = FALSE]
            /\ UNCHANGED hops
      \/ \E k \in Kind, v \in Unit, l \in Latency :
            LET at == Align(t + l, Interval[v]) IN
            /\ at \in Time
            /\ hops[m] < MaxHops
            /\ event_queue' = AfterUnit(event_queue, t, u, more \cup {<<at, v>>})
            /\ events' = Sent(Cleared(u, t), k, v, at, m)
            /\ hops' = [hops EXCEPT ![m] = @ + 1]
            /\ UNCHANGED out
    BY Zenon DEF Serve
<1>4. /\ m \in Message
      /\ left \in [Kind -> Seq(Message)]
    <2>1. Ready(u, t) \in [Kind -> Seq(Message)] /\ Served(u, t) \in Kind
        BY <1>1 DEF Ready, Served, Kind, IInv, TypeOK, Pending
    <2>2. Ready(u, t)[Served(u, t)] \in Seq(Message)
        BY <2>1
    <2>3. m \in Message /\ Tail(Ready(u, t)[Served(u, t)]) \in Seq(Message)
        BY <1>2, <2>2
    <2> QED BY <2>1, <2>3 DEF Left
<1>5. /\ queue' \in [Kind -> [Unit -> Seq(Message)]]
      /\ Queued(u)' = some
      /\ \A v \in Unit \ {u} : Queued(v)' = Queued(v)
    <2>1. \A k \in Kind, v \in Unit : queue'[k][v] = IF v = u THEN left[k] ELSE queue[k][v]
        BY <1>2 DEF IInv, TypeOK
    <2>2. queue' \in [Kind -> [Unit -> Seq(Message)]]
        BY <1>2, <1>4 DEF IInv, TypeOK
    <2> QED BY <2>1, <2>2 DEF Queued
<1>6. t \in Nat /\ Interval[u] \in Nat \ {0}
    OBVIOUS
<1>7. /\ \A a \in more : a[1] >= t
      /\ For(u, more) = IF some THEN {t + Interval[u]} ELSE {}
      /\ \A d \in Component \ {u} : For(d, more) = {}
    <2>1. more = IF some THEN {<<t + Interval[u], u>>} ELSE {}
        BY DEF Again
    <2>2. \A a \in more : a[1] \in Time
        BY <1>2
    <2> HIDE DEF more, some
    <2>3. t + Interval[u] >= t
        BY <1>6, SMT
    <2>4. CASE some
        <3>1. more = {<<t + Interval[u], u>>}
            BY <2>1, <2>4
        <3>2. t + Interval[u] \in Time
            BY <2>2, <3>1
        <3> QED BY <2>3, <2>4, <3>1, <3>2 DEF For
    <2>5. CASE ~some
        BY <2>1, <2>5 DEF For
    <2> QED BY <2>4, <2>5
<1>8. t \in TurnsIn(event_queue, u)
    BY DEF TurnsIn
<1> HIDE DEF left, m, more, some
<1>9. Orderly((TurnsIn(event_queue, u) \ {t}) \cup For(u, more), DueIn(events, u) \ {t},
              some, t, Interval[u])
    <2>1. Orderly(TurnsIn(event_queue, u), DueIn(events, u), Queued(u), t, Interval[u])
        BY Advance
    <2>2. TurnsIn(event_queue, u) \in SUBSET Nat /\ Queued(u) \in BOOLEAN /\ some \in BOOLEAN
        BY Views DEF some
    <2> QED BY <1>6, <1>7, <1>8, <2>1, <2>2, TurnTaken
<1>10. ASSUME NEW x \in Core \cup Unit, NEW at \in Time, at > t,
              event_queue' = AfterUnit(event_queue, t, u, more \cup {<<at, x>>})
       PROVE  /\ event_queue' \in Queues
              /\ EventsAhead'
              /\ at \in TurnsIn(event_queue', x)
              /\ TurnsIn(event_queue', u) = ((TurnsIn(event_queue, u) \ {t}) \cup For(u, more))
                                            \cup (IF x = u THEN {at} ELSE {})
              /\ \A d \in Component \ {u} : TurnsIn(event_queue', d)
                     = TurnsIn(event_queue, d) \cup (IF x = d THEN {at} ELSE {})
    <2> DEFINE adds == more \cup {<<at, x>>}
    <2>1. \A d \in Component : For(d, adds) = For(d, more) \cup (IF x = d THEN {at} ELSE {})
        BY DEF For
    <2>2. /\ event_queue' \in Queues
          /\ TurnsIn(event_queue', u) = (TurnsIn(event_queue, u) \cup For(u, adds)) \ {t}
          /\ \A d \in Component \ {u} :
                TurnsIn(event_queue', d) = TurnsIn(event_queue, d) \cup For(d, adds)
        BY <1>1, <1>10, AfterUnitIs
    <2> HIDE DEF adds
    <2>3. t \notin For(u, adds)
        <3>1. t \notin For(u, more)
            <4>1. t + Interval[u] # t
                BY <1>6, SMT
            <4> QED BY <1>7, <4>1
        <3>2. at # t
            BY <1>10, SMT
        <3> QED BY <2>1, <3>1, <3>2
    <2>4. EventsAhead'
        <3>1. \A a \in adds : a[1] >= t
            BY <1>7, <1>10, SMT DEF adds
        <3>2. \A d \in Component :
                  TurnsIn(event_queue', d) \subseteq TurnsIn(event_queue, d) \cup For(d, adds)
            BY <2>2
        <3> QED BY <2>2, <3>1, <3>2, LaterTimes
    <2>5. x \in Component /\ at \in For(x, adds)
        BY <2>1
    <2>6. at \in TurnsIn(event_queue', x)
        <3>1. at # t
            BY <1>10, SMT
        <3>2. CASE x = u
            BY <2>2, <2>5, <3>1, <3>2
        <3>3. CASE x # u
            BY <2>2, <2>5, <3>3
        <3> QED BY <3>2, <3>3
    <2>7. For(u, adds) = For(u, more) \cup (IF x = u THEN {at} ELSE {})
        BY <2>1
    <2>8. TurnsIn(event_queue', u) = ((TurnsIn(event_queue, u) \ {t}) \cup For(u, more))
                                     \cup (IF x = u THEN {at} ELSE {})
        <3>1. (TurnsIn(event_queue, u) \cup For(u, adds)) \ {t}
                = (TurnsIn(event_queue, u) \ {t}) \cup For(u, adds)
            BY <2>3, Zenon
        <3> QED BY <2>2, <2>7, <3>1
    <2>9. \A d \in Component \ {u} :
              TurnsIn(event_queue', d) = TurnsIn(event_queue, d) \cup (IF x = d THEN {at} ELSE {})
        BY <1>7, <2>1, <2>2
    <2> QED BY <2>2, <2>4, <2>6, <2>8, <2>9
<1>11. ASSUME NEW x \in Core \cup Unit, NEW at \in Time, at > t,
              event_queue' = AfterUnit(event_queue, t, u, more \cup {<<at, x>>}),
              \A n \in Message : out[n] => out'[n] \/ Owner[n] = x
       PROVE  NoCoreForgotten'
    <2> SUFFICES ASSUME NEW d \in Core, load[d] # "empty" \/ active[d]
                 PROVE  \/ \E s \in Time : s >= t /\ d \in event_queue'[s]
                        \/ \E n \in Message : Owner[n] = d /\ out'[n]
        BY <1>2 DEF NoCoreForgotten
    <2>1. CASE d = x
        <3>1. at \in TurnsIn(event_queue', x)
            BY <1>10, <1>11
        <3>2. at >= t
            BY <1>11, SMT
        <3> QED BY <2>1, <3>1, <3>2 DEF TurnsIn
    <2>2. CASE d # x
        <3>0. d \in Component \ {u}
            OBVIOUS
        <3>1. TurnsIn(event_queue, d) \subseteq TurnsIn(event_queue', d)
            <4>1. \A e \in Component \ {u} : TurnsIn(event_queue', e)
                      = TurnsIn(event_queue, e) \cup (IF x = e THEN {at} ELSE {})
                BY <1>10, <1>11
            <4> QED BY <3>0, <4>1
        <3>2. \A s \in Time : d \in event_queue[s] => d \in event_queue'[s]
            BY <3>1 DEF TurnsIn
        <3>3. \A n \in Message : Owner[n] = d /\ out[n] => out'[n]
            BY <1>11, <2>2
        <3> QED BY <3>2, <3>3, Remembered
    <2> QED BY <2>1, <2>2
<1>12. CASE \E l \in Latency :
                LET at == Align(t + l, Interval[Owner[m]]) IN
                /\ at \in Time
                /\ event_queue' = AfterUnit(event_queue, t, u, more \cup {<<at, Owner[m]>>})
                /\ events' = Cleared(u, t)
                /\ out' = [out EXCEPT ![m] = FALSE]
                /\ UNCHANGED hops
    <2>1. PICK l \in Latency :
              LET at == Align(t + l, Interval[Owner[m]]) IN
              /\ at \in Time
              /\ event_queue' = AfterUnit(event_queue, t, u, more \cup {<<at, Owner[m]>>})
              /\ events' = Cleared(u, t)
              /\ out' = [out EXCEPT ![m] = FALSE]
              /\ UNCHANGED hops
        BY <1>12
    <2> DEFINE x  == Owner[m]
               at == Align(t + l, Interval[x])
    <2>2. x \in Core /\ x # u
        BY <1>4
    <2>3. at \in Time /\ at > t
        <3>1. t + l \in Nat /\ t + l > t /\ Interval[x] \in Nat \ {0}
            BY <1>6, <2>2, SMT
        <3>2. at >= t + l /\ at \in Nat
            BY <3>1, AlignIsNext
        <3> QED BY <1>6, <2>1, <3>1, <3>2, SMT
    <2>4. event_queue' = AfterUnit(event_queue, t, u, more \cup {<<at, x>>})
        BY <2>1
    <2> HIDE DEF at, x
    <2>5. /\ event_queue' \in Queues
          /\ EventsAhead'
          /\ TurnsIn(event_queue', u) = (TurnsIn(event_queue, u) \ {t}) \cup For(u, more)
          /\ \A v \in Unit \ {u} : TurnsIn(event_queue', v) = TurnsIn(event_queue, v)
        <3>1. /\ event_queue' \in Queues
              /\ EventsAhead'
              /\ TurnsIn(event_queue', u) = ((TurnsIn(event_queue, u) \ {t}) \cup For(u, more))
                                            \cup (IF x = u THEN {at} ELSE {})
              /\ \A d \in Component \ {u} : TurnsIn(event_queue', d)
                     = TurnsIn(event_queue, d) \cup (IF x = d THEN {at} ELSE {})
            BY <1>10, <2>2, <2>3, <2>4
        <3>2. \A v \in Unit \ {u} : v \in Component \ {u} /\ x # v
            BY <2>2
        <3> QED BY <2>2, <3>1, <3>2
    <2>6. /\ events' \in Pending
          /\ DueIn(events', u) = DueIn(events, u) \ {t}
          /\ \A v \in Unit \ {u} : DueIn(events', v) = DueIn(events, v)
        BY <1>1, <2>1, ClearedIs
    <2>7. out' \in [Message -> BOOLEAN] /\ \A n \in Message : out[n] => out'[n] \/ Owner[n] = x
        BY <2>1 DEF IInv, TypeOK, x
    <2>8. TypeOK'
        BY <1>2, <1>5, <2>1, <2>5, <2>6, <2>7 DEF IInv, TypeOK, Queues, Pending
    <2>9. UnitsOrderly'
        <3> SUFFICES ASSUME NEW v \in Unit
                     PROVE  Orderly(TurnsIn(event_queue', v), DueIn(events', v),
                                    Queued(v)', t, Interval[v])
            BY Views DEF UnitsOrderly
        <3>1. CASE v = u
            BY <1>5, <1>9, <2>5, <2>6, <3>1
        <3>2. CASE v # u
            BY <1>5, <2>5, <2>6, <3>2, Advance
        <3> QED BY <3>1, <3>2
    <2>10. NoCoreForgotten'
        BY <1>11, <2>2, <2>3, <2>4, <2>7
    <2> QED BY <2>5, <2>8, <2>9, <2>10 DEF IInv
<1>13. ASSUME NEW k \in Kind, NEW v \in Unit, NEW l \in Latency,
              Align(t + l, Interval[v]) \in Time,
              hops[m] < MaxHops,
              event_queue' = AfterUnit(event_queue, t, u,
                                       more \cup {<<Align(t + l, Interval[v]), v>>}),
              events' = Sent(Cleared(u, t), k, v, Align(t + l, Interval[v]), m),
              hops' = [hops EXCEPT ![m] = @ + 1],
              UNCHANGED out
       PROVE  IInv'
    <2> DEFINE at == Align(t + l, Interval[v])
    <2>1. at \in Time /\ at > t /\ at % Interval[v] = 0
        <3>1. t + l \in Nat /\ t + l > t
            BY <1>6, SMT
        <3>2. at >= t + l /\ at \in Nat /\ at % Interval[v] = 0
            BY <3>1, AlignIsNext
        <3> QED BY <1>6, <1>13, <3>1, <3>2, SMT
    <2>2. event_queue' = AfterUnit(event_queue, t, u, more \cup {<<at, v>>})
          /\ events' = Sent(Cleared(u, t), k, v, at, m)
        BY <1>13
    <2> HIDE DEF at
    <2>3. /\ event_queue' \in Queues
          /\ EventsAhead'
          /\ TurnsIn(event_queue', u) = ((TurnsIn(event_queue, u) \ {t}) \cup For(u, more))
                                        \cup (IF v = u THEN {at} ELSE {})
          /\ \A w \in Unit \ {u} : TurnsIn(event_queue', w)
                 = TurnsIn(event_queue, w) \cup (IF v = w THEN {at} ELSE {})
        BY <1>10, <2>1, <2>2
    <2>4. /\ Cleared(u, t) \in Pending
          /\ DueIn(Cleared(u, t), u) = DueIn(events, u) \ {t}
          /\ \A w \in Unit \ {u} : DueIn(Cleared(u, t), w) = DueIn(events, w)
        BY <1>1, ClearedIs
    <2>5. /\ events' \in Pending
          /\ DueIn(events', v) = DueIn(Cleared(u, t), v) \cup {at}
          /\ \A w \in Unit \ {v} : DueIn(events', w) = DueIn(Cleared(u, t), w)
        BY <1>4, <2>1, <2>2, <2>4, SentIs
    <2>6. TypeOK'
        <3>1. hops' \in [Message -> 0..MaxHops]
            <4>1. hops[m] + 1 \in 0..MaxHops
                <5>1. hops[m] \in 0..MaxHops
                    BY <1>4 DEF IInv, TypeOK
                <5> QED BY <1>13, <5>1, EventQueueAssumption
            <4> QED BY <1>13, <4>1 DEF IInv, TypeOK
        <3> QED BY <1>2, <1>5, <1>13, <2>3, <2>5, <3>1 DEF IInv, TypeOK, Queues, Pending
    <2>7. UnitsOrderly'
        <3> SUFFICES ASSUME NEW w \in Unit
                     PROVE  Orderly(TurnsIn(event_queue', w), DueIn(events', w),
                                    Queued(w)', t, Interval[w])
            BY Views DEF UnitsOrderly
        <3> DEFINE T == IF w = u THEN (TurnsIn(event_queue, u) \ {t}) \cup For(u, more)
                        ELSE TurnsIn(event_queue, w)
                   D == DueIn(Cleared(u, t), w)
        <3>1. Orderly(T, D, Queued(w)', t, Interval[w])
            <4>1. CASE w = u
                BY <1>5, <1>9, <2>4, <4>1
            <4>2. CASE w # u
                BY <1>5, <2>4, <4>2, Advance
            <4> QED BY <4>1, <4>2
        <3>2. TurnsIn(event_queue', w) = T \cup (IF v = w THEN {at} ELSE {})
            BY <2>3
        <3>3. DueIn(events', w) = D \cup (IF v = w THEN {at} ELSE {})
            BY <2>5
        <3>4. T \in SUBSET Nat
            BY Views DEF For
        <3>5. Queued(w)' \in BOOLEAN /\ at \in Nat /\ Interval[w] \in Nat \ {0}
            BY <2>1 DEF Queued
        <3> HIDE DEF T, D
        <3>6. CASE v = w
            <4>1. Orderly(T \cup {at}, D \cup {at}, Queued(w)', t, Interval[w])
                BY <1>6, <2>1, <3>1, <3>4, <3>5, <3>6, Arrival
            <4> QED BY <3>2, <3>3, <3>6, <4>1
        <3>7. CASE v # w
            <4>1. TurnsIn(event_queue', w) = T /\ DueIn(events', w) = D
                BY <3>2, <3>3, <3>7
            <4> QED BY <3>1, <4>1
        <3> QED BY <3>6, <3>7
    <2>8. NoCoreForgotten'
        BY <1>11, <1>13, <2>1, <2>2
    <2> QED BY <2>3, <2>6, <2>7, <2>8 DEF IInv
<1> QED BY <1>3, <1>12, <1>13

\* The front-end schedules cores only, at times to come.
LEMMA FrontEndStep ==
    ASSUME IInv, NEW c \in Core, FrontEnd(c)
    PROVE  IInv'
<1> USE Constants
<1>1. /\ returned = c /\ returned' = NoCore
      /\ UNCHANGED <<curr_time, events, queue, out, hops>>
    BY DEF FrontEnd
<1>2. curr_time \in Nat /\ event_queue \in Queues
    BY DEF IInv, TypeOK, Queues
<1>3. \A d \in Core : load[d] # "empty" \/ (active[d] /\ d # c) =>
          \/ \E t \in Time : t >= curr_time /\ d \in event_queue[t]
          \/ \E m \in Message : Owner[m] = d /\ out[m]
    BY <1>1 DEF IInv, NoCoreForgotten
<1>4. ASSUME fills[c] < MaxFills, fills' = [fills EXCEPT ![c] = @ + 1],
             NEW woken \in SUBSET {d \in Core \ {c} : ~active[d]}, NEW fed \in BOOLEAN,
             NEW first \in SUBSET Core,
             first = {d \in IF fed THEN woken \cup {c} ELSE woken : load[d] = "empty"},
             \A d \in first : curr_time + Interval[d] \in Time,
             load' = [d \in Core |-> IF fed /\ d = c THEN "full"
                                     ELSE IF d \in first THEN "low" ELSE load[d]],
             active' = [d \in Core |-> IF d = c THEN fed ELSE d \in woken \/ active[d]],
             event_queue' = Inserted(event_queue, {<<curr_time + Interval[d], d>> : d \in first})
      PROVE  IInv'
    <2> DEFINE adds == {<<curr_time + Interval[d], d>> : d \in first}
    <2>1. \A d \in first : curr_time + Interval[d] >= curr_time
        BY <1>2, SMT
    <2>2. /\ event_queue' \in Queues
          /\ \A d \in Component :
                TurnsIn(event_queue', d) = TurnsIn(event_queue, d) \cup For(d, adds)
        BY <1>2, <1>4, InsertedIs
    <2>3. TypeOK'
        <3>1. fills' \in [Core -> 0..MaxFills]
            <4>1. fills[c] + 1 \in 0..MaxFills
                <5>1. fills[c] \in 0..MaxFills
                    BY DEF IInv, TypeOK
                <5> QED BY <1>4, <5>1, EventQueueAssumption
            <4> QED BY <1>4, <4>1 DEF IInv, TypeOK
        <3>2. load' \in [Core -> Load]
            BY <1>4 DEF IInv, TypeOK, Load
        <3>3. active' \in [Core -> BOOLEAN]
            BY <1>4 DEF IInv, TypeOK
        <3> QED BY <1>1, <2>2, <3>1, <3>2, <3>3 DEF IInv, TypeOK, Queues
    <2>4. EventsAhead'
        <3> SUFFICES ASSUME NEW s \in Time, NEW d \in event_queue'[s] PROVE s >= curr_time
            BY <1>1 DEF EventsAhead
        <3>1. d \in Component /\ s \in TurnsIn(event_queue', d)
            BY <2>3 DEF TypeOK, TurnsIn
        <3>2. CASE s \in TurnsIn(event_queue, d)
            BY <3>2 DEF TurnsIn, IInv, EventsAhead
        <3>3. CASE s \in For(d, adds)
            BY <2>1, <3>3 DEF For
        <3> QED BY <2>2, <3>1, <3>2, <3>3
    <2>5. UnitsOrderly'
        <3> SUFFICES ASSUME NEW v \in Unit
                     PROVE  Orderly(TurnsIn(event_queue', v), DueIn(events', v),
                                    Queued(v)', curr_time', Interval[v])
            BY Views DEF UnitsOrderly
        <3>1. For(v, adds) = {}
            BY DEF For
        <3>2. TurnsIn(event_queue', v) = TurnsIn(event_queue, v)
            BY <2>2, <3>1
        <3>3. DueIn(events', v) = DueIn(events, v) /\ Queued(v)' = Queued(v)
            BY <1>1 DEF Queued
        <3> QED BY <1>1, <3>2, <3>3, Views DEF IInv, UnitsOrderly
    <2>6. NoCoreForgotten'
        <3> SUFFICES ASSUME NEW d \in Core, load'[d] # "empty" \/ active'[d]
                     PROVE  \/ \E s \in Time : s >= curr_time /\ d \in event_queue'[s]
                            \/ \E m \in Message : Owner[m] = d /\ out[m]
            BY <1>1 DEF NoCoreForgotten
        <3>1. CASE d \in first
            <4>1. curr_time + Interval[d] \in For(d, adds)
                BY <1>4, <3>1 DEF For
            <4>2. curr_time + Interval[d] \in TurnsIn(event_queue', d)
                BY <2>2, <4>1
            <4> QED BY <2>1, <3>1, <4>2 DEF TurnsIn
        <3>2. CASE d \notin first
            <4>1. load[d] # "empty" \/ (active[d] /\ d # c)
                BY <1>4, <3>2
            <4>2. TurnsIn(event_queue, d) \subseteq TurnsIn(event_queue', d)
                BY <2>2
            <4> QED BY <1>3, <4>1, <4>2 DEF TurnsIn
        <3> QED BY <3>1, <3>2
    <2> QED BY <2>3, <2>4, <2>5, <2>6 DEF IInv
<1>5. CASE active' = [active EXCEPT ![c] = FALSE] /\ UNCHANGED <<load, fills, event_queue>>
    <2>1. TypeOK'
        BY <1>1, <1>5 DEF IInv, TypeOK
    <2>2. EventsAhead'
        BY <1>1, <1>5 DEF IInv, EventsAhead
    <2>3. UnitsOrderly'
        BY <1>1, <1>5 DEF IInv, UnitsOrderly, Turns, DueTimes, Due, Queued
    <2>4. NoCoreForgotten'
        BY <1>1, <1>3, <1>5 DEF NoCoreForgotten, IInv, TypeOK
    <2> QED BY <2>1, <2>2, <2>3, <2>4 DEF IInv
<1>6. CASE /\ fills[c] < MaxFills
           /\ fills' = [fills EXCEPT ![c] = @ + 1]
           /\ \E woken \in SUBSET {d \in Core \ {c} : ~active[d]}, fed \in BOOLEAN :
                 LET given == IF fed THEN woken \cup {c} ELSE woken
                     first == {d \in given : load[d] = "empty"}
                 IN
                 /\ \A d \in first : curr_time + Interval[d] \in Time
                 /\ load' = [d \in Core |-> IF fed /\ d = c THEN "full"
                                            ELSE IF d \in first THEN "low" ELSE load[d]]
                 /\ active' = [d \in Core |-> IF d = c THEN fed ELSE d \in woken \/ active[d]]
                 /\ event_queue' =
                        Inserted(event_queue, {<<curr_time + Interval[d], d>> : d \in first})
    <2>1. PICK woken \in SUBSET {d \in Core \ {c} : ~active[d]}, fed \in BOOLEAN :
              LET given == IF fed THEN woken \cup {c} ELSE woken
                  first == {d \in given : load[d] = "empty"}
              IN
              /\ \A d \in first : curr_time + Interval[d] \in Time
              /\ load' = [d \in Core |-> IF fed /\ d = c THEN "full"
                                         ELSE IF d \in first THEN "low" ELSE load[d]]
              /\ active' = [d \in Core |-> IF d = c THEN fed ELSE d \in woken \/ active[d]]
              /\ event_queue' =
                     Inserted(event_queue, {<<curr_time + Interval[d], d>> : d \in first})
        BY <1>6, Zenon
    <2> DEFINE first == {d \in IF fed THEN woken \cup {c} ELSE woken : load[d] = "empty"}
    <2>2. first \in SUBSET Core
        OBVIOUS
    <2>3. /\ \A d \in first : curr_time + Interval[d] \in Time
          /\ load' = [d \in Core |-> IF fed /\ d = c THEN "full"
                                     ELSE IF d \in first THEN "low" ELSE load[d]]
          /\ active' = [d \in Core |-> IF d = c THEN fed ELSE d \in woken \/ active[d]]
          /\ event_queue' =
                 Inserted(event_queue, {<<curr_time + Interval[d], d>> : d \in first})
        BY <2>1, Zenon
    <2>4. fills[c] < MaxFills /\ fills' = [fills EXCEPT ![c] = @ + 1]
        BY <1>6
    <2>5. first = {d \in IF fed THEN woken \cup {c} ELSE woken : load[d] = "empty"}
        OBVIOUS
    <2> HIDE DEF first
    <2> QED BY <1>4, <2>2, <2>3, <2>4, <2>5
<1> QED BY <1>5, <1>6, Zenon DEF FrontEnd

LEMMA StepInv == IInv /\ [Next]_vars => IInv'
<1> SUFFICES ASSUME IInv, [Next]_vars PROVE IInv'
    OBVIOUS
<1>1. ASSUME NEW c \in Component, NEW t \in Time, Process(c, t) PROVE IInv'
    <2>1. returned = NoCore /\ Earliest(t) /\ c \in event_queue[t] /\ curr_time' = t
        BY <1>1 DEF Process
    <2>2. CASE c \in Core
        <3>1. Fetch(c, t) \/ Run(c, t)
            BY <1>1, <2>2 DEF Process
        <3> QED BY <2>1, <2>2, <3>1, FetchStep, RunStep
    <2>3. CASE c \notin Core
        <3>1. c \in Unit /\ Serve(c, t)
            BY <1>1, <2>3 DEF Process, Component
        <3> QED BY <2>1, <3>1, ServeStep
    <2> QED BY <2>2, <2>3
<1>2. ASSUME NEW c \in Core, FrontEnd(c) PROVE IInv'
    BY <1>2, FrontEndStep
<1>3. CASE UNCHANGED vars
    BY <1>3 DEF vars, IInv, TypeOK, EventsAhead, UnitsOrderly, NoCoreForgotten,
                Turns, DueTimes, Due, Queued
<1> QED BY <1>1, <1>2, <1>3 DEF Next, Finished

-------------------------------------------------------------------------------------
\* The inductive invariant holds in every reachable state of every machine.
THEOREM Invariance == Spec => []IInv
<1> QED BY InitInv, StepInv, PTL DEF Spec

(* No message sent to a directory or a shared cache is stranded: the event that will  *)
(* have it served is in the map, for any intervals and latencies (add_req_event,      *)
(* add_rep_event and the tail of process_event).                                      *)
THEOREM NoMessageIsStranded == Spec => []NothingStranded
<1>1. IInv => NothingStranded
    BY DEF IInv, UnitsOrderly, NothingStranded, Orderly, Turns, DueTimes
<1> QED BY <1>1, Invariance, PTL

(* The assertion at PTSDirectory.cc:215 and PTSCache.cc:1771 holds: a directory or a  *)
(* shared cache that is processed has a message to serve.                             *)
THEOREM TurnsHaveWork == Spec => []NeverWokenForNothing
<1>1. IInv => NeverWokenForNothing
    BY DEF IInv, UnitsOrderly, NeverWokenForNothing, Orderly, Turns, DueTimes
<1> QED BY <1>1, Invariance, PTL

(* A core with work is scheduled or awaits an answer, so that resume_simulation       *)
(* never needs to look for an active core when the map is empty (McSim.cc:716-790).   *)
THEOREM CoresAreNotForgotten == Spec => []NoCoreForgotten
<1>1. IInv => NoCoreForgotten
    BY DEF IInv
<1> QED BY <1>1, Invariance, PTL

\* curr_time, which every component reads as the time of its event, never decreases.
THEOREM TimeAdvances == Spec => TimeNeverGoesBack
<1>1. IInv /\ [Next]_vars => [curr_time' >= curr_time]_vars
    <2> SUFFICES ASSUME IInv, [Next]_vars PROVE curr_time' >= curr_time \/ UNCHANGED vars
        OBVIOUS
    <2>1. ASSUME NEW c \in Component, NEW t \in Time, Process(c, t)
          PROVE  curr_time' >= curr_time
        BY <2>1, Advance DEF Process
    <2>2. ASSUME NEW c \in Core, FrontEnd(c) PROVE curr_time' >= curr_time
        BY <2>2, Constants, SMT DEF FrontEnd, IInv, TypeOK
    <2> QED BY <2>1, <2>2 DEF Next, Finished
<1> QED BY <1>1, Invariance, PTL DEF Spec, TimeNeverGoesBack
-------------------------------------------------------------------------------------
(* A message goes the shortest way: whatever the size of the ring or of the mesh, each *)
(* hop brings it one nearer to its destination, so that it arrives after as many hops  *)
(* as it is away.  Round the ring it never turns.                                      *)

RingNode(n) == 0..(n - 1)
RingNext(n, i, d) == RingNeighbour(n, i, RingPort(n, i, d))

\* The remainders the neighbours of a ring are computed with.
LEMMA Onward ==
  ASSUME NEW n \in Nat, n > 0, NEW i \in RingNode(n)
  PROVE  /\ (i + 1) % n = IF i + 1 = n THEN 0 ELSE i + 1
         /\ (n + i - 1) % n = IF i = 0 THEN n - 1 ELSE i - 1
<1>1. CASE i + 1 = n
  <2>1. (i + 1) % n = 0 BY <1>1
  <2>2. CASE i = 0 BY <1>1, <2>1, <2>2 DEF RingNode
  <2>3. CASE i # 0
    <3>1. n + i - 1 = n + (i - 1) /\ i - 1 \in 0..(n - 1) BY <2>3 DEF RingNode
    <3>2. (n + i - 1) % n = i - 1 BY <3>1
    <3> QED BY <2>1, <2>3, <3>2, <1>1
  <2> QED BY <2>2, <2>3
<1>2. CASE i + 1 # n
  <2>1. i + 1 \in 0..(n - 1) BY <1>2 DEF RingNode
  <2>2. (i + 1) % n = i + 1 BY <2>1
  <2>3. CASE i = 0 BY <1>2, <2>2, <2>3
  <2>4. CASE i # 0
    <3>1. n + i - 1 = n + (i - 1) /\ i - 1 \in 0..(n - 1) BY <2>4 DEF RingNode
    <3>2. (n + i - 1) % n = i - 1 BY <3>1
    <3> QED BY <1>2, <2>2, <2>4, <3>2
  <2> QED BY <2>3, <2>4
<1> QED BY <1>1, <1>2

\* Half of a ring, without the division.
LEMMA HalfRing ==
  ASSUME NEW n \in Nat
  PROVE  /\ n \div 2 \in Nat
         /\ \A a \in Nat : a <= n \div 2 <=> 2 * a <= n
  OBVIOUS

\* Ring (process_qs): the next router is one of the ring and one hop nearer.
THEOREM RingGetsNearer ==
  ASSUME NEW n \in Nat, n > 0, NEW i \in RingNode(n), NEW d \in RingNode(n), i # d
  PROVE  /\ RingNext(n, i, d) \in RingNode(n)
         /\ RingHops(n, RingNext(n, i, d), d) = RingHops(n, i, d) - 1
<1>1. RingNext(n, i, d) = IF RingPort(n, i, d) = 0 THEN (IF i + 1 = n THEN 0 ELSE i + 1)
                                                     ELSE (IF i = 0 THEN n - 1 ELSE i - 1)
  BY Onward DEF RingNext, RingNeighbour
<1>2. i \in Int /\ d \in Int /\ 0 <= i /\ i < n /\ 0 <= d /\ d < n BY DEF RingNode
<1>3. RingPort(n, i, d) = 0 <=> Ahead(n, i, d) <= n \div 2
  BY <1>2 DEF RingPort, Ahead
<1> QED BY <1>1, <1>2, <1>3, HalfRing DEF RingHops, Ahead, RingNode

\* RingHops is a distance: half the ring at most, and none only at the destination.
THEOREM RingIsShort ==
  ASSUME NEW n \in Nat, n > 0, NEW i \in RingNode(n), NEW d \in RingNode(n)
  PROVE  /\ RingHops(n, i, d) \in 0..(n \div 2)
         /\ RingHops(n, i, d) = 0 <=> i = d
<1>1. i \in Int /\ d \in Int /\ 0 <= i /\ i < n /\ 0 <= d /\ d < n BY DEF RingNode
<1>2. Ahead(n, i, d) \in 0..(n - 1) BY <1>1 DEF Ahead
<1>3. CASE Ahead(n, i, d) <= n \div 2
  BY <1>1, <1>2, <1>3, HalfRing DEF RingHops, Ahead
<1>4. CASE ~(Ahead(n, i, d) <= n \div 2)
  <2>1. 2 * Ahead(n, i, d) > n BY <1>2, <1>4, HalfRing
  <2>2. n - Ahead(n, i, d) \in Nat /\ 2 * (n - Ahead(n, i, d)) <= n BY <1>2, <2>1
  <2>3. n - Ahead(n, i, d) <= n \div 2 /\ n - Ahead(n, i, d) # 0 BY <1>2, <2>2, HalfRing
  <2>4. i # d BY <1>1, <2>1 DEF Ahead
  <2> QED BY <1>4, <2>2, <2>3, <2>4, HalfRing DEF RingHops
<1> QED BY <1>3, <1>4

\* A message that goes one way round the ring never turns back: the router it enters
\* sends it on the same way, also where both ways are as long.
THEOREM RingNeverTurns ==
  ASSUME NEW n \in Nat, n > 0, NEW i \in RingNode(n), NEW d \in RingNode(n), i # d,
         RingNext(n, i, d) # d
  PROVE  RingPort(n, RingNext(n, i, d), d) = RingPort(n, i, d)
<1>1. RingNext(n, i, d) = IF RingPort(n, i, d) = 0 THEN (IF i + 1 = n THEN 0 ELSE i + 1)
                                                     ELSE (IF i = 0 THEN n - 1 ELSE i - 1)
  BY Onward DEF RingNext, RingNeighbour
<1>2. i \in Int /\ d \in Int /\ 0 <= i /\ i < n /\ 0 <= d /\ d < n BY DEF RingNode
<1>3. \A j \in RingNode(n) : j # d =>
        RingPort(n, j, d) = IF 2 * Ahead(n, j, d) <= n THEN 0 ELSE 1
  BY <1>2, HalfRing DEF RingPort, Ahead, RingNode
<1>4. RingNext(n, i, d) \in RingNode(n) BY RingGetsNearer
<1>5. CASE RingPort(n, i, d) = 0
  <2>1. 2 * Ahead(n, i, d) <= n BY <1>3, <1>5
  <2>2. Ahead(n, RingNext(n, i, d), d) = Ahead(n, i, d) - 1
    BY <1>1, <1>2, <1>5 DEF Ahead
  <2>3. Ahead(n, i, d) \in Nat BY <1>2 DEF Ahead
  <2> QED BY <1>3, <1>4, <1>5, <2>1, <2>2, <2>3
<1>6. CASE RingPort(n, i, d) # 0
  <2>1. 2 * Ahead(n, i, d) > n /\ RingPort(n, i, d) = 1 BY <1>2, <1>3, <1>6 DEF Ahead
  <2>2. Ahead(n, RingNext(n, i, d), d) = Ahead(n, i, d) + 1
    BY <1>1, <1>2, <1>6 DEF Ahead
  <2>3. Ahead(n, i, d) \in Nat BY <1>2 DEF Ahead
  <2> QED BY <1>3, <1>4, <2>1, <2>2, <2>3
<1> QED BY <1>5, <1>6

MeshNode(rows, cols) == (0..(rows - 1)) \X (0..(cols - 1))
MeshNext(i, d) == MeshNeighbour(i, MeshPort(i, d))

\* Mesh2D (process_qs): the next router is one of the mesh and one hop nearer, so no
\* message leaves the edge of the mesh.
THEOREM MeshGetsNearer ==
  ASSUME NEW rows \in Nat, NEW cols \in Nat,
         NEW i \in MeshNode(rows, cols), NEW d \in MeshNode(rows, cols), i # d
  PROVE  /\ MeshNext(i, d) \in MeshNode(rows, cols)
         /\ MeshHops(MeshNext(i, d), d) = MeshHops(i, d) - 1
<1> DEFINE r == i[1]  c == i[2]  dr == d[1]  dc == d[2]
<1>1. i = <<r, c>> /\ d = <<dr, dc>> BY DEF MeshNode
<1>2. r \in 0..(rows - 1) /\ c \in 0..(cols - 1) /\ dr \in 0..(rows - 1) /\ dc \in 0..(cols - 1)
  BY DEF MeshNode
<1>3. CASE c > dc
  <2>1. MeshPort(i, d) = 3 BY <1>2, <1>3 DEF MeshPort
  <2>2. MeshNext(i, d) = <<r, c - 1>> BY <2>1 DEF MeshNext, MeshNeighbour
  <2>3. c - 1 \in 0..(cols - 1) BY <1>2, <1>3
  <2> QED BY <1>2, <1>3, <2>2, <2>3 DEF MeshHops, Gap, MeshNode
<1>4. CASE c < dc
  <2>1. MeshPort(i, d) = 2 BY <1>2, <1>4 DEF MeshPort
  <2>2. MeshNext(i, d) = <<r, c + 1>> BY <2>1 DEF MeshNext, MeshNeighbour
  <2>3. c + 1 \in 0..(cols - 1) BY <1>2, <1>4
  <2> QED BY <1>2, <1>4, <2>2, <2>3 DEF MeshHops, Gap, MeshNode
<1>5. CASE c = dc /\ r > dr
  <2>1. MeshPort(i, d) = 0 BY <1>2, <1>5 DEF MeshPort
  <2>2. MeshNext(i, d) = <<r - 1, c>> BY <2>1 DEF MeshNext, MeshNeighbour
  <2>3. r - 1 \in 0..(rows - 1) BY <1>2, <1>5
  <2> QED BY <1>2, <1>5, <2>2, <2>3 DEF MeshHops, Gap, MeshNode
<1>6. CASE c = dc /\ r < dr
  <2>1. MeshPort(i, d) = 1 BY <1>2, <1>6 DEF MeshPort
  <2>2. MeshNext(i, d) = <<r + 1, c>> BY <2>1 DEF MeshNext, MeshNeighbour
  <2>3. r + 1 \in 0..(rows - 1) BY <1>2, <1>6
  <2> QED BY <1>2, <1>6, <2>2, <2>3 DEF MeshHops, Gap, MeshNode
<1>7. c # dc \/ r # dr BY <1>1
<1> QED BY <1>2, <1>3, <1>4, <1>5, <1>6, <1>7

-------------------------------------------------------------------------------------
\* Recursive functions, and parts of sequences.

\* A non-empty set of natural numbers has a least element.
LEMMA LeastNumber ==
    ASSUME NEW T \in SUBSET Nat, T # {}
    PROVE  \E x \in T : \A y \in T : x <= y
<1> DEFINE R == {ss \in Nat \X Nat : ss[1] < ss[2]}
<1>1. IsWellFoundedOn(R, Nat)
    BY NatLessThanWellFounded DEF OpToRel
<1>2. \E x \in T : \A y \in T : <<y, x>> \notin R
    <2> HIDE DEF R
    <2> QED BY <1>1, WFMin
<1>3. PICK x \in T : \A y \in T : <<y, x>> \notin R
    BY <1>2
<1>4. ASSUME NEW y \in T PROVE x <= y
    <2>1. <<y, x>> \in Nat \X Nat /\ <<y, x>> \notin R
        BY <1>3
    <2> QED BY <2>1
<1> QED BY <1>4

\* A set that holds 0, and with each number the next one, holds all of them.
LEMMA Induction ==
    ASSUME NEW T, 0 \in T, \A n \in Nat : n \in T => n + 1 \in T
    PROVE  Nat \subseteq T
<1> SUFFICES ASSUME Nat \ T # {} PROVE FALSE
    OBVIOUS
<1>1. PICK x \in Nat \ T : \A y \in Nat \ T : x <= y
    BY LeastNumber
<1>2. x - 1 \in Nat /\ x = (x - 1) + 1
    OBVIOUS
<1>3. x - 1 \in T
    BY <1>1, <1>2
<1> QED BY <1>2, <1>3

\* Steps in turn, G[<<i, x>>] being the i-th from x: they are what a recursive function gives,
\* if they keep to P.
Steps(f, n, base, G) == f = [i \in 0..n |-> IF i = 0 THEN base ELSE G[<<i, f[i-1]>>]]

LEMMA StepsExist ==
    ASSUME NEW n \in Nat, NEW base, NEW G PROVE \E f : Steps(f, n, base, G)
<1> DEFINE T == {k \in Nat : \E f : Steps(f, k, base, G)}
<1>1. 0 \in T
    <2> DEFINE f == [i \in 0..0 |-> base]
    <2>1. \A i \in 0..0 : i = 0
        OBVIOUS
    <2>2. f = [i \in 0..0 |-> IF i = 0 THEN base ELSE G[<<i, f[i-1]>>]]
        BY <2>1, Zenon
    <2>3. Steps(f, 0, base, G)
        BY <2>2 DEF Steps
    <2> HIDE DEF f
    <2> QED BY <2>3
<1>2. ASSUME NEW k \in Nat, k \in T PROVE k + 1 \in T
    <2>1. PICK f : Steps(f, k, base, G)
        BY <1>2
    <2> DEFINE g == [i \in 0..k+1 |-> IF i = k + 1 THEN G[<<k + 1, f[k]>>] ELSE f[i]]
    <2>2. ASSUME NEW i \in 0..k+1
          PROVE  g[i] = IF i = 0 THEN base ELSE G[<<i, g[i-1]>>]
        <3>1. CASE i = 0
            <4>1. 0 \in 0..k /\ 0 # k + 1
                OBVIOUS
            <4>2. f[0] = base
                BY <2>1, <4>1 DEF Steps
            <4> QED BY <3>1, <4>1, <4>2
        <3>2. CASE i = k + 1
            <4>1. k \in 0..k+1 /\ k # k + 1 /\ i # 0 /\ i - 1 = k
                BY <3>2
            <4>2. g[k] = f[k]
                BY <4>1
            <4> QED BY <3>2, <4>1, <4>2
        <3>3. CASE i \in 1..k
            <4>1. i \in 0..k /\ i - 1 \in 0..k+1 /\ i # 0 /\ i # k + 1 /\ i - 1 # k + 1
                BY <3>3
            <4>2. f[i] = G[<<i, f[i-1]>>]
                BY <2>1, <4>1 DEF Steps
            <4>3. g[i-1] = f[i-1] /\ g[i] = f[i]
                BY <4>1
            <4> QED BY <4>1, <4>2, <4>3
        <3> QED BY <3>1, <3>2, <3>3
    <2>3. g = [i \in 0..k+1 |-> g[i]]
        BY Zenon
    <2> HIDE DEF g
    <2>4. g = [i \in 0..k+1 |-> IF i = 0 THEN base ELSE G[<<i, g[i-1]>>]]
        BY <2>2, <2>3, Zenon
    <2>5. Steps(g, k + 1, base, G)
        BY <2>4 DEF Steps
    <2> QED BY <2>5
<1> HIDE DEF T
<1>3. Nat \subseteq T
    BY <1>1, <1>2, Induction
<1> QED BY <1>3 DEF T

LEMMA StepsKeep ==
    ASSUME NEW n \in Nat, NEW base, NEW G, NEW f, Steps(f, n, base, G), NEW P, <<0, base>> \in P,
           \A i \in 1..n : \A x : <<i - 1, x>> \in P => <<i, G[<<i, x>>]>> \in P
    PROVE  \A i \in 0..n : <<i, f[i]>> \in P
<1> DEFINE T == {k \in Nat : k \in 0..n => <<k, f[k]>> \in P}
<1>1. 0 \in T
    <2>1. 0 \in 0..n
        OBVIOUS
    <2>2. f[0] = base
        BY <2>1 DEF Steps
    <2> QED BY <2>2
<1>2. ASSUME NEW k \in Nat, k \in T PROVE k + 1 \in T
    <2> SUFFICES ASSUME k + 1 \in 0..n PROVE <<k + 1, f[k + 1]>> \in P
        OBVIOUS
    <2>1. k \in 0..n /\ k + 1 \in 1..n /\ k + 1 # 0 /\ (k + 1) - 1 = k
        OBVIOUS
    <2>2. f[k + 1] = G[<<k + 1, f[k]>>]
        BY <2>1 DEF Steps
    <2>3. <<k, f[k]>> \in P
        BY <1>2, <2>1
    <2> QED BY <2>1, <2>2, <2>3
<1> HIDE DEF T
<1>3. Nat \subseteq T
    BY <1>1, <1>2, Induction
<1>4. \A k \in 0..n : k \in Nat
    OBVIOUS
<1> QED BY <1>3, <1>4 DEF T

-------------------------------------------------------------------------------------
(* Parts of sequences *)

\* t is what is at places K of the first i of s, and e says where.
PicksTo(t, e, s, K, i) ==
    /\ e \in [1..Len(t) -> 1..i]
    /\ \A j \in 1..Len(t) : t[j] = s[e[j]] /\ e[j] \in K
    /\ \A j, l \in 1..Len(t) : j < l => e[j] < e[l]
    /\ \A k \in 1..i : k \in K => \E j \in 1..Len(t) : e[j] = k
Picks(t, e, s, K) == PicksTo(t, e, s, K, Len(s))

PickOne(t, s, K, i) == IF i \in K THEN Append(t, s[i]) ELSE t

LEMMA PicksOne ==
    ASSUME NEW S, NEW s \in Seq(S), NEW K, NEW i \in 1..Len(s), NEW t \in Seq(S), NEW e,
           PicksTo(t, e, s, K, i - 1)
    PROVE  PickOne(t, s, K, i) \in Seq(S) /\ \E d : PicksTo(PickOne(t, s, K, i), d, s, K, i)
<1>1. PICK n, u : n = Len(t) /\ u = PickOne(t, s, K, i)
    OBVIOUS
<1>2. n \in Nat /\ i \in Nat /\ i > 0 /\ s[i] \in S
    BY <1>1, LenProperties, ElementOfSeq
<1>3. CASE i \notin K
    <2>1. u = t
        BY <1>1, <1>3 DEF PickOne
    <2>2. PicksTo(t, e, s, K, i)
        <3>1. e \in [1..n -> 1..i]
            BY <1>1, <1>2 DEF PicksTo
        <3>2. ASSUME NEW k \in 1..i, k \in K PROVE \E j \in 1..n : e[j] = k
            <4>1. k \in 1..i-1
                BY <1>2, <1>3, <3>2
            <4> QED BY <1>1, <3>2, <4>1 DEF PicksTo
        <3> QED BY <1>1, <3>1, <3>2 DEF PicksTo
    <2> QED BY <1>1, <2>1, <2>2
<1>4. CASE i \in K
    <2>1. u = Append(t, s[i])
        BY <1>1, <1>4 DEF PickOne
    <2>2. u \in Seq(S) /\ Len(u) = n + 1 /\ u[n + 1] = s[i] /\ \A j \in 1..n : u[j] = t[j]
        BY <1>1, <1>2, <2>1, AppendProperties
    <2>3. PICK d : d = [j \in 1..n+1 |-> IF j = n + 1 THEN i ELSE e[j]]
        OBVIOUS
    <2>4. \A j \in 1..n : e[j] \in 1..i-1 /\ t[j] = s[e[j]] /\ e[j] \in K
        BY <1>1 DEF PicksTo
    <2>5. \A j \in 1..n+1 : (j = n + 1 /\ d[j] = i) \/ (j \in 1..n /\ d[j] = e[j])
        BY <1>2, <2>3
    <2>6. d \in [1..n+1 -> 1..i]
        <3>1. \A j \in 1..n+1 : (IF j = n + 1 THEN i ELSE e[j]) \in 1..i
            BY <1>2, <2>4
        <3> QED BY <2>3, <3>1
    <2>7. \A j \in 1..n+1 : u[j] = s[d[j]] /\ d[j] \in K
        BY <1>4, <2>2, <2>4, <2>5
    <2>8. ASSUME NEW j \in 1..n+1, NEW l \in 1..n+1, j < l PROVE d[j] < d[l]
        <3>0. j \in 1..n /\ j # n + 1
            BY <1>2, <2>8
        <3>1. d[j] = e[j] /\ e[j] \in 1..i-1
            BY <2>4, <2>5, <3>0
        <3>2. CASE l = n + 1
            BY <1>2, <2>5, <3>1, <3>2
        <3>3. CASE l # n + 1
            <4>1. l \in 1..n /\ d[l] = e[l]
                BY <1>2, <2>5, <3>3
            <4> QED BY <1>1, <2>8, <3>0, <3>1, <4>1 DEF PicksTo
        <3> QED BY <3>2, <3>3
    <2>9. ASSUME NEW k \in 1..i, k \in K PROVE \E j \in 1..n+1 : d[j] = k
        <3>1. CASE k = i
            BY <1>2, <2>5, <3>1
        <3>2. CASE k # i
            <4>1. k \in 1..i-1
                BY <1>2, <3>2
            <4>2. PICK j \in 1..n : e[j] = k
                BY <1>1, <2>9, <4>1 DEF PicksTo
            <4>3. j \in 1..n+1 /\ j # n + 1
                BY <1>2
            <4> QED BY <2>5, <4>2, <4>3
        <3> QED BY <3>1, <3>2
    <2>10. PicksTo(u, d, s, K, i)
        BY <2>2, <2>6, <2>7, <2>8, <2>9 DEF PicksTo
    <2> QED BY <1>1, <2>2, <2>10
<1> QED BY <1>3, <1>4

PickTurns(f, s, K) ==
    f = [k \in 0..Len(s) |-> IF k = 0 THEN <<>>
                             ELSE IF k \in K THEN Append(f[k - 1], s[k]) ELSE f[k - 1]]

LEMMA PickedTurns ==
    ASSUME NEW s, NEW K, \E f : PickTurns(f, s, K)
    PROVE  \E f : Picked(s, K) = f[Len(s)] /\ PickTurns(f, s, K)
<1>1. Picked(s, K) = (CHOOSE f : PickTurns(f, s, K))[Len(s)]
    BY DEF Picked, PickTurns
<1>2. PickTurns(CHOOSE f : PickTurns(f, s, K), s, K)
    BY Zenon
<1> QED BY <1>1, <1>2

LEMMA Listed ==
    ASSUME NEW S, NEW s, NEW K, NEW n, NEW i \in 0..n, NEW t \in Seq(S),
           \E e : PicksTo(t, e, s, K, i)
    PROVE  <<i, t>> \in {z \in (0..n) \X Seq(S) : \E e : PicksTo(z[2], e, s, K, z[1])}
<1>1. PICK z : z = <<i, t>>
    OBVIOUS
<1>2. z[1] = i /\ z[2] = t /\ z \in (0..n) \X Seq(S)
    BY <1>1
<1>3. \E e : PicksTo(z[2], e, s, K, z[1])
    BY <1>2
<1>4. z \in {y \in (0..n) \X Seq(S) : \E e : PicksTo(y[2], e, s, K, y[1])}
    BY <1>2, <1>3, Zenon
<1> QED BY <1>1, <1>4

\* A part of a sequence is its elements in their order.
LEMMA PickedIs ==
    ASSUME NEW S, NEW s \in Seq(S), NEW K
    PROVE  Picked(s, K) \in Seq(S) /\ \E e : Picks(Picked(s, K), e, s, K)
<1>1. PICK n : n = Len(s) /\ n \in Nat
    BY LenProperties
<1> DEFINE G == [z \in (1..n) \X Seq(S) |-> PickOne(z[2], s, K, z[1])]
           P == {z \in (0..n) \X Seq(S) : \E e : PicksTo(z[2], e, s, K, z[1])}
<1>2. <<0, <<>>>> \in P
    <2>1. <<>> \in Seq(S) /\ Len(<<>>) = 0
        BY EmptySeq
    <2>2. PICK e : e = [j \in 1..0 |-> 0]
        OBVIOUS
    <2>3. PicksTo(<<>>, e, s, K, 0)
        BY <2>1, <2>2 DEF PicksTo
    <2>4. 0 \in 0..n
        BY <1>1
    <2> QED BY <2>1, <2>3, <2>4, Listed
<1>3. ASSUME NEW i \in 1..n, NEW x, <<i - 1, x>> \in P
      PROVE  G[<<i, x>>] = PickOne(x, s, K, i) /\ <<i, G[<<i, x>>]>> \in P
    <2>1. x \in Seq(S)
        BY <1>3
    <2>2. PICK e : PicksTo(x, e, s, K, i - 1)
        BY <1>3
    <2>3. G[<<i, x>>] = PickOne(x, s, K, i)
        BY <2>1
    <2>4. PickOne(x, s, K, i) \in Seq(S) /\ \E d : PicksTo(PickOne(x, s, K, i), d, s, K, i)
        BY <1>1, <2>1, <2>2, PicksOne
    <2>5. i \in 0..n
        BY <1>1
    <2> QED BY <2>3, <2>4, <2>5, Listed
<1> HIDE DEF G, P
<1>4. PICK g : Steps(g, n, <<>>, G)
    BY <1>1, StepsExist
<1>5. \A i \in 0..n : <<i, g[i]>> \in P
    BY <1>1, <1>2, <1>3, <1>4, StepsKeep
<1>6. PickTurns(g, s, K)
    <2>1. ASSUME NEW i \in 0..n
          PROVE  g[i] = IF i = 0 THEN <<>> ELSE IF i \in K THEN Append(g[i-1], s[i]) ELSE g[i-1]
        <3>1. g[i] = IF i = 0 THEN <<>> ELSE G[<<i, g[i-1]>>]
            BY <1>4, <2>1 DEF Steps
        <3>2. CASE i # 0
            <4>1. i \in 1..n /\ i - 1 \in 0..n
                BY <1>1, <3>2
            <4>2. G[<<i, g[i-1]>>] = PickOne(g[i-1], s, K, i)
                BY <1>3, <1>5, <4>1
            <4> QED BY <3>1, <3>2, <4>2 DEF PickOne
        <3> QED BY <3>1, <3>2
    <2>2. g = [i \in 0..n |-> g[i]]
        BY <1>4 DEF Steps
    <2>3. g = [i \in 0..n |-> IF i = 0 THEN <<>>
                              ELSE IF i \in K THEN Append(g[i-1], s[i]) ELSE g[i-1]]
        BY <2>1, <2>2, Zenon
    <2> QED BY <1>1, <2>3 DEF PickTurns
<1>7. PICK f : Picked(s, K) = f[n] /\ PickTurns(f, s, K)
    BY <1>1, <1>6, PickedTurns
<1> DEFINE T == {k \in Nat : k \in 0..n => <<k, f[k]>> \in P}
<1>8. 0 \in T
    <2>1. 0 \in 0..n
        BY <1>1
    <2>2. f[0] = <<>>
        BY <1>1, <1>7, <2>1 DEF PickTurns
    <2> QED BY <1>2, <2>2
<1>9. ASSUME NEW k \in Nat, k \in T PROVE k + 1 \in T
    <2> SUFFICES ASSUME k + 1 \in 0..n PROVE <<k + 1, f[k + 1]>> \in P
        OBVIOUS
    <2>1. k \in 0..n /\ k + 1 \in 1..n /\ k + 1 # 0 /\ (k + 1) - 1 = k
        BY <1>1
    <2>2. <<(k + 1) - 1, f[k]>> \in P
        BY <1>9, <2>1
    <2>3. f[k + 1] = PickOne(f[k], s, K, k + 1)
        BY <1>1, <1>7, <2>1 DEF PickTurns, PickOne
    <2> QED BY <1>3, <2>1, <2>2, <2>3
<1> HIDE DEF T
<1>10. Nat \subseteq T
    BY <1>8, <1>9, Induction
<1>11. <<n, f[n]>> \in P
    BY <1>1, <1>10 DEF T
<1>12. f[n] \in Seq(S) /\ \E e : PicksTo(f[n], e, s, K, n)
    BY <1>11 DEF P
<1> QED BY <1>1, <1>7, <1>12 DEF Picks


-------------------------------------------------------------------------------------
(* The networks *)

UsedClasses == {Used[k] : k \in DOMAIN Used}
Messages    == {Packet(f, id, dummy) : f \in Flows, id \in Nat, dummy \in BOOLEAN}
Start(m)    == <<NodeOf(m.src), PortOf(m.src), m.class>>
HopFrom(x, m) == <<Neighbour(x[1], Out(x[1], m)), Opposite(Out(x[1], m)), x[3]>>

LEMMA Built ==
    ASSUME noc \in DOMAIN Machines
    PROVE  /\ WellBuilt(Machines[noc])
           /\ Pairs = {<<f.src, f.dst>> : f \in Flows}
           /\ Slots = Nodes \X (0..(Ports - 1)) \X UsedClasses
           /\ \A f \in Flows : f.class \in UsedClasses
           /\ IsFiniteSet(UsedClasses) /\ \A c \in UsedClasses : \E k \in DOMAIN Classes : Classes[k] = c
           /\ DOMAIN Used = 1..Len(Used) /\ Len(Used) \in Nat
<1> DEFINE m == Machines[noc]
           K == {k \in DOMAIN Classes : \E f \in Flows : f.class = Classes[k]}
<1>1. WellBuilt(m) /\ m = Machine(m.kind, m.nodes, m.ports, m.paths, m.at, m.exit, m.flows)
    BY NetworkAssumption
<1>2. /\ m.pairs = {<<f.src, f.dst>> : f \in m.flows}
      /\ m.classes = Picked(Classes, {k \in DOMAIN Classes : \E f \in m.flows : f.class = Classes[k]})
      /\ m.slots = m.nodes \X (0..(m.ports - 1)) \X {m.classes[k] : k \in DOMAIN m.classes}
    <2> DEFINE used == Picked(Classes, {k \in DOMAIN Classes : \E f \in m.flows : f.class = Classes[k]})
    <2>1. PICK p : p = {<<f.src, f.dst>> : f \in m.flows}
        OBVIOUS
    <2>2. PICK u : u = used
        OBVIOUS
    <2>3. PICK s : s = m.nodes \X (0..(m.ports - 1)) \X {used[k] : k \in DOMAIN used}
        OBVIOUS
    <2>4. Machine(m.kind, m.nodes, m.ports, m.paths, m.at, m.exit, m.flows) =
            [kind |-> m.kind, nodes |-> m.nodes, ports |-> m.ports, paths |-> m.paths, at |-> m.at,
             exit |-> m.exit, flows |-> m.flows, pairs |-> p, classes |-> u, slots |-> s]
        BY <2>1, <2>2, <2>3, Zenon DEF Machine
    <2> HIDE DEF m, used
    <2>5. m.pairs = p /\ m.classes = u /\ m.slots = s
        BY <1>1, <2>4
    <2> QED BY <2>1, <2>2, <2>3, <2>5 DEF used
<1>3. Used = Picked(Classes, K)
    BY <1>2 DEF Used, Flows
<1> DEFINE Names == {"mcrp", "l3rp", "l3rq", "dirrq", "rep", "crq", "req"}
<1>4. Classes \in Seq(Names) /\ Len(Classes) = 7 /\ DOMAIN Classes = 1..7
    <2>1. Len(Classes) = 7 /\ DOMAIN Classes = 1..7
        BY DEF Classes
    <2>2. Classes \in Seq(Names)
        BY DEF Classes
    <2> QED BY <2>1, <2>2
<1> HIDE DEF K, Names
<1>5. Used \in Seq(Names) /\ \E e : Picks(Used, e, Classes, K)
    BY <1>3, <1>4, PickedIs
<1>6. PICK e : Picks(Used, e, Classes, K)
    BY <1>5
<1>7. DOMAIN Used = 1..Len(Used) /\ Len(Used) \in Nat
    BY <1>5, LenProperties
<1>8. ASSUME NEW f \in Flows PROVE f.class \in UsedClasses
    <2>1. PICK k \in DOMAIN Classes : f.class = Classes[k]
        BY <1>1 DEF WellBuilt, Flows
    <2>2. k \in K /\ k \in 1..Len(Classes)
        BY <1>4, <2>1 DEF K
    <2>3. PICK j \in 1..Len(Used) : e[j] = k
        BY <1>6, <2>2 DEF Picks, PicksTo
    <2>4. Used[j] = Classes[k]
        BY <1>6, <2>3 DEF Picks, PicksTo
    <2> QED BY <1>7, <2>1, <2>3, <2>4 DEF UsedClasses
<1>9. IsFiniteSet(UsedClasses)
    <2>1. PICK u : u = [k \in 1..Len(Used) |-> Used[k]]
        OBVIOUS
    <2>2. IsFiniteSet(1..Len(Used))
        BY <1>7, FS_Interval
    <2>3. u \in Surjection(1..Len(Used), UsedClasses)
        BY <1>7, <2>1 DEF Surjection, UsedClasses
    <2> QED BY <2>2, <2>3, FS_Surjection
<1>10. ASSUME NEW c \in UsedClasses PROVE \E k \in DOMAIN Classes : Classes[k] = c
    <2>1. PICK j \in 1..Len(Used) : c = Used[j]
        BY <1>7 DEF UsedClasses
    <2>2. Used[j] = Classes[e[j]] /\ e[j] \in 1..Len(Classes)
        BY <1>6, <2>1 DEF Picks, PicksTo
    <2> QED BY <1>4, <2>1, <2>2
<1> QED BY <1>1, <1>2, <1>7, <1>8, <1>9, <1>10 DEF Pairs, Slots, Nodes, Ports, Flows, Used, UsedClasses

LEMMA SlotsFinite ==
    ASSUME noc \in DOMAIN Machines
    PROVE  IsFiniteSet(Slots)
<1>1. IsFiniteSet(Nodes) /\ Ports \in Nat
    BY Built DEF WellBuilt, Nodes, Ports
<1>2. IsFiniteSet(0..(Ports - 1))
    BY <1>1, FS_Interval
<1>3. IsFiniteSet((0..(Ports - 1)) \X UsedClasses)
    BY <1>2, Built, FS_Product
<1>4. PICK g : g = [y \in Nodes \X ((0..(Ports - 1)) \X UsedClasses) |-> <<y[1], y[2][1], y[2][2]>>]
    OBVIOUS
<1>5. g \in Surjection(Nodes \X ((0..(Ports - 1)) \X UsedClasses), Slots)
    <2>1. Slots = Nodes \X (0..(Ports - 1)) \X UsedClasses
        BY Built
    <2>2. g \in [Nodes \X ((0..(Ports - 1)) \X UsedClasses) -> Slots]
        BY <1>4, <2>1
    <2>3. ASSUME NEW x \in Slots
          PROVE  \E y \in Nodes \X ((0..(Ports - 1)) \X UsedClasses) : g[y] = x
        <3>1. x[1] \in Nodes /\ x[2] \in 0..(Ports - 1) /\ x[3] \in UsedClasses /\ x = <<x[1], x[2], x[3]>>
            BY <2>1
        <3>2. <<x[1], <<x[2], x[3]>>>> \in Nodes \X ((0..(Ports - 1)) \X UsedClasses)
            BY <3>1
        <3>3. g[<<x[1], <<x[2], x[3]>>>>] = x
            BY <1>4, <3>1, <3>2
        <3> QED BY <3>2, <3>3
    <2> QED BY <2>2, <2>3 DEF Surjection
<1>6. IsFiniteSet(Nodes \X ((0..(Ports - 1)) \X UsedClasses))
    BY <1>1, <1>3, FS_Product
<1> QED BY <1>5, <1>6, FS_Surjection

LEMMA SlotIs ==
    ASSUME noc \in DOMAIN Machines, NEW x \in Slots
    PROVE  x[1] \in Nodes /\ x[2] \in 0..(Ports - 1) /\ x[3] \in UsedClasses /\ x = <<x[1], x[2], x[3]>>
BY Built

LEMMA MessageIs ==
    ASSUME NEW m \in Messages
    PROVE  /\ \E f \in Flows : m.src = f.src /\ m.dst = f.dst /\ m.class = f.class
           /\ m.dummy \in BOOLEAN /\ m.id \in Nat
BY DEF Messages, Packet

\* Where a message enters the network, and through which port it leaves it.
LEMMA Wiring ==
    ASSUME noc \in DOMAIN Machines, NEW m \in Messages
    PROVE  /\ Start(m) \in Slots /\ NodeOf(m.dst) \in Nodes /\ <<m.src, m.dst>> \in Pairs
           /\ Exit(m) \in (0..(Ports - 1)) \ Links
           /\ Links \subseteq 0..(Ports - 1)
           /\ Shape = "crossbar" => Exit(m) = PortOf(m.dst)
<1>1. PICK f \in Flows : m.src = f.src /\ m.dst = f.dst /\ m.class = f.class
    BY MessageIs
<1> DEFINE at == Machines[noc].at  exit == Machines[noc].exit
           free == (0..(Ports - 1)) \ Links
<1>2. /\ at \in [DOMAIN at -> Nodes \X free] /\ exit \in [DOMAIN at -> free]
      /\ m.src \in DOMAIN at /\ m.dst \in DOMAIN at
      /\ Ports \in Nat
      /\ Shape = "crossbar" => \A e \in DOMAIN at : exit[e] = at[e][2]
      /\ Shape \in {"crossbar", "mesh", "ring"}
    BY <1>1, Built DEF WellBuilt, Flows, Nodes, Ports, Links, Shape
<1> HIDE DEF at, exit
<1>3. at[m.src] \in Nodes \X free /\ at[m.dst] \in Nodes \X free /\ exit[m.dst] \in free
    BY <1>2
<1>4. NodeOf(m.src) \in Nodes /\ PortOf(m.src) \in free /\ NodeOf(m.dst) \in Nodes /\ PortOf(m.dst) \in free
    BY <1>3 DEF NodeOf, PortOf, at
<1>5. m.class \in UsedClasses /\ <<m.src, m.dst>> \in Pairs
    BY <1>1, Built
<1>6. Start(m) \in Slots
    BY <1>4, <1>5, Built DEF Start
<1>7. Exit(m) \in free
    BY <1>3, <1>4 DEF Exit, exit
<1>8. Links \subseteq 0..(Ports - 1)
    <2>1. PICK p \in 0..(Ports - 1) : p \notin Links
        BY <1>4
    <2>2. CASE Shape = "crossbar"
        BY <2>2 DEF Links, LinksOf
    <2>3. CASE Shape = "mesh"
        <3>1. Links = 0..3
            BY <2>3 DEF Links, LinksOf
        <3> QED BY <1>2, <2>1, <3>1
    <2>4. CASE Shape = "ring"
        <3>1. Links = 0..1
            BY <2>4 DEF Links, LinksOf
        <3> QED BY <1>2, <2>1, <3>1
    <2> QED BY <1>2, <2>2, <2>3, <2>4
<1>9. Shape = "crossbar" => Exit(m) = PortOf(m.dst)
    BY <1>2 DEF Exit, exit, at, PortOf
<1> QED BY <1>4, <1>5, <1>6, <1>7, <1>8, <1>9

LEMMA MeshNodes ==
    ASSUME noc \in DOMAIN Machines, Shape = "mesh"
    PROVE  \E r, c \in Nat : Nodes = MeshNode(r, c)
<1>1. IsFiniteSet(Nodes) /\ \E r, c \in 1..Cardinality(Nodes) : Nodes = (0..(r - 1)) \X (0..(c - 1))
    BY Built DEF WellBuilt, Nodes, Shape
<1>2. Cardinality(Nodes) \in Nat
    BY <1>1, FS_CardinalityType
<1>3. 1..Cardinality(Nodes) \subseteq Nat
    BY <1>2
<1> QED BY <1>1, <1>3 DEF MeshNode

LEMMA RingNodes ==
    ASSUME noc \in DOMAIN Machines, Shape = "ring"
    PROVE  Cardinality(Nodes) \in Nat /\ Nodes = RingNode(Cardinality(Nodes))
<1>1. IsFiniteSet(Nodes) /\ Nodes = 0..(Cardinality(Nodes) - 1)
    BY Built DEF WellBuilt, Nodes, Shape
<1>2. Cardinality(Nodes) \in Nat
    BY <1>1, FS_CardinalityType
<1> QED BY <1>1, <1>2 DEF RingNode

\* A router sends a message to a neighbour that there is.
LEMMA Onwards ==
    ASSUME noc \in DOMAIN Machines, Shape \in {"mesh", "ring"}, NEW m \in Messages, NEW i \in Nodes,
           Out(i, m) \in Links
    PROVE  Neighbour(i, Out(i, m)) \in Nodes
<1> DEFINE d == NodeOf(m.dst)
<1>1. d \in Nodes /\ Exit(m) \notin Links
    BY Wiring
<1>2. d # i
    BY <1>1 DEF Out
<1>3. CASE Shape = "ring"
    <2>1. PICK n \in Nat : n = Cardinality(Nodes) /\ Nodes = RingNode(n)
        BY <1>3, RingNodes
    <2>2. n > 0
        <3>1. i \in RingNode(n)
            BY <2>1
        <3> QED BY <3>1 DEF RingNode
    <2>3. Neighbour(i, Out(i, m)) = RingNext(n, i, d)
        BY <1>2, <1>3, <2>1 DEF Neighbour, Out, RingNext
    <2> HIDE DEF d
    <2> QED BY <1>1, <1>2, <2>1, <2>2, <2>3, RingGetsNearer
<1>4. CASE Shape = "mesh"
    <2>1. PICK r \in Nat, c \in Nat : Nodes = MeshNode(r, c)
        BY <1>4, MeshNodes
    <2>2. Neighbour(i, Out(i, m)) = MeshNext(i, d)
        BY <1>2, <1>4 DEF Neighbour, Out, MeshNext
    <2> HIDE DEF d
    <2> QED BY <1>1, <1>2, <2>1, <2>2, MeshGetsNearer
<1> QED BY <1>3, <1>4

\* The neighbour at a port has this router at the opposite port.
LEMMA Back ==
    ASSUME noc \in DOMAIN Machines, Shape \in {"mesh", "ring"}, NEW i \in Nodes, NEW p \in Links,
           Neighbour(i, p) \in Nodes
    PROVE  /\ Opposite(p) \in Links /\ Opposite(Opposite(p)) = p
           /\ Neighbour(Neighbour(i, p), Opposite(p)) = i
<1>1. CASE Shape = "ring"
    <2>1. PICK n \in Nat : n = Cardinality(Nodes) /\ Nodes = RingNode(n)
        BY <1>1, RingNodes
    <2>2. n > 0 /\ i \in 0..n-1
        <3>1. i \in RingNode(n)
            BY <2>1
        <3> QED BY <3>1 DEF RingNode
    <2>3. p \in 0..1
        BY <1>1 DEF Links, LinksOf
    <2>4. Opposite(0) = 1 /\ Opposite(1) = 0
        BY DEF Opposite
    <2>5. \A j \in 0..n-1 : /\ RingNeighbour(n, j, 0) = IF j + 1 = n THEN 0 ELSE j + 1
                            /\ RingNeighbour(n, j, 1) = IF j = 0 THEN n - 1 ELSE j - 1
        BY <2>2, Onward DEF RingNeighbour, RingNode
    <2>6. \A j, k : Neighbour(j, k) = RingNeighbour(n, j, k)
        BY <1>1, <2>1 DEF Neighbour
    <2>7. CASE p = 0
        <3>1. RingNeighbour(n, i, 0) \in 0..n-1 /\ RingNeighbour(n, RingNeighbour(n, i, 0), 1) = i
            BY <2>2, <2>5
        <3> QED BY <1>1, <2>4, <2>6, <2>7, <3>1 DEF Links, LinksOf
    <2>8. CASE p = 1
        <3>1. RingNeighbour(n, i, 1) \in 0..n-1 /\ RingNeighbour(n, RingNeighbour(n, i, 1), 0) = i
            BY <2>2, <2>5
        <3> QED BY <1>1, <2>4, <2>6, <2>8, <3>1 DEF Links, LinksOf
    <2>9. p = 0 \/ p = 1
        BY <2>3
    <2> QED BY <2>7, <2>8, <2>9
<1>2. CASE Shape = "mesh"
    <2>1. PICK r \in Nat, c \in Nat : Nodes = MeshNode(r, c)
        BY <1>2, MeshNodes
    <2>2. i = <<i[1], i[2]>> /\ i[1] \in Int /\ i[2] \in Int
        BY <2>1 DEF MeshNode
    <2>3. Links = 0..3
        BY <1>2 DEF Links, LinksOf
    <2>4. Opposite(0) = 1 /\ Opposite(1) = 0 /\ Opposite(2) = 3 /\ Opposite(3) = 2
        BY DEF Opposite
    <2>5. \A j, k : Neighbour(j, k) = MeshNeighbour(j, k)
        BY <1>2 DEF Neighbour
    <2>6. \A a, b \in Int : /\ MeshNeighbour(<<a, b>>, 0) = <<a - 1, b>> /\ MeshNeighbour(<<a, b>>, 1) = <<a + 1, b>>
                            /\ MeshNeighbour(<<a, b>>, 2) = <<a, b + 1>> /\ MeshNeighbour(<<a, b>>, 3) = <<a, b - 1>>
        BY DEF MeshNeighbour
    <2>7. PICK a \in Int, b \in Int : i = <<a, b>>
        BY <2>2
    <2>8. CASE p = 0
        <3>1. Neighbour(i, p) = <<a - 1, b>> /\ Opposite(p) = 1 /\ Opposite(1) = 0 /\ 1 \in Links
            BY <2>3, <2>4, <2>5, <2>6, <2>7, <2>8
        <3>2. Neighbour(Neighbour(i, p), 1) = <<a, b>>
            BY <2>5, <2>6, <3>1
        <3> QED BY <2>7, <2>8, <3>1, <3>2
    <2>9. CASE p = 1
        <3>1. Neighbour(i, p) = <<a + 1, b>> /\ Opposite(p) = 0 /\ Opposite(0) = 1 /\ 0 \in Links
            BY <2>3, <2>4, <2>5, <2>6, <2>7, <2>9
        <3>2. Neighbour(Neighbour(i, p), 0) = <<a, b>>
            BY <2>5, <2>6, <3>1
        <3> QED BY <2>7, <2>9, <3>1, <3>2
    <2>10. CASE p = 2
        <3>1. Neighbour(i, p) = <<a, b + 1>> /\ Opposite(p) = 3 /\ Opposite(3) = 2 /\ 3 \in Links
            BY <2>3, <2>4, <2>5, <2>6, <2>7, <2>10
        <3>2. Neighbour(Neighbour(i, p), 3) = <<a, b>>
            BY <2>5, <2>6, <3>1
        <3> QED BY <2>7, <2>10, <3>1, <3>2
    <2>11. CASE p = 3
        <3>1. Neighbour(i, p) = <<a, b - 1>> /\ Opposite(p) = 2 /\ Opposite(2) = 3 /\ 2 \in Links
            BY <2>3, <2>4, <2>5, <2>6, <2>7, <2>11
        <3>2. Neighbour(Neighbour(i, p), 2) = <<a, b>>
            BY <2>5, <2>6, <3>1
        <3> QED BY <2>7, <2>11, <3>1, <3>2
    <2> QED BY <2>3, <2>8, <2>9, <2>10, <2>11
<1> QED BY <1>1, <1>2

-------------------------------------------------------------------------------------
(* What a router sends in a pass *)

Held     == queues \in [Slots -> Seq(Messages)]
Entries(i)  == {[at |-> z, to |-> Out(i, At(z))] : z \in {y \in Places : y[1][1] = i}}

\* The log D of router i: messages of a queue from its front on, in their order.
Log(i, D) ==
    /\ D \in Seq(Entries(i))
    /\ \A m, n \in DOMAIN D : m < n /\ D[m].at[1] = D[n].at[1] => D[m].at[2] < D[n].at[2]
    /\ \A n \in DOMAIN D : \A k \in 1..(D[n].at[2] - 1) :
         \E m \in DOMAIN D : m < n /\ D[m].at = <<D[n].at[1], k>>
    /\ \A x \in Slots : \A n \in OfClass(D, x) : D[n].at[2] <= Cardinality(OfClass(D, x))
    /\ \A x \in Slots : \A k \in 1..Cardinality(OfClass(D, x)) : \E n \in OfClass(D, x) : D[n].at[2] = k

LEMMA PlaceIs ==
    ASSUME noc \in DOMAIN Machines, Held
    PROVE  /\ \A x \in Slots : \A k : k \in DOMAIN queues[x] <=> k \in 1..Len(queues[x])
           /\ \A x \in Slots : Len(queues[x]) \in Nat
           /\ \A x \in Slots : \A k \in DOMAIN queues[x] : <<x, k>> \in Places /\ queues[x][k] \in Messages
           /\ \A z \in Places : /\ z[1] \in Slots /\ z[2] \in DOMAIN queues[z[1]] /\ z = <<z[1], z[2]>>
                                /\ z[2] \in Nat \ {0} /\ At(z) \in Messages
<1>1. ASSUME NEW x \in Slots
      PROVE  /\ Len(queues[x]) \in Nat /\ DOMAIN queues[x] = 1..Len(queues[x])
             /\ \A k \in DOMAIN queues[x] : queues[x][k] \in Messages
    <2>1. queues[x] \in Seq(Messages)
        BY DEF Held
    <2> QED BY <2>1, LenProperties, ElementOfSeq
<1>2. ASSUME NEW x \in Slots, NEW k \in DOMAIN queues[x] PROVE <<x, k>> \in Places
    BY DEF Places
<1>3. ASSUME NEW z \in Places
      PROVE  /\ z[1] \in Slots /\ z[2] \in DOMAIN queues[z[1]] /\ z = <<z[1], z[2]>>
             /\ z[2] \in Nat \ {0} /\ At(z) \in Messages
    <2>1. PICK x \in Slots : z \in {<<x, k>> : k \in DOMAIN queues[x]}
        BY DEF Places
    <2>2. PICK k \in DOMAIN queues[x] : z = <<x, k>>
        BY <2>1
    <2>3. k \in Nat \ {0}
        BY <1>1
    <2> QED BY <1>1, <2>2, <2>3 DEF At
<1> QED BY <1>1, <1>2, <1>3

LEMMA NothingSent ==
    ASSUME NEW i
    PROVE  Log(i, <<>>)
<1>1. <<>> \in Seq(Entries(i)) /\ DOMAIN <<>> = {}
    BY EmptySeq
<1>2. \A x : OfClass(<<>>, x) = {}
    BY <1>1 DEF OfClass
<1>3. Cardinality({}) = 0
    BY FS_EmptySet
<1>4. \A k : k \notin 1..0
    OBVIOUS
<1>5. \A x : \A k \in 1..Cardinality(OfClass(<<>>, x)) : FALSE
    BY <1>2, <1>3, <1>4
<1>6. \A x : \A n \in OfClass(<<>>, x) : FALSE
    BY <1>2
<1>7. \A n \in DOMAIN <<>> : FALSE
    BY <1>1
<1> QED BY <1>1, <1>5, <1>6, <1>7, Zenon DEF Log

LEMMA LogFinite ==
    ASSUME NEW i, NEW D, Log(i, D), NEW x
    PROVE  /\ DOMAIN D = 1..Len(D) /\ Len(D) \in Nat
           /\ IsFiniteSet(OfClass(D, x)) /\ Cardinality(OfClass(D, x)) \in Nat
           /\ \A n \in DOMAIN D : D[n] \in Entries(i)
<1>1. D \in Seq(Entries(i))
    BY DEF Log
<1>2. DOMAIN D = 1..Len(D) /\ Len(D) \in Nat /\ \A n \in DOMAIN D : D[n] \in Entries(i)
    BY <1>1, LenProperties, ElementOfSeq
<1>3. IsFiniteSet(DOMAIN D)
    BY <1>2, FS_Interval
<1>4. OfClass(D, x) \subseteq DOMAIN D
    BY DEF OfClass
<1>5. IsFiniteSet(OfClass(D, x))
    BY <1>3, <1>4, FS_Subset
<1> QED BY <1>2, <1>5, FS_CardinalityType

LEMMA SentIsPlace ==
    ASSUME noc \in DOMAIN Machines, Held, NEW i, NEW r \in Entries(i)
    PROVE  /\ r.at \in Places /\ r.at[1][1] = i /\ r.to = Out(i, At(r.at))
           /\ r.at = <<r.at[1], r.at[2]>> /\ r.at[2] \in Nat \ {0} /\ r.at[1] \in Slots
<1>1. PICK z \in Places : z[1][1] = i /\ r = [at |-> z, to |-> Out(i, At(z))]
    BY DEF Entries
<1>2. r.at = z /\ r.to = Out(i, At(z))
    BY <1>1
<1> QED BY <1>1, <1>2, PlaceIs

LEMMA VisitKeepsLog ==
    ASSUME noc \in DOMAIN Machines, Held, NEW i \in Nodes, NEW p \in 0..(Ports - 1), NEW c \in UsedClasses,
           NEW D, Log(i, D)
    PROVE  Log(i, Visit(i, D, p, c))
<1> DEFINE x == <<i, p, c>>
           k == 1 + Cardinality(OfClass(D, x))
           r == [at |-> <<x, k>>, to |-> Out(i, At(<<x, k>>))]
           E == Append(D, r)
<1> SUFFICES ASSUME k \in DOMAIN queues[x] PROVE Log(i, E)
    BY DEF Visit
<1>1. x \in Slots /\ x[1] = i
    BY Built
<1>2. <<x, k>> \in Places /\ k \in Nat \ {0}
    BY <1>1, PlaceIs
<1>3. r \in Entries(i) /\ r.at[1] = x /\ r.at[2] = k /\ r.at = <<x, k>>
    <2>1. <<x, k>>[1][1] = i
        BY <1>1
    <2> QED BY <1>2, <2>1 DEF Entries
<1>4. PICK l \in Nat : l = Len(D) /\ DOMAIN D = 1..l
    BY LogFinite
<1> HIDE DEF r
<1>5. /\ E \in Seq(Entries(i)) /\ DOMAIN E = 1..(l + 1) /\ E[l + 1] = r
      /\ \A n \in 1..l : E[n] = D[n]
    <2>1. D \in Seq(Entries(i))
        BY DEF Log
    <2>2. E \in Seq(Entries(i)) /\ Len(E) = l + 1 /\ E[l + 1] = r /\ \A n \in 1..l : E[n] = D[n]
        BY <1>3, <1>4, <2>1, AppendProperties
    <2>3. DOMAIN E = 1..Len(E)
        BY <2>2, LenProperties
    <2> QED BY <2>2, <2>3
<1> HIDE DEF E, k
<1>6. \A n \in 1..(l + 1) : (n \in 1..l /\ E[n] = D[n]) \/ (n = l + 1 /\ n \notin 1..l /\ E[n] = r)
    BY <1>5
<1>7. \A n \in 1..l : /\ D[n].at \in Places /\ D[n].at[2] \in Nat \ {0}
                      /\ D[n].at = <<D[n].at[1], D[n].at[2]>>
    BY <1>4, LogFinite, SentIsPlace
<1>8. \A n \in 1..l : D[n].at[1] = x => D[n].at[2] < k
    <2>1. ASSUME NEW n \in 1..l, D[n].at[1] = x PROVE D[n].at[2] < k
        <3>1. n \in OfClass(D, x)
            BY <1>4, <2>1 DEF OfClass
        <3>2. D[n].at[2] <= Cardinality(OfClass(D, x))
            BY <1>1, <3>1 DEF Log
        <3>3. Cardinality(OfClass(D, x)) \in Nat
            BY LogFinite
        <3> QED BY <1>7, <3>2, <3>3 DEF k
    <2> QED BY <2>1
<1>9. ASSUME NEW m \in DOMAIN E, NEW n \in DOMAIN E, m < n, E[m].at[1] = E[n].at[1]
      PROVE  E[m].at[2] < E[n].at[2]
    <2>1. m \in 1..l /\ E[m] = D[m]
        BY <1>4, <1>5, <1>6, <1>9
    <2>2. CASE n \in 1..l /\ E[n] = D[n]
        BY <1>4, <1>9, <2>1, <2>2 DEF Log
    <2>3. CASE E[n] = r
        BY <1>3, <1>8, <1>9, <2>1, <2>3
    <2> QED BY <1>5, <1>6, <2>2, <2>3
<1>10. ASSUME NEW n \in DOMAIN E, NEW j \in 1..(E[n].at[2] - 1)
       PROVE  \E m \in DOMAIN E : m < n /\ E[m].at = <<E[n].at[1], j>>
    <2>1. CASE n \in 1..l /\ E[n] = D[n]
        <3>1. PICK m \in DOMAIN D : m < n /\ D[m].at = <<D[n].at[1], j>>
            BY <1>4, <2>1 DEF Log
        <3>2. m \in DOMAIN E /\ E[m] = D[m]
            BY <1>4, <1>5, <3>1
        <3> QED BY <2>1, <3>1, <3>2
    <2>2. CASE n = l + 1 /\ E[n] = r
        <3>1. j \in 1..Cardinality(OfClass(D, x))
            BY <1>2, <1>3, <2>2, LogFinite DEF k
        <3>2. PICK m \in OfClass(D, x) : D[m].at[2] = j
            BY <1>1, <3>1 DEF Log
        <3>3. m \in 1..l /\ D[m].at[1] = x
            BY <1>4 DEF OfClass
        <3>4. D[m].at = <<x, j>>
            BY <1>7, <3>2, <3>3
        <3>5. m \in DOMAIN E /\ E[m] = D[m] /\ m < n
            BY <1>4, <1>5, <2>2, <3>3
        <3> QED BY <1>3, <2>2, <3>4, <3>5
    <2> QED BY <1>5, <1>6, <2>1, <2>2
<1>11. \A y : y # x => OfClass(E, y) = OfClass(D, y)
    <2> SUFFICES ASSUME NEW y, y # x PROVE OfClass(E, y) = OfClass(D, y)
        OBVIOUS
    <2>1. ASSUME NEW n PROVE n \in OfClass(E, y) <=> n \in OfClass(D, y)
        <3>1. CASE n \in 1..l
            BY <1>4, <1>5, <3>1 DEF OfClass
        <3>2. CASE n \notin 1..l
            <4>1. n \notin OfClass(D, y)
                BY <1>4, <3>2 DEF OfClass
            <4>2. ASSUME n \in OfClass(E, y) PROVE FALSE
                <5>1. n \in 1..(l + 1) /\ E[n].at[1] = y
                    BY <1>5, <4>2 DEF OfClass
                <5>2. E[n] = r
                    BY <1>6, <3>2, <5>1
                <5> QED BY <1>3, <5>1, <5>2
            <4> QED BY <4>1, <4>2
        <3> QED BY <3>1, <3>2
    <2> QED BY <2>1
<1>12. OfClass(E, x) = OfClass(D, x) \cup {l + 1} /\ l + 1 \notin OfClass(D, x)
    <2>1. l + 1 \notin OfClass(D, x)
        BY <1>4 DEF OfClass
    <2>2. ASSUME NEW n PROVE n \in OfClass(E, x) <=> n \in OfClass(D, x) \/ n = l + 1
        BY <1>3, <1>4, <1>5, <1>6 DEF OfClass
    <2> QED BY <2>1, <2>2
<1>13. Cardinality(OfClass(E, x)) = k
    <2>1. IsFiniteSet(OfClass(D, x)) /\ Cardinality(OfClass(D, x)) \in Nat
        BY LogFinite
    <2>2. Cardinality(OfClass(E, x)) = Cardinality(OfClass(D, x)) + 1
        BY <1>12, <2>1, FS_AddElement
    <2> QED BY <2>1, <2>2 DEF k
<1>14. ASSUME NEW y \in Slots, NEW n \in OfClass(E, y)
       PROVE  E[n].at[2] <= Cardinality(OfClass(E, y))
    <2>1. CASE y # x
        <3>1. n \in OfClass(D, y) /\ OfClass(E, y) = OfClass(D, y)
            BY <1>11, <2>1
        <3>2. n \in 1..l /\ E[n] = D[n]
            BY <1>4, <1>5, <3>1 DEF OfClass
        <3> QED BY <3>1, <3>2 DEF Log
    <2>2. CASE y = x
        <3>1. n \in DOMAIN E /\ E[n].at[1] = x
            BY <2>2 DEF OfClass
        <3>2. CASE n \in 1..l /\ E[n] = D[n]
            <4>1. D[n].at[2] < k /\ D[n].at[2] \in Nat
                BY <1>7, <1>8, <3>1, <3>2
            <4> QED BY <1>2, <1>13, <2>2, <3>2, <4>1
        <3>3. CASE E[n] = r
            BY <1>2, <1>3, <1>13, <2>2, <3>3
        <3> QED BY <1>5, <1>6, <3>1, <3>2, <3>3
    <2> QED BY <2>1, <2>2
<1>15. ASSUME NEW y \in Slots, NEW j \in 1..Cardinality(OfClass(E, y))
       PROVE  \E n \in OfClass(E, y) : E[n].at[2] = j
    <2>1. CASE y # x
        <3>1. OfClass(E, y) = OfClass(D, y)
            BY <1>11, <2>1
        <3>2. PICK n \in OfClass(D, y) : D[n].at[2] = j
            BY <3>1 DEF Log
        <3>3. n \in 1..l
            BY <1>4 DEF OfClass
        <3> QED BY <1>5, <3>1, <3>2, <3>3
    <2>2. CASE y = x
        <3>1. j \in 1..k
            BY <1>13, <2>2
        <3>2. CASE j = k
            BY <1>3, <1>5, <1>12, <2>2, <3>2
        <3>3. CASE j # k
            <4>1. j \in 1..Cardinality(OfClass(D, x))
                BY <3>1, <3>3, LogFinite DEF k
            <4>2. PICK n \in OfClass(D, x) : D[n].at[2] = j
                BY <1>1, <4>1 DEF Log
            <4>3. n \in 1..l
                BY <1>4 DEF OfClass
            <4> QED BY <1>5, <1>12, <2>2, <4>2, <4>3
        <3> QED BY <3>2, <3>3
    <2> QED BY <2>1, <2>2
<1> QED BY <1>5, <1>9, <1>10, <1>14, <1>15 DEF Log

LEMMA DivSmall ==
    ASSUME NEW a \in Nat, NEW b \in Nat \ {0}, NEW c \in Nat, a < c * b
    PROVE  a \div b \in 0..(c - 1) /\ a % b \in 0..(b - 1)
<1>1. a \div b \in Nat /\ a = b * (a \div b) + (a % b) /\ a % b \in 0..(b - 1)
    BY SMT
<1>2. PICK q \in Nat : q = a \div b
    BY <1>1
<1>3. ASSUME c <= q PROVE FALSE
    <2>1. c * b <= b * q
        BY <1>3, SMT
    <2>2. b * q <= a
        BY <1>1, <1>2, SMT
    <2>3. c * b \in Nat /\ b * q \in Nat
        BY SMT
    <2> QED BY <2>1, <2>2, <2>3
<1> QED BY <1>1, <1>2, <1>3

\* A pass serves ports that there are.
LEMMA RoundIs ==
    ASSUME noc \in DOMAIN Machines, token \in Nat
    PROVE  Ports \in Nat \ {0} /\ Paths \in Nat \ {0} /\ \A j \in 1..Ports : Round[j] \in 0..(Ports - 1)
<1>1. Ports \in Nat \ {0} /\ Paths \in Nat \ {0}
    BY Built DEF WellBuilt, Ports, Paths
<1>2. ASSUME NEW j \in 1..Ports PROVE Round[j] \in 0..(Ports - 1)
    <2>1. PICK n \in Nat \ {0} : n = Ports
        BY <1>1
    <2>2. \A a \in Nat : a % n \in 0..(n - 1)
        BY SMT
    <2>3. token + j - 1 \in Nat /\ token + n - j + 1 \in Nat
        BY <2>1
    <2>4. Round[j] = IF clockwise THEN (token + j - 1) % n ELSE (token + n - j + 1) % n
        BY <2>1 DEF Round
    <2> QED BY <2>1, <2>2, <2>3, <2>4
<1> QED BY <1>1, <1>2

LEMMA VisitsAre ==
    ASSUME noc \in DOMAIN Machines, token \in Nat
    PROVE  Visits \in Seq((0..(Ports - 1)) \X UsedClasses)
<1>1. PICK p \in Nat \ {0}, h \in Nat \ {0} : p = Ports /\ h = Paths /\ \A j \in 1..p : Round[j] \in 0..(p - 1)
    BY RoundIs
<1>2. PICK l \in Nat : l = Len(Used) /\ \A k \in 1..l : Used[k] \in UsedClasses
    BY Built DEF UsedClasses
<1>3. CASE Shape = "ring"
    <2>1. Visits = [k \in 1..(p * l * h) |->
                      <<Round[1 + (((k - 1) \div h) \div l)], Used[1 + (((k - 1) \div h) % l)]>>]
        BY <1>1, <1>2, <1>3 DEF Visits
    <2>a. PICK q \in Nat : q = p * l
        BY SMT
    <2>b. PICK r \in Nat : r = q * h
        BY SMT
    <2>c. p * l * h = r
        BY <2>a, <2>b
    <2>2. ASSUME NEW k \in 1..r
          PROVE  <<Round[1 + (((k - 1) \div h) \div l)], Used[1 + (((k - 1) \div h) % l)]>>
                   \in (0..(p - 1)) \X UsedClasses
        <3>1. k - 1 \in Nat /\ k - 1 < q * h
            BY <2>b
        <3>2. (k - 1) \div h \in 0..(q - 1)
            BY <3>1, DivSmall
        <3>3. l # 0
            BY <2>a, <3>2, SMT
        <3>4. (k - 1) \div h \in Nat /\ (k - 1) \div h < p * l
            BY <2>a, <3>2
        <3>5. ((k - 1) \div h) \div l \in 0..(p - 1) /\ ((k - 1) \div h) % l \in 0..(l - 1)
            BY <3>3, <3>4, DivSmall
        <3>6. 1 + (((k - 1) \div h) \div l) \in 1..p /\ 1 + (((k - 1) \div h) % l) \in 1..l
            BY <3>5
        <3> QED BY <1>1, <1>2, <3>6
    <2>3. Visits = [k \in 1..r |->
                      <<Round[1 + (((k - 1) \div h) \div l)], Used[1 + (((k - 1) \div h) % l)]>>]
        BY <2>1, <2>c
    <2> QED BY <1>1, <2>2, <2>3
<1>4. CASE Shape # "ring"
    <2>1. Visits = [k \in 1..(p * l) |-> <<Round[1 + ((k - 1) % p)], Used[1 + ((k - 1) \div p)]>>]
        BY <1>1, <1>2, <1>4 DEF Visits
    <2>a. PICK r \in Nat : r = p * l /\ r = l * p
        BY SMT
    <2>2. ASSUME NEW k \in 1..r
          PROVE  <<Round[1 + ((k - 1) % p)], Used[1 + ((k - 1) \div p)]>> \in (0..(p - 1)) \X UsedClasses
        <3>1. k - 1 \in Nat /\ k - 1 < l * p
            BY <2>a
        <3>2. (k - 1) \div p \in 0..(l - 1) /\ (k - 1) % p \in 0..(p - 1)
            BY <3>1, DivSmall
        <3>3. 1 + ((k - 1) \div p) \in 1..l /\ 1 + ((k - 1) % p) \in 1..p
            BY <3>2
        <3> QED BY <1>1, <1>2, <3>3
    <2>3. Visits = [k \in 1..r |-> <<Round[1 + ((k - 1) % p)], Used[1 + ((k - 1) \div p)]>>]
        BY <2>1, <2>a
    <2>4. DOMAIN Visits = 1..r /\ \A k \in 1..r : Visits[k] \in (0..(p - 1)) \X UsedClasses
        BY <2>2, <2>3, Zenon
    <2>5. Visits = [k \in 1..r |-> Visits[k]]
        BY <2>3, <2>4, Zenon
    <2>6. Visits \in [1..r -> (0..(p - 1)) \X UsedClasses]
        BY <2>4, <2>5, Zenon
    <2> QED BY <1>1, <2>6
<1> QED BY <1>3, <1>4

LEMMA Only ==
    ASSUME NEW S, NEW e, S = {e}
    PROVE  (CHOOSE x \in S : TRUE) = e
<1>1. \E x : x \in S
    OBVIOUS
<1>2. (CHOOSE x \in S : TRUE) \in S
    BY <1>1, Zenon
<1> QED BY <1>2

VisitsOf(i) == Picked(Visits, {k \in DOMAIN Visits : queues[<<i, Visits[k][1], Visits[k][2]>>] # <<>>})

RoutedTurns(f, i, v) ==
    f = [k \in 0..Len(v) |->
          IF k = 0 THEN <<>>
          ELSE CHOOSE sent \in {Visit(i, before, v[k][1], v[k][2]) : before \in {f[k - 1]}} : TRUE]

LEMMA RoutedIs ==
    ASSUME NEW i, \E f : RoutedTurns(f, i, VisitsOf(i))
    PROVE  \E f : Routed(i) = f[Len(VisitsOf(i))] /\ RoutedTurns(f, i, VisitsOf(i))
<1>1. Routed(i) = (CHOOSE f : RoutedTurns(f, i, VisitsOf(i)))[Len(VisitsOf(i))]
    BY DEF Routed, RoutedTurns, VisitsOf
<1>2. RoutedTurns(CHOOSE f : RoutedTurns(f, i, VisitsOf(i)), i, VisitsOf(i))
    BY Zenon
<1> QED BY <1>1, <1>2

LEMMA RoutedIsLog ==
    ASSUME noc \in DOMAIN Machines, token \in Nat, Held, NEW i \in Nodes
    PROVE  Log(i, Routed(i))
<1>1. PICK v : v = VisitsOf(i)
    OBVIOUS
<1>2. v \in Seq((0..(Ports - 1)) \X UsedClasses)
    BY <1>1, VisitsAre, PickedIs DEF VisitsOf
<1>3. PICK n : n = Len(v) /\ n \in Nat
    BY <1>2, LenProperties
<1>4. \A k \in 1..n : v[k][1] \in 0..(Ports - 1) /\ v[k][2] \in UsedClasses
    BY <1>2, <1>3, ElementOfSeq
<1> DEFINE Logs == {D \in Seq(Entries(i)) : Log(i, D)}
           G == [z \in (1..n) \X Logs |-> Visit(i, z[2], v[z[1]][1], v[z[1]][2])]
           P == (0..n) \X Logs
<1>5. \A D : Log(i, D) => D \in Logs
    BY DEF Log
<1>6. <<0, <<>>>> \in P
    <2>1. PICK e : e = <<>>
        OBVIOUS
    <2>2. e \in Logs
        BY <1>5, <2>1, NothingSent
    <2>3. 0 \in 0..n
        BY <1>3
    <2> HIDE DEF Logs
    <2> QED BY <2>1, <2>2, <2>3
<1>7. ASSUME NEW k \in 1..n, NEW D \in Logs
      PROVE  G[<<k, D>>] = Visit(i, D, v[k][1], v[k][2]) /\ G[<<k, D>>] \in Logs
    <2>1. Log(i, Visit(i, D, v[k][1], v[k][2]))
        BY <1>4, <1>7, VisitKeepsLog
    <2>2. G[<<k, D>>] = Visit(i, D, v[k][1], v[k][2])
        BY <1>7
    <2> QED BY <1>5, <2>1, <2>2
<1> HIDE DEF Logs, G
<1>8. PICK g : Steps(g, n, <<>>, G)
    BY <1>3, StepsExist
<1>9. \A k \in 1..n : \A x : <<k - 1, x>> \in P => <<k, G[<<k, x>>]>> \in P
    BY <1>3, <1>7
<1> HIDE DEF P
<1>10. \A k \in 0..n : <<k, g[k]>> \in P
    BY <1>3, <1>6, <1>8, <1>9, StepsKeep
<1>11. \A k \in 0..n : g[k] \in Logs
    BY <1>10 DEF P
<1>12. RoutedTurns(g, i, v)
    <2>1. ASSUME NEW k \in 0..n
          PROVE  g[k] = IF k = 0 THEN <<>>
                        ELSE CHOOSE sent \in {Visit(i, before, v[k][1], v[k][2]) : before \in {g[k - 1]}} : TRUE
        <3>1. g[k] = IF k = 0 THEN <<>> ELSE G[<<k, g[k - 1]>>]
            BY <1>8, <2>1 DEF Steps
        <3>2. CASE k # 0
            <4>1. k \in 1..n /\ k - 1 \in 0..n
                BY <1>3, <3>2
            <4>2. G[<<k, g[k - 1]>>] = Visit(i, g[k - 1], v[k][1], v[k][2])
                BY <1>7, <1>11, <4>1
            <4>3. {Visit(i, before, v[k][1], v[k][2]) : before \in {g[k - 1]}} = {g[k]}
                BY <3>1, <3>2, <4>2
            <4> QED BY <3>2, <4>3, Only
        <3> QED BY <3>1, <3>2
    <2>2. g = [k \in 0..n |-> g[k]]
        BY <1>8 DEF Steps
    <2>3. g = [k \in 0..n |-> IF k = 0 THEN <<>>
                              ELSE CHOOSE sent \in {Visit(i, before, v[k][1], v[k][2]) : before \in {g[k - 1]}} : TRUE]
        BY <2>1, <2>2, Zenon
    <2> QED BY <1>3, <2>3 DEF RoutedTurns
<1>13. PICK f : Routed(i) = f[n] /\ RoutedTurns(f, i, v)
    BY <1>1, <1>3, <1>12, RoutedIs
<1> DEFINE T == {k \in Nat : k \in 0..n => f[k] \in Logs}
<1>14. 0 \in T
    <2>1. 0 \in 0..n
        BY <1>3
    <2>2. f[0] = <<>>
        BY <1>3, <1>13, <2>1 DEF RoutedTurns
    <2> QED BY <1>6, <2>2 DEF P
<1>15. ASSUME NEW k \in Nat, k \in T PROVE k + 1 \in T
    <2> SUFFICES ASSUME k + 1 \in 0..n PROVE f[k + 1] \in Logs
        OBVIOUS
    <2>1. k \in 0..n /\ k + 1 \in 1..n /\ k + 1 # 0 /\ (k + 1) - 1 = k
        BY <1>3
    <2>2. f[k] \in Logs
        BY <1>15, <2>1
    <2>3. PICK S : S = {Visit(i, before, v[k + 1][1], v[k + 1][2]) : before \in {f[k]}}
        OBVIOUS
    <2>4. S = {Visit(i, f[k], v[k + 1][1], v[k + 1][2])}
        BY <2>3
    <2>5. f[k + 1] = CHOOSE sent \in S : TRUE
        BY <1>3, <1>13, <2>1, <2>3 DEF RoutedTurns
    <2>6. f[k + 1] = Visit(i, f[k], v[k + 1][1], v[k + 1][2])
        BY <2>4, <2>5, Only
    <2> QED BY <1>7, <2>1, <2>2, <2>6
<1> HIDE DEF T
<1>16. Nat \subseteq T
    BY <1>14, <1>15, Induction
<1>17. f[n] \in Logs
    BY <1>3, <1>16 DEF T
<1> QED BY <1>13, <1>17 DEF Logs

-------------------------------------------------------------------------------------
(* What the crossbar sends in a pass *)

LEMMA RankIs ==
    ASSUME noc \in DOMAIN Machines, NEW c \in UsedClasses
    PROVE  Rank(c) \in 1..7 /\ Classes[Rank(c)] = c
<1>1. \E k \in DOMAIN Classes : Classes[k] = c
    BY Built
<1>2. Rank(c) \in DOMAIN Classes /\ Classes[Rank(c)] = c
    BY <1>1, Zenon DEF Rank
<1>3. DOMAIN Classes = 1..7
    BY DEF Classes
<1> QED BY <1>2, <1>3

LEMMA PlacesFinite ==
    ASSUME noc \in DOMAIN Machines, Held
    PROVE  IsFiniteSet(Places)
<1> DEFINE Of(x) == {<<x, k>> : k \in DOMAIN queues[x]}
           U == {Of(x) : x \in Slots}
<1>1. \A T \in U : IsFiniteSet(T)
    <2> SUFFICES ASSUME NEW x \in Slots PROVE IsFiniteSet(Of(x))
        OBVIOUS
    <2>1. Len(queues[x]) \in Nat /\ \A k : k \in DOMAIN queues[x] <=> k \in 1..Len(queues[x])
        BY PlaceIs
    <2>2. DOMAIN queues[x] = 1..Len(queues[x])
        BY <2>1
    <2>3. IsFiniteSet(DOMAIN queues[x])
        BY <2>1, <2>2, FS_Interval
    <2>4. PICK g : g = [k \in DOMAIN queues[x] |-> <<x, k>>]
        OBVIOUS
    <2>5. g \in Surjection(DOMAIN queues[x], Of(x))
        BY <2>4 DEF Surjection
    <2> QED BY <2>3, <2>5, FS_Surjection
<1>2. PICK g : g = [x \in Slots |-> Of(x)]
    OBVIOUS
<1>3. g \in Surjection(Slots, U)
    BY <1>2 DEF Surjection
<1>4. IsFiniteSet(U)
    BY <1>3, SlotsFinite, FS_Surjection
<1>5. Places = UNION U
    BY DEF Places
<1> QED BY <1>1, <1>4, <1>5, FS_UNION

\* What a port serves before what it serves before z, it serves before z.
LEMMA BeforeIs ==
    ASSUME noc \in DOMAIN Machines, Held, NEW z \in Places, NEW y \in Before(z)
    PROVE  /\ y \in Waiting(z[1][2]) /\ z[1][2] = y[1][2]
           /\ Before(y) \subseteq Before(z) /\ y \notin Before(y)
<1>1. y \in Places /\ y[1][2] = z[1][2] /\ y \in Waiting(z[1][2])
    BY DEF Before, Waiting
<1>2. \A x \in Places : Rank(x[1][3]) \in Int /\ x[2] \in Int
    <2> SUFFICES ASSUME NEW x \in Places PROVE Rank(x[1][3]) \in Int /\ x[2] \in Int
        OBVIOUS
    <2>1. x[1] \in Slots /\ x[2] \in Int
        BY PlaceIs
    <2>2. x[1][3] \in UsedClasses
        BY <2>1, SlotIs
    <2> QED BY <2>1, <2>2, RankIs
<1>3. ASSUME NEW x \in Before(y) PROVE x \in Before(z)
    <2>1. x \in Places /\ x[1][2] = y[1][2] /\ x \in Waiting(z[1][2])
        BY <1>1 DEF Before, Waiting
    <2>2. Rank(x[1][3]) < Rank(y[1][3]) \/ (x[1] = y[1] /\ x[2] < y[2])
        BY DEF Before
    <2>3. Rank(y[1][3]) < Rank(z[1][3]) \/ (y[1] = z[1] /\ y[2] < z[2])
        BY DEF Before
    <2>4. Rank(x[1][3]) < Rank(z[1][3]) \/ (x[1] = z[1] /\ x[2] < z[2])
        BY <1>1, <1>2, <2>1, <2>2, <2>3
    <2> QED BY <2>1, <2>4 DEF Before
<1>4. y \notin Before(y)
    BY <1>1, <1>2 DEF Before
<1> QED BY <1>1, <1>3, <1>4

\* After k turns g is granted: nothing before what has the same exit, and of the first
\* messages of the port in turn, one with the exit of each.
Fair(k, g) ==
    /\ g \subseteq Places
    /\ \A z \in g : \A y \in Before(z) : Exit(At(y)) # Exit(At(z))
    /\ k % 2 = 1 => \A y \in Offered(Round[(k + 1) \div 2], 0) : \E z \in g : Exit(At(z)) = Exit(At(y))

GrantOne(k, g) == g \cup {z \in Offered(Round[(k + 1) \div 2], 1 - (k % 2)) : Free(z, g)}

LEMMA GrantOneFair ==
    ASSUME noc \in DOMAIN Machines, Held, NEW k \in Nat \ {0}, NEW g, Fair(k - 1, g)
    PROVE  Fair(k, GrantOne(k, g))
<1> DEFINE h == GrantOne(k, g)
           p == Round[(k + 1) \div 2]
<1>1. \A z \in h : z \in g \/ (z \in Offered(p, 1 - (k % 2)) /\ Free(z, g))
    BY DEF GrantOne
<1>2. \A q, n : \A z \in Offered(q, n) : z \in Places /\ z[1][2] = q /\ z \in Waiting(q)
                                          /\ Cardinality(Before(z)) = n
    BY DEF Offered, Waiting
<1>3. h \subseteq Places
    BY <1>1, <1>2 DEF Fair
<1>4. \A z \in Places : IsFiniteSet(Before(z))
    <2>1. \A z : Before(z) \subseteq Places
        BY DEF Before, Waiting
    <2> QED BY <2>1, PlacesFinite, FS_Subset
<1>5. k % 2 = 1 \/ (k % 2 = 0 /\ (k - 1) % 2 = 1 /\ ((k - 1) + 1) \div 2 = (k + 1) \div 2)
    BY SMT
<1>6. ASSUME NEW z \in h, NEW y \in Before(z) PROVE Exit(At(y)) # Exit(At(z))
    <2>1. CASE z \in g
        BY <2>1, <1>6 DEF Fair
    <2>2. CASE z \notin g
        <3>1. z \in Offered(p, 1 - (k % 2)) /\ Free(z, g)
            BY <1>1, <2>2
        <3>2. z \in Places /\ z[1][2] = p /\ IsFiniteSet(Before(z)) /\ Cardinality(Before(z)) = 1 - (k % 2)
            BY <1>2, <1>4, <3>1
        <3>3. k % 2 # 1
            <4>1. Cardinality(Before(z)) # 0
                BY <1>6, <3>2, FS_EmptySet
            <4> QED BY <3>2, <4>1
        <3>4. k % 2 = 0 /\ (k - 1) % 2 = 1 /\ p = Round[((k - 1) + 1) \div 2]
            BY <1>5, <3>3
        <3>5. PICK w : Before(z) = {w}
            <4>1. Cardinality(Before(z)) = 1
                BY <3>2, <3>4
            <4> QED BY <3>2, <4>1, FS_Singleton
        <3>6. Before(z) = {y}
            BY <1>6, <3>5
        <3>7. y \in Waiting(p) /\ Before(y) = {}
            BY <1>6, <3>2, <3>6, BeforeIs
        <3>8. y \in Offered(p, 0)
            BY <3>7, FS_EmptySet DEF Offered
        <3>9. PICK x \in g : Exit(At(x)) = Exit(At(y))
            BY <3>4, <3>8 DEF Fair
        <3> QED BY <3>1, <3>9 DEF Free
    <2> QED BY <2>1, <2>2
<1>7. ASSUME k % 2 = 1, NEW y \in Offered(p, 0) PROVE \E z \in h : Exit(At(z)) = Exit(At(y))
    <2>1. CASE Free(y, g)
        <3>1. 1 - (k % 2) = 0
            BY <1>7
        <3>2. y \in h
            BY <1>7, <2>1, <3>1 DEF GrantOne
        <3> QED BY <3>2
    <2>2. CASE ~Free(y, g)
        <3>1. PICK z \in g : Exit(At(z)) = Exit(At(y))
            BY <2>2 DEF Free
        <3> QED BY <3>1 DEF GrantOne
    <2> QED BY <2>1, <2>2
<1> HIDE DEF h
<1>8. Fair(k, h)
    BY <1>3, <1>6, <1>7 DEF Fair
<1> QED BY <1>8 DEF h

GrantedTurns(f, n) ==
    f = [k \in 0..n |->
          IF k = 0 THEN {}
          ELSE CHOOSE new \in {
                 g \cup {z \in Offered(Round[(k + 1) \div 2], 1 - (k % 2)) : Free(z, g)} : g \in {f[k - 1]}} : TRUE]

LEMMA GrantedTurnsAre ==
    ASSUME \E f : GrantedTurns(f, 2 * Ports)
    PROVE  \E f : Granted = f[2 * Ports] /\ GrantedTurns(f, 2 * Ports)
<1>1. Granted = (CHOOSE f : GrantedTurns(f, 2 * Ports))[2 * Ports]
    BY DEF Granted, GrantedTurns
<1>2. GrantedTurns(CHOOSE f : GrantedTurns(f, 2 * Ports), 2 * Ports)
    BY Zenon
<1> QED BY <1>1, <1>2

LEMMA GrantOneIs ==
    ASSUME NEW k, NEW h
    PROVE  (CHOOSE new \in {g \cup {z \in Offered(Round[(k + 1) \div 2], 1 - (k % 2)) : Free(z, g)} : g \in {h}}
              : TRUE) = GrantOne(k, h)
<1>1. PICK S : S = {g \cup {z \in Offered(Round[(k + 1) \div 2], 1 - (k % 2)) : Free(z, g)} : g \in {h}}
    OBVIOUS
<1>2. S = {GrantOne(k, h)}
    BY <1>1 DEF GrantOne
<1>3. (CHOOSE new \in S : TRUE) = GrantOne(k, h)
    BY <1>2, Only
<1> QED BY <1>1, <1>3

LEMMA GrantedIsFair ==
    ASSUME noc \in DOMAIN Machines, Held
    PROVE  Fair(2 * Ports, Granted)
<1>1. PICK n \in Nat : n = 2 * Ports
    BY Built DEF WellBuilt, Ports
<1> DEFINE X == SUBSET Places
           G == [z \in (1..n) \X X |-> GrantOne(z[1], z[2])]
           P == {z \in (0..n) \X X : Fair(z[1], z[2])}
<1>2. \A k \in 0..n : \A g : Fair(k, g) <=> <<k, g>> \in P
    <2> SUFFICES ASSUME NEW k \in 0..n, NEW g PROVE Fair(k, g) <=> <<k, g>> \in P
        OBVIOUS
    <2>1. Fair(k, g) => g \in X
        BY DEF Fair
    <2> QED BY <2>1
<1>3. Fair(0, {})
    <2>1. 0 % 2 # 1
        BY SMT
    <2> QED BY <2>1 DEF Fair
<1>4. ASSUME NEW k \in 1..n, NEW g, Fair(k - 1, g)
      PROVE  G[<<k, g>>] = GrantOne(k, g) /\ Fair(k, GrantOne(k, g))
    <2>1. k \in Nat \ {0}
        BY <1>1
    <2>2. g \in X
        BY <1>4 DEF Fair
    <2>3. G[<<k, g>>] = GrantOne(k, g)
        BY <2>2
    <2> QED BY <1>4, <2>1, <2>3, GrantOneFair
<1> HIDE DEF G, P
<1>5. PICK f : Steps(f, n, {}, G)
    BY <1>1, StepsExist
<1>6. \A k \in 1..n : \A x : <<k - 1, x>> \in P => <<k, G[<<k, x>>]>> \in P
    <2> SUFFICES ASSUME NEW k \in 1..n, NEW x, <<k - 1, x>> \in P PROVE <<k, G[<<k, x>>]>> \in P
        OBVIOUS
    <2>1. k \in 0..n /\ k - 1 \in 0..n
        BY <1>1
    <2>2. Fair(k - 1, x)
        BY <1>2, <2>1
    <2>3. G[<<k, x>>] = GrantOne(k, x) /\ Fair(k, GrantOne(k, x))
        BY <1>4, <2>2
    <2> QED BY <1>2, <2>1, <2>3
<1>7. <<0, {}>> \in P
    <2>1. 0 \in 0..n
        BY <1>1
    <2> QED BY <1>2, <1>3, <2>1
<1>8. \A k \in 0..n : <<k, f[k]>> \in P
    BY <1>1, <1>5, <1>6, <1>7, StepsKeep
<1>9. \A k \in 0..n : Fair(k, f[k])
    BY <1>2, <1>8
<1>10. GrantedTurns(f, n)
    <2>1. ASSUME NEW k \in 0..n
          PROVE  f[k] = IF k = 0 THEN {}
                        ELSE CHOOSE new \in {
                 g \cup {z \in Offered(Round[(k + 1) \div 2], 1 - (k % 2)) : Free(z, g)} : g \in {f[k - 1]}} : TRUE
        <3>1. f[k] = IF k = 0 THEN {} ELSE G[<<k, f[k - 1]>>]
            BY <1>5, <2>1 DEF Steps
        <3>2. CASE k # 0
            <4>1. k \in 1..n /\ k - 1 \in 0..n
                BY <1>1, <3>2
            <4>2. f[k] = GrantOne(k, f[k - 1])
                BY <1>4, <1>9, <3>1, <3>2, <4>1
            <4> QED BY <3>2, <4>2, GrantOneIs
        <3> QED BY <3>1, <3>2
    <2>2. f = [k \in 0..n |-> f[k]]
        BY <1>5 DEF Steps
    <2>3. f = [k \in 0..n |->
                IF k = 0 THEN {}
                ELSE CHOOSE new \in {
                 g \cup {z \in Offered(Round[(k + 1) \div 2], 1 - (k % 2)) : Free(z, g)} : g \in {f[k - 1]}} : TRUE]
        BY <2>1, <2>2, Zenon
    <2> QED BY <2>3 DEF GrantedTurns
<1>11. PICK h : Granted = h[n] /\ GrantedTurns(h, n)
    BY <1>1, <1>10, GrantedTurnsAre
<1> DEFINE T == {k \in Nat : k \in 0..n => Fair(k, h[k])}
<1>12. 0 \in T
    <2>1. 0 \in 0..n
        BY <1>1
    <2>2. h[0] = {}
        BY <1>11, <2>1 DEF GrantedTurns
    <2> QED BY <1>3, <2>2
<1>13. ASSUME NEW k \in Nat, k \in T PROVE k + 1 \in T
    <2> SUFFICES ASSUME k + 1 \in 0..n PROVE Fair(k + 1, h[k + 1])
        OBVIOUS
    <2>1. k \in 0..n /\ k + 1 \in 1..n /\ k + 1 # 0 /\ (k + 1) - 1 = k
        BY <1>1
    <2>2. Fair((k + 1) - 1, h[k])
        BY <1>13, <2>1
    <2>3. PICK j \in 1..n : j = k + 1 /\ j \in 0..n /\ j # 0
        BY <2>1
    <2>4. \A i \in 0..n : h[i] = IF i = 0 THEN {} ELSE GrantOne(i, h[i - 1])
        <3>1. \A i : (CHOOSE new \in {
                g \cup {z \in Offered(Round[(i + 1) \div 2], 1 - (i % 2)) : Free(z, g)} : g \in {h[i - 1]}} : TRUE)
                = GrantOne(i, h[i - 1])
            BY GrantOneIs
        <3> QED BY <1>11, <3>1, Zenon DEF GrantedTurns
    <2>5. h[j] = GrantOne(j, h[j - 1])
        BY <2>3, <2>4
    <2>6. Fair(j, GrantOne(j, h[j - 1]))
        BY <1>4, <2>1, <2>2, <2>3
    <2> QED BY <2>3, <2>5, <2>6
<1> HIDE DEF T
<1>14. Nat \subseteq T
    BY <1>12, <1>13, Induction
<1>15. Fair(n, h[n])
    BY <1>1, <1>14 DEF T
<1> QED BY <1>1, <1>11, <1>15

-------------------------------------------------------------------------------------
(* What a pass does to the queues *)

PlacesOf(q) == UNION {{<<x, k>> : k \in DOMAIN q[x]} : x \in Slots}

\* A pass turns the queues into q: g says where the message at a place was before.  What
\* has not gone is still there, at its place or one hop on, in the order it had.
Shifts(g, q, moved, gone) ==
    /\ g \in [PlacesOf(q) -> Places \ gone]
    /\ \A y, z \in PlacesOf(q) : g[y] = g[z] => y = z
    /\ \A z \in Places \ gone : \E y \in PlacesOf(q) : g[y] = z
    /\ \A z \in PlacesOf(q) : q[z[1]][z[2]] = At(g[z])
    /\ \A z \in PlacesOf(q) :
         \/ g[z] \notin moved /\ g[z][1] = z[1]
         \/ /\ g[z] \in moved /\ Shape # "crossbar" /\ Out(g[z][1][1], At(g[z])) \in Links
            /\ z[1] = HopFrom(g[z][1], At(g[z]))
    /\ \A y, z \in PlacesOf(q) :
         y[1] = z[1] /\ g[y] \notin moved /\ (g[z] \in moved \/ g[y][2] < g[z][2]) => y[2] < z[2]
    /\ \A y, z \in PlacesOf(q) :
         /\ y[1] = z[1] /\ g[y] \in moved /\ g[z] \in moved
         /\ g[y][1] = g[z][1] /\ g[y][2] < g[z][2]
         => y[2] < z[2]

LEMMA PlaceOf ==
    ASSUME NEW q \in [Slots -> Seq(Messages)]
    PROVE  /\ \A x \in Slots : DOMAIN q[x] = 1..Len(q[x]) /\ Len(q[x]) \in Nat
           /\ \A x \in Slots : \A k \in 1..Len(q[x]) : <<x, k>> \in PlacesOf(q)
           /\ \A z \in PlacesOf(q) : /\ z[1] \in Slots /\ z[2] \in 1..Len(q[z[1]]) /\ z = <<z[1], z[2]>>
                                     /\ z[2] \in Nat \ {0} /\ q[z[1]][z[2]] \in Messages
<1>1. ASSUME NEW x \in Slots
      PROVE  /\ DOMAIN q[x] = 1..Len(q[x]) /\ Len(q[x]) \in Nat
             /\ \A k \in 1..Len(q[x]) : q[x][k] \in Messages
    <2>1. q[x] \in Seq(Messages)
        OBVIOUS
    <2> QED BY <2>1, LenProperties, ElementOfSeq
<1>2. ASSUME NEW x \in Slots, NEW k \in 1..Len(q[x]) PROVE <<x, k>> \in PlacesOf(q)
    BY <1>1 DEF PlacesOf
<1>3. ASSUME NEW z \in PlacesOf(q)
      PROVE  /\ z[1] \in Slots /\ z[2] \in 1..Len(q[z[1]]) /\ z = <<z[1], z[2]>>
             /\ z[2] \in Nat \ {0} /\ q[z[1]][z[2]] \in Messages
    <2>1. PICK x \in Slots : z \in {<<x, k>> : k \in DOMAIN q[x]}
        BY DEF PlacesOf
    <2>2. PICK k \in DOMAIN q[x] : z = <<x, k>>
        BY <2>1
    <2>3. k \in 1..Len(q[x]) /\ k \in Nat \ {0}
        BY <1>1
    <2> QED BY <1>1, <2>2, <2>3
<1> QED BY <1>1, <1>2, <1>3

Kept(x, gone) == {k \in DOMAIN queues[x] : <<x, k>> \notin gone}

LEMMA RemainingIs ==
    ASSUME noc \in DOMAIN Machines, Held, NEW x \in Slots, NEW gone
    PROVE  /\ Remaining(x, gone) \in Seq(Messages)
           /\ \E e : Picks(Remaining(x, gone), e, queues[x], Kept(x, gone))
<1>1. queues[x] \in Seq(Messages)
    BY DEF Held
<1> QED BY <1>1, PickedIs DEF Remaining, Kept

\* What enters queue x, by d: it left the neighbour through the port opposite.
Linked(x) == x[2] \in Links /\ Neighbour(x[1], x[2]) \in Nodes
Enters(done, x, j, n) == done[j][n].to = Opposite(x[2]) /\ done[j][n].at[1][3] = x[3]
EntersBy(done, x, t, d) ==
    LET j == Neighbour(x[1], x[2]) IN
    /\ d \in [1..Len(t) -> DOMAIN done[j]]
    /\ \A k \in 1..Len(t) : t[k] = At(done[j][d[k]].at) /\ Enters(done, x, j, d[k])
    /\ \A k, l \in 1..Len(t) : k < l => d[k] < d[l]
    /\ \A n \in DOMAIN done[j] : Enters(done, x, j, n) => \E k \in 1..Len(t) : d[k] = n

LEMMA EnteringIs ==
    ASSUME noc \in DOMAIN Machines, Held, NEW done, \A i \in Nodes : Log(i, done[i]), NEW x \in Slots
    PROVE  /\ Entering(done, x) \in Seq(Messages)
           /\ Linked(x) => \E d : EntersBy(done, x, Entering(done, x), d)
           /\ ~Linked(x) => Len(Entering(done, x)) = 0
<1> DEFINE j == Neighbour(x[1], x[2])
           K == {n \in DOMAIN done[j] : done[j][n].to = Opposite(x[2]) /\ done[j][n].at[1][3] = x[3]}
           in == Picked(done[j], K)
<1>1. CASE ~Linked(x)
    <2>1. Entering(done, x) = <<>>
        BY <1>1 DEF Entering, Linked
    <2> QED BY <1>1, <2>1, EmptySeq
<1>2. CASE Linked(x)
    <2>1. j \in Nodes /\ Entering(done, x) = [n \in DOMAIN in |-> At(in[n].at)]
        BY <1>2 DEF Entering, Linked
    <2> HIDE DEF j
    <2>2. Log(j, done[j])
        BY <2>1
    <2>3. done[j] \in Seq(Entries(j)) /\ DOMAIN done[j] = 1..Len(done[j]) /\ Len(done[j]) \in Nat
        BY <2>2, LogFinite DEF Log
    <2>4. \A n \in DOMAIN done[j] : At(done[j][n].at) \in Messages
        <3> SUFFICES ASSUME NEW n \in DOMAIN done[j] PROVE At(done[j][n].at) \in Messages
            OBVIOUS
        <3>1. done[j][n] \in Entries(j)
            BY <2>2, LogFinite
        <3>2. done[j][n].at \in Places
            BY <3>1, SentIsPlace
        <3> QED BY <3>2, PlaceIs
    <2> HIDE DEF K
    <2>5. in \in Seq(Entries(j)) /\ \E d : Picks(in, d, done[j], K)
        BY <2>3, PickedIs
    <2> HIDE DEF in
    <2>6. PICK d : Picks(in, d, done[j], K)
        BY <2>5
    <2>7. PICK l \in Nat : l = Len(in) /\ DOMAIN in = 1..l
        BY <2>5, LenProperties
    <2>8. PICK t : t = Entering(done, x) /\ t = [n \in 1..l |-> At(in[n].at)]
        BY <2>1, <2>7
    <2>9. /\ d \in [1..l -> DOMAIN done[j]]
          /\ \A k \in 1..l : in[k] = done[j][d[k]] /\ d[k] \in K
          /\ \A k, m \in 1..l : k < m => d[k] < d[m]
          /\ \A n \in DOMAIN done[j] : n \in K => \E k \in 1..l : d[k] = n
        BY <2>3, <2>6, <2>7, Zenon DEF Picks, PicksTo
    <2>10. \A k \in 1..l : t[k] = At(done[j][d[k]].at) /\ t[k] \in Messages
        BY <2>4, <2>8, <2>9
    <2>11. t \in Seq(Messages) /\ Len(t) = l
        BY <2>8, <2>10
    <2>12. \A n \in DOMAIN done[j] : n \in K <=> Enters(done, x, j, n)
        BY DEF K, Enters
    <2>13. EntersBy(done, x, t, d)
        <3>1. \A k \in 1..Len(t) : Enters(done, x, j, d[k])
            BY <2>9, <2>11, <2>12
        <3> QED BY <2>9, <2>10, <2>11, <2>12, <3>1 DEF EntersBy, j
    <2> QED BY <1>2, <2>8, <2>11, <2>13
<1> QED BY <1>1, <1>2

\* The messages sent: the first ones of their queues, each once, through their ports.
LEMMA MovedIs ==
    ASSUME noc \in DOMAIN Machines, Held, NEW done, \A i \in Nodes : Log(i, done[i])
    PROVE  /\ \A i \in Nodes : \A n \in DOMAIN done[i] :
                 LET z == done[i][n].at IN
                 /\ z \in Moved(done) /\ z \in Places /\ z[1][1] = i /\ done[i][n].to = Out(i, At(z))
           /\ \A z \in Moved(done) : \E i \in Nodes : \E n \in DOMAIN done[i] : done[i][n].at = z
           /\ \A z : z \in Leaving(done) <=> z \in Moved(done) /\ Out(z[1][1], At(z)) \notin Links
           /\ \A z \in Moved(done) : \A y \in Places : y[1] = z[1] /\ y[2] < z[2] => y \in Moved(done)
           /\ \A i \in Nodes : \A m, n \in DOMAIN done[i] : done[i][m].at = done[i][n].at => m = n
<1>1. ASSUME NEW i \in Nodes, NEW n \in DOMAIN done[i]
      PROVE  /\ done[i][n].at \in Moved(done) /\ done[i][n].at \in Places /\ done[i][n].at[1][1] = i
             /\ done[i][n].to = Out(i, At(done[i][n].at))
             /\ done[i][n].at[2] \in Nat
             /\ done[i][n].at = <<done[i][n].at[1], done[i][n].at[2]>>
    <2>1. Log(i, done[i])
        OBVIOUS
    <2>2. done[i][n] \in Entries(i)
        BY <2>1, LogFinite
    <2>3. done[i][n].at \in Moved(done)
        BY DEF Moved
    <2> QED BY <2>2, <2>3, SentIsPlace
<1>2. ASSUME NEW z \in Moved(done) PROVE \E i \in Nodes : \E n \in DOMAIN done[i] : done[i][n].at = z
    <2>1. PICK i \in Nodes : z \in {done[i][n].at : n \in DOMAIN done[i]}
        BY DEF Moved
    <2> QED BY <2>1
<1>3. ASSUME NEW z, z \in Leaving(done) PROVE z \in Moved(done) /\ Out(z[1][1], At(z)) \notin Links
    <2>1. PICK i \in Nodes : z \in {done[i][n].at : n \in {k \in DOMAIN done[i] : done[i][k].to \notin Links}}
        BY <1>3 DEF Leaving
    <2>2. PICK n \in DOMAIN done[i] : z = done[i][n].at /\ done[i][n].to \notin Links
        BY <2>1
    <2> QED BY <1>1, <2>2
<1>4. ASSUME NEW z \in Moved(done), Out(z[1][1], At(z)) \notin Links PROVE z \in Leaving(done)
    <2>1. PICK i \in Nodes : \E n \in DOMAIN done[i] : done[i][n].at = z
        BY <1>2
    <2>0. PICK n \in DOMAIN done[i] : done[i][n].at = z
        BY <2>1
    <2>2. done[i][n].to \notin Links
        BY <1>1, <1>4, <2>0
    <2>3. z \in {done[i][m].at : m \in {k \in DOMAIN done[i] : done[i][k].to \notin Links}}
        BY <2>0, <2>2
    <2> QED BY <2>3 DEF Leaving
<1>5. ASSUME NEW z \in Moved(done), NEW y \in Places, y[1] = z[1], y[2] < z[2] PROVE y \in Moved(done)
    <2>1. PICK i \in Nodes : \E n \in DOMAIN done[i] : done[i][n].at = z
        BY <1>2
    <2>0. PICK n \in DOMAIN done[i] : done[i][n].at = z
        BY <2>1
    <2>2. Log(i, done[i])
        OBVIOUS
    <2>3. y = <<y[1], y[2]>> /\ y[2] \in Nat \ {0} /\ z[2] \in Nat
        BY <1>1, <2>0, PlaceIs
    <2>4. y[2] \in 1..(z[2] - 1)
        BY <1>5, <2>3
    <2>5. PICK m \in DOMAIN done[i] : done[i][m].at = <<z[1], y[2]>>
        BY <2>0, <2>2, <2>4 DEF Log
    <2>6. done[i][m].at = y
        BY <1>5, <2>3, <2>5
    <2> QED BY <1>1, <2>6
<1>6. ASSUME NEW i \in Nodes, NEW m \in DOMAIN done[i], NEW n \in DOMAIN done[i],
             done[i][m].at = done[i][n].at
      PROVE  m = n
    <2>1. Log(i, done[i])
        OBVIOUS
    <2>2. m \in Nat /\ n \in Nat
        BY <2>1, LogFinite
    <2>3. \A k, l \in DOMAIN done[i] :
            k < l /\ done[i][k].at[1] = done[i][l].at[1] => done[i][k].at[2] < done[i][l].at[2]
        BY <2>1 DEF Log
    <2>4. done[i][m].at[2] \in Nat
        BY <1>1
    <2>5. ~(m < n) /\ ~(n < m)
        BY <1>6, <2>3, <2>4
    <2> QED BY <2>2, <2>5
<1> QED BY <1>1, <1>2, <1>3, <1>4, <1>5, <1>6

\* What stays in queue x, by e.
Stays(x, moved, e) ==
    LET t == Remaining(x, moved) IN
    /\ e \in [1..Len(t) -> 1..Len(queues[x])]
    /\ \A k \in 1..Len(t) : t[k] = queues[x][e[k]] /\ <<x, e[k]>> \notin moved /\ <<x, e[k]>> \in Places
    /\ \A k, l \in 1..Len(t) : k < l => e[k] < e[l]
    /\ \A k \in DOMAIN queues[x] : <<x, k>> \notin moved => \E l \in 1..Len(t) : e[l] = k

LEMMA StaysIs ==
    ASSUME noc \in DOMAIN Machines, Held, NEW moved
    PROVE  \E es : \A x \in Slots : Stays(x, moved, es[x])
<1>1. ASSUME NEW x \in Slots PROVE \E e : Stays(x, moved, e)
    <2>1. PICK e : Picks(Remaining(x, moved), e, queues[x], Kept(x, moved))
        BY RemainingIs
    <2>2. PICK t : t = Remaining(x, moved)
        OBVIOUS
    <2>3. PICK l : l = Len(queues[x]) /\ \A k : k \in DOMAIN queues[x] <=> k \in 1..l
        BY PlaceIs
    <2>4. \A k : k \in Kept(x, moved) <=> k \in 1..l /\ <<x, k>> \notin moved
        BY <2>3 DEF Kept
    <2>5. /\ e \in [1..Len(t) -> 1..l]
          /\ \A j \in 1..Len(t) : t[j] = queues[x][e[j]] /\ e[j] \in Kept(x, moved)
          /\ \A j, m \in 1..Len(t) : j < m => e[j] < e[m]
          /\ \A k \in 1..l : k \in Kept(x, moved) => \E j \in 1..Len(t) : e[j] = k
        BY <2>1, <2>2, <2>3 DEF Picks, PicksTo
    <2>6. \A j \in 1..Len(t) : <<x, e[j]>> \notin moved /\ <<x, e[j]>> \in Places
        BY <2>3, <2>4, <2>5, PlaceIs
    <2>7. \A k \in DOMAIN queues[x] : <<x, k>> \notin moved => \E m \in 1..Len(t) : e[m] = k
        BY <2>3, <2>4, <2>5
    <2> QED BY <2>2, <2>3, <2>5, <2>6, <2>7 DEF Stays
<1>2. PICK es : es = [x \in Slots |-> CHOOSE e : Stays(x, moved, e)]
    OBVIOUS
<1>3. ASSUME NEW x \in Slots PROVE Stays(x, moved, es[x])
    <2>1. es[x] = CHOOSE e : Stays(x, moved, e)
        BY <1>2
    <2>2. Stays(x, moved, CHOOSE e : Stays(x, moved, e))
        BY <1>1, Zenon
    <2> QED BY <2>1, <2>2
<1> QED BY <1>3

LEMMA RoutersShift ==
    ASSUME noc \in DOMAIN Machines, token \in Nat, Held, Shape \in {"mesh", "ring"},
           NEW done, done = [i \in Nodes |-> Routed(i)],
           NEW q, q = [x \in Slots |-> Joined(Remaining(x, Moved(done)), Entering(done, x))]
    PROVE  /\ q \in [Slots -> Seq(Messages)]
           /\ \E g : Shifts(g, q, Moved(done), Leaving(done))
<1>1. \A i \in Nodes : Log(i, done[i])
    BY RoutedIsLog
<1>2. PICK moved, gone : moved = Moved(done) /\ gone = Leaving(done)
    OBVIOUS
<1>3. PICK rest : rest = [x \in Slots |-> Remaining(x, moved)]
    OBVIOUS
<1>4. PICK come : come = [x \in Slots |-> Entering(done, x)]
    OBVIOUS
<1>5. PICK es : \A x \in Slots : Stays(x, moved, es[x])
    BY StaysIs
<1>6. PICK ds : ds = [x \in Slots |-> CHOOSE d : EntersBy(done, x, Entering(done, x), d)]
    OBVIOUS
<1>7. ASSUME NEW x \in Slots
      PROVE  /\ rest[x] \in Seq(Messages) /\ come[x] \in Seq(Messages)
             /\ Len(rest[x]) \in Nat /\ Len(come[x]) \in Nat
             /\ Linked(x) => EntersBy(done, x, come[x], ds[x])
             /\ ~Linked(x) => Len(come[x]) = 0
    <2>1. rest[x] \in Seq(Messages)
        BY <1>3, RemainingIs
    <2>2. come[x] = Entering(done, x)
        BY <1>4
    <2>3. come[x] \in Seq(Messages) /\ (~Linked(x) => Len(come[x]) = 0)
        BY <1>1, <2>2, EnteringIs
    <2>4. ASSUME Linked(x) PROVE EntersBy(done, x, come[x], ds[x])
        <3>1. \E d : EntersBy(done, x, Entering(done, x), d)
            BY <1>1, <2>4, EnteringIs
        <3>2. EntersBy(done, x, Entering(done, x), CHOOSE d : EntersBy(done, x, Entering(done, x), d))
            BY <3>1, Zenon
        <3>3. ds[x] = CHOOSE d : EntersBy(done, x, Entering(done, x), d)
            BY <1>6
        <3> QED BY <2>2, <3>2, <3>3
    <2> QED BY <2>1, <2>3, <2>4, LenProperties
<1>8. ASSUME NEW x \in Slots
      PROVE  /\ q[x] \in Seq(Messages) /\ Len(q[x]) = Len(rest[x]) + Len(come[x])
             /\ \A k \in 1..Len(q[x]) :
                  q[x][k] = IF k <= Len(rest[x]) THEN rest[x][k] ELSE come[x][k - Len(rest[x])]
    <2>1. q[x] = rest[x] \o come[x]
        BY <1>2, <1>3, <1>4 DEF Joined
    <2>2. PICK r \in Seq(Messages), c \in Seq(Messages), m \in Nat, n \in Nat :
            r = rest[x] /\ c = come[x] /\ m = Len(r) /\ n = Len(c)
        BY <1>7
    <2>3. /\ r \o c \in Seq(Messages) /\ Len(r \o c) = m + n
          /\ \A k \in 1..(m + n) : (r \o c)[k] = IF k <= m THEN r[k] ELSE c[k - m]
        BY <2>2, ConcatProperties
    <2> QED BY <2>1, <2>2, <2>3
<1>9. q \in [Slots -> Seq(Messages)]
    BY <1>8
<1> DEFINE Stay(z) == z[2] <= Len(rest[z[1]])
           From1(z) == <<z[1], es[z[1]][z[2]]>>
           Which(z) == ds[z[1]][z[2] - Len(rest[z[1]])]
           Node(z)  == Neighbour(z[1][1], z[1][2])
           From2(z) == done[Node(z)][Which(z)].at
           g == [z \in PlacesOf(q) |-> IF Stay(z) THEN From1(z) ELSE From2(z)]
\* What stays.
<1>10. ASSUME NEW z \in PlacesOf(q), Stay(z)
       PROVE  /\ g[z] = <<z[1], es[z[1]][z[2]]>> /\ g[z] \in Places /\ g[z] \notin moved
              /\ q[z[1]][z[2]] = At(g[z]) /\ z[2] \in 1..Len(rest[z[1]]) /\ es[z[1]][z[2]] \in Nat
    <2>1. z[1] \in Slots /\ z[2] \in 1..Len(q[z[1]]) /\ z[2] \in Nat \ {0}
        BY <1>9, PlaceOf
    <2>2. PICK x \in Slots, k \in Nat : x = z[1] /\ k = z[2] /\ Stays(x, moved, es[x])
        BY <1>5, <2>1
    <2>3. k \in 1..Len(Remaining(x, moved)) /\ rest[x] = Remaining(x, moved) /\ k <= Len(rest[x])
        BY <1>3, <1>7, <1>10, <2>1, <2>2
    <2>4. /\ rest[x][k] = queues[x][es[x][k]] /\ es[x][k] \in 1..Len(queues[x])
          /\ <<x, es[x][k]>> \notin moved /\ <<x, es[x][k]>> \in Places
        BY <2>2, <2>3 DEF Stays
    <2>5. q[x][k] = rest[x][k]
        BY <1>8, <2>1, <2>2, <2>3
    <2>6. g[z] = <<x, es[x][k]>>
        BY <1>10, <2>2
    <2>7. At(<<x, es[x][k]>>) = queues[x][es[x][k]]
        BY DEF At
    <2> HIDE DEF g
    <2>8. es[x][k] \in Nat
        BY <2>4, PlaceIs
    <2> QED BY <2>2, <2>3, <2>4, <2>5, <2>6, <2>7, <2>8
\* What enters.
<1>11. ASSUME NEW z \in PlacesOf(q), ~Stay(z)
       PROVE  /\ Linked(z[1]) /\ Node(z) \in Nodes /\ Which(z) \in DOMAIN done[Node(z)]
              /\ g[z] = done[Node(z)][Which(z)].at /\ Enters(done, z[1], Node(z), Which(z))
              /\ q[z[1]][z[2]] = At(g[z])
              /\ z[2] - Len(rest[z[1]]) \in 1..Len(come[z[1]])
    <2>1. z[1] \in Slots /\ z[2] \in 1..Len(q[z[1]]) /\ z[2] \in Nat \ {0}
        BY <1>9, PlaceOf
    <2>0. PICK x \in Slots, m \in Nat, n \in Nat : x = z[1] /\ m = Len(rest[x]) /\ n = Len(come[x])
        BY <1>7, <2>1
    <2>a. z[2] \in 1..(m + n) /\ ~(z[2] <= m)
        BY <1>8, <1>11, <2>0, <2>1
    <2>b. PICK w \in Nat : w = z[2] /\ w \in 1..(m + n) /\ ~(w <= m)
        BY <2>1, <2>a
    <2>c. w - m \in Nat /\ w - m \in 1..n
        BY <2>b
    <2>2. PICK k \in Nat : x = z[1] /\ k = z[2] - Len(rest[x]) /\ k \in 1..Len(come[x])
        BY <2>0, <2>b, <2>c
    <2>3. Linked(x)
        BY <1>7, <2>2
    <2>4. EntersBy(done, x, come[x], ds[x])
        BY <1>7, <2>3
    <2>5. PICK j : j = Neighbour(x[1], x[2]) /\ j \in Nodes
        BY <2>3 DEF Linked
    <2>6. /\ ds[x][k] \in DOMAIN done[j] /\ come[x][k] = At(done[j][ds[x][k]].at)
          /\ Enters(done, x, j, ds[x][k])
        BY <2>2, <2>4, <2>5 DEF EntersBy
    <2>7. q[z[1]][z[2]] = come[x][k]
        BY <1>8, <1>11, <2>1, <2>2
    <2>8. g[z] = done[j][ds[x][k]].at
        BY <1>11, <2>2, <2>5
    <2>9. Node(z) = j /\ Which(z) = ds[x][k]
        BY <2>2, <2>5
    <2> HIDE DEF g
    <2> QED BY <2>2, <2>3, <2>5, <2>6, <2>7, <2>8, <2>9
<1> HIDE DEF g
\* It comes from where its port leads to, and goes on from there.
<1>12. ASSUME NEW z \in PlacesOf(q), ~Stay(z)
       PROVE  /\ g[z] \in Places /\ g[z] \in moved /\ g[z] \notin gone
              /\ g[z][1][1] = Node(z) /\ z[1] \in Slots
              /\ Out(g[z][1][1], At(g[z])) = Opposite(z[1][2]) /\ Opposite(z[1][2]) \in Links
              /\ z[1] = HopFrom(g[z][1], At(g[z]))
    <2>1. PICK x : x = z[1] /\ x \in Slots
        BY <1>9, PlaceOf
    <2>2. x[2] \in Links /\ x[1] \in Nodes /\ Node(z) = Neighbour(x[1], x[2]) /\ Node(z) \in Nodes
        BY <1>11, <1>12, <2>1, SlotIs DEF Linked
    <2>3. /\ Opposite(x[2]) \in Links /\ Opposite(Opposite(x[2])) = x[2]
          /\ Neighbour(Node(z), Opposite(x[2])) = x[1]
        BY <2>2, Back
    <2>4. PICK n \in DOMAIN done[Node(z)] :
              g[z] = done[Node(z)][n].at /\ Enters(done, x, Node(z), n)
        BY <1>11, <1>12, <2>1
    <2>5. /\ g[z] \in moved /\ g[z] \in Places /\ g[z][1][1] = Node(z)
          /\ done[Node(z)][n].to = Out(Node(z), At(g[z]))
        BY <1>1, <1>2, <2>2, <2>4, MovedIs
    <2>6. Out(g[z][1][1], At(g[z])) = Opposite(x[2]) /\ g[z][1][3] = x[3]
        BY <2>4, <2>5 DEF Enters
    <2>7. g[z] \notin gone
        BY <1>1, <1>2, <2>3, <2>6, MovedIs
    <2>8. HopFrom(g[z][1], At(g[z])) = <<x[1], x[2], x[3]>>
        BY <2>3, <2>5, <2>6 DEF HopFrom
    <2>9. x = <<x[1], x[2], x[3]>>
        BY <2>1, SlotIs
    <2> QED BY <2>1, <2>3, <2>5, <2>6, <2>7, <2>8, <2>9
<1>13. gone \subseteq moved /\ moved \subseteq Places
    <2>1. moved \subseteq Places
        BY <1>1, <1>2, MovedIs
    <2> QED BY <1>1, <1>2, <2>1, MovedIs
<1>14. g \in [PlacesOf(q) -> Places \ gone]
    <2>1. \A z \in PlacesOf(q) : g[z] \in Places \ gone
        BY <1>10, <1>12, <1>13
    <2>2. g = [z \in PlacesOf(q) |-> g[z]]
        BY DEF g
    <2> QED BY <2>1, <2>2
<1>15. ASSUME NEW y \in PlacesOf(q), NEW z \in PlacesOf(q), Stay(y), Stay(z), y[1] = z[1]
       PROVE  /\ y[2] < z[2] => g[y][2] < g[z][2]
              /\ g[y] = g[z] => y = z
              /\ g[y][2] < g[z][2] => y[2] < z[2]
    <2>1. PICK x \in Slots : x = y[1] /\ x = z[1]
        BY <1>9, <1>15, PlaceOf
    <2>0. y[2] \in Nat /\ z[2] \in Nat /\ y = <<x, y[2]>> /\ z = <<x, z[2]>>
        BY <1>9, <2>1, PlaceOf
    <2>2. PICK k \in Nat, l \in Nat : k = y[2] /\ l = z[2] /\ y = <<x, k>> /\ z = <<x, l>>
        BY <2>0
    <2>3. k \in 1..Len(Remaining(x, moved)) /\ l \in 1..Len(Remaining(x, moved))
        BY <1>3, <1>10, <1>15, <2>1, <2>2
    <2>4. g[y][2] = es[x][k] /\ g[z][2] = es[x][l] /\ es[x][k] \in Nat /\ es[x][l] \in Nat
        BY <1>10, <1>15, <2>1, <2>2
    <2>5. /\ k < l => es[x][k] < es[x][l]
          /\ l < k => es[x][l] < es[x][k]
        BY <1>5, <2>3 DEF Stays
    <2> QED BY <2>2, <2>4, <2>5
<1>16. ASSUME NEW y \in PlacesOf(q), NEW z \in PlacesOf(q), ~Stay(y), ~Stay(z), y[1] = z[1]
       PROVE  /\ g[y] = g[z] => y = z
              /\ g[y][1] = g[z][1] /\ g[y][2] < g[z][2] => y[2] < z[2]
    <2>1. PICK x \in Slots : x = y[1] /\ x = z[1]
        BY <1>9, <1>16, PlaceOf
    <2>2. /\ y[2] \in Nat /\ z[2] \in Nat /\ y = <<x, y[2]>> /\ z = <<x, z[2]>>
        BY <1>9, <2>1, PlaceOf
    <2>3. PICK k \in 1..Len(come[x]), l \in 1..Len(come[x]) :
            k = y[2] - Len(rest[x]) /\ l = z[2] - Len(rest[x])
        BY <1>11, <1>16, <2>1
    <2>4. PICK j \in Nodes : j = Node(y) /\ j = Node(z) /\ j = Neighbour(x[1], x[2])
        BY <1>11, <1>16, <2>1
    <2>5. PICK m \in DOMAIN done[j], n \in DOMAIN done[j] :
            m = ds[x][k] /\ n = ds[x][l] /\ g[y] = done[j][m].at /\ g[z] = done[j][n].at
        BY <1>11, <1>16, <2>1, <2>3, <2>4
    <2>6. EntersBy(done, x, come[x], ds[x])
        BY <1>7, <1>11, <1>16, <2>1
    <2>7. (k < l => m < n) /\ (l < k => n < m)
        BY <2>4, <2>5, <2>6 DEF EntersBy
    <2>8. Log(j, done[j]) /\ m \in Nat /\ n \in Nat
        BY <1>1, LogFinite
    <2>9. /\ g[y][1] = g[z][1] /\ n < m => g[z][2] < g[y][2]
          /\ g[y] = g[z] => m = n
        <3>1. g[y] = g[z] => m = n
            BY <1>1, <2>5, MovedIs
        <3> QED BY <2>5, <2>8, <3>1 DEF Log
    <2>10. g[y][2] \in Nat /\ g[z][2] \in Nat
        BY <1>12, <1>16, PlaceIs
    <2>11. y[2] < z[2] <=> k < l
        BY <1>7, <2>2, <2>3
    <2>12. k = l => y = z
        BY <1>7, <2>2, <2>3
    <2>13. k < l \/ k = l \/ l < k
        OBVIOUS
    <2>14. CASE k < l
        BY <2>7, <2>8, <2>9, <2>11, <2>14
    <2>15. CASE k = l
        BY <2>10, <2>12, <2>15
    <2>16. CASE l < k
        BY <2>7, <2>8, <2>9, <2>10, <2>16
    <2> QED BY <2>13, <2>14, <2>15, <2>16
<1>17. ASSUME NEW y \in PlacesOf(q), NEW z \in PlacesOf(q), g[y] = g[z] PROVE y = z
    <2>1. CASE Stay(y) /\ Stay(z)
        <3>1. y[1] = z[1]
            BY <1>10, <1>17, <2>1
        <3> QED BY <1>15, <1>17, <2>1, <3>1
    <2>2. CASE ~Stay(y) /\ ~Stay(z)
        <3>1. y[1] = z[1]
            BY <1>12, <1>17, <2>2
        <3> QED BY <1>16, <1>17, <2>2, <3>1
    <2>3. ~(Stay(y) /\ ~Stay(z)) /\ ~(~Stay(y) /\ Stay(z))
        BY <1>10, <1>12, <1>17
    <2> QED BY <2>1, <2>2, <2>3
<1>18. ASSUME NEW z \in Places \ gone PROVE \E y \in PlacesOf(q) : g[y] = z
    <2>0. z[1] \in Slots /\ z[2] \in DOMAIN queues[z[1]] /\ z = <<z[1], z[2]>>
        BY PlaceIs
    <2>1. CASE z \notin moved
        <3>1. PICK x \in Slots, k \in Nat : k \in DOMAIN queues[x] /\ z = <<x, k>>
            BY <2>0, PlaceIs
        <3>2. PICK l \in 1..Len(Remaining(x, moved)) : es[x][l] = k
            BY <1>5, <2>1, <3>1 DEF Stays
        <3>3. l \in 1..Len(q[x]) /\ l <= Len(rest[x])
            BY <1>3, <1>7, <1>8, <3>2
        <3>0. PICK y : y = <<x, l>>
            OBVIOUS
        <3>4. y = <<x, l>> /\ y \in PlacesOf(q) /\ y[1] = x /\ y[2] = l
            BY <1>9, <3>0, <3>3, PlaceOf
        <3>5. Stay(y)
            BY <3>3, <3>4
        <3>6. g[y] = <<y[1], es[y[1]][y[2]]>>
            BY <1>10, <3>4, <3>5
        <3> QED BY <3>1, <3>2, <3>4, <3>6
    <2>2. CASE z \in moved
        <3>1. PICK j \in Nodes : \E m \in DOMAIN done[j] : done[j][m].at = z
            BY <1>1, <1>2, <2>2, MovedIs
        <3>2. PICK m \in DOMAIN done[j] : done[j][m].at = z
            BY <3>1
        <3>3. z[1][1] = j /\ done[j][m].to = Out(j, At(z))
            BY <1>1, <3>2, MovedIs
        <3>4. PICK p : p = Out(j, At(z)) /\ p \in Links
            BY <1>1, <1>2, <2>2, <3>3, MovedIs
        <3>5. At(z) \in Messages
            BY PlaceIs
        <3>6. PICK i \in Nodes : i = Neighbour(j, p)
            BY <3>4, <3>5, Onwards
        <3>7. Opposite(p) \in Links /\ Opposite(Opposite(p)) = p /\ Neighbour(i, Opposite(p)) = j
            BY <3>4, <3>6, Back
        <3>8. PICK x : x = <<i, Opposite(p), z[1][3]>>
            OBVIOUS
        <3>9. x \in Slots /\ x[1] = i /\ x[2] = Opposite(p) /\ x[3] = z[1][3]
            <4>1. Opposite(p) \in 0..(Ports - 1)
                BY <3>5, <3>7, Wiring
            <4>2. z[1][3] \in UsedClasses
                BY <2>0, SlotIs
            <4> QED BY <3>8, <4>1, <4>2, Built
        <3>10. Linked(x) /\ Neighbour(x[1], x[2]) = j /\ Enters(done, x, j, m)
            BY <3>2, <3>3, <3>4, <3>7, <3>9 DEF Linked, Enters
        <3>11. EntersBy(done, x, come[x], ds[x])
            BY <1>7, <3>9, <3>10
        <3>12. PICK l \in 1..Len(come[x]) : ds[x][l] = m
            BY <3>10, <3>11 DEF EntersBy
        <3>13. Len(rest[x]) + l \in 1..Len(q[x]) /\ ~(Len(rest[x]) + l <= Len(rest[x]))
            <4>1. PICK a \in Nat, b \in Nat : a = Len(rest[x]) /\ b = Len(come[x]) /\ Len(q[x]) = a + b
                BY <1>7, <1>8, <3>9
            <4>2. PICK c \in 1..b : c = l
                BY <4>1
            <4>3. a + c \in 1..(a + b) /\ ~(a + c <= a)
                OBVIOUS
            <4> QED BY <4>1, <4>2, <4>3
        <3>0. PICK y : y = <<x, Len(rest[x]) + l>>
            OBVIOUS
        <3>14. /\ y = <<x, Len(rest[x]) + l>> /\ y \in PlacesOf(q)
               /\ y[1] = x /\ y[2] = Len(rest[x]) + l
            BY <1>9, <3>0, <3>9, <3>13, PlaceOf
        <3>15. ~Stay(y) /\ Node(y) = j /\ Which(y) = ds[x][l]
            <4>1. (Len(rest[x]) + l) - Len(rest[x]) = l
                BY <1>7, <3>9
            <4> QED BY <3>10, <3>13, <3>14, <4>1
        <3>16. g[y] = done[j][m].at
            BY <1>11, <3>12, <3>14, <3>15
        <3> QED BY <3>2, <3>14, <3>16
    <2> QED BY <2>1, <2>2
<1>19. ASSUME NEW z \in PlacesOf(q)
       PROVE  /\ q[z[1]][z[2]] = At(g[z])
              /\ \/ g[z] \notin moved /\ g[z][1] = z[1]
                 \/ /\ g[z] \in moved /\ Shape # "crossbar" /\ Out(g[z][1][1], At(g[z])) \in Links
                    /\ z[1] = HopFrom(g[z][1], At(g[z]))
    <2>1. CASE Stay(z)
        BY <1>10, <2>1
    <2>2. CASE ~Stay(z)
        BY <1>11, <1>12, <2>2
    <2> QED BY <2>1, <2>2
<1>20. \A z \in PlacesOf(q) : Stay(z) <=> g[z] \notin moved
    BY <1>10, <1>12
<1>21. ASSUME NEW y \in PlacesOf(q), NEW z \in PlacesOf(q), y[1] = z[1], g[y] \notin moved,
              g[z] \in moved \/ g[y][2] < g[z][2]
       PROVE  y[2] < z[2]
    <2>1. CASE g[z] \notin moved
        BY <1>15, <1>20, <1>21, <2>1
    <2>2. CASE g[z] \in moved
        <3>1. y[2] <= Len(rest[y[1]]) /\ ~(z[2] <= Len(rest[y[1]]))
            BY <1>20, <1>21, <2>2
        <3>2. y[2] \in Nat /\ z[2] \in Nat /\ Len(rest[y[1]]) \in Nat
            BY <1>7, <1>9, PlaceOf
        <3> QED BY <3>1, <3>2
    <2> QED BY <2>1, <2>2
<1>22. ASSUME NEW y \in PlacesOf(q), NEW z \in PlacesOf(q), y[1] = z[1], g[y] \in moved, g[z] \in moved,
              g[y][1] = g[z][1], g[y][2] < g[z][2]
       PROVE  y[2] < z[2]
    BY <1>16, <1>20, <1>22
<1>23. Shifts(g, q, moved, gone)
    BY <1>14, <1>17, <1>18, <1>19, <1>21, <1>22 DEF Shifts
<1> QED BY <1>2, <1>9, <1>23

LEMMA CrossbarShifts ==
    ASSUME noc \in DOMAIN Machines, Held, NEW gone \in SUBSET Places,
           NEW q, q = [x \in Slots |-> Remaining(x, gone)]
    PROVE  /\ q \in [Slots -> Seq(Messages)]
           /\ \E g : Shifts(g, q, gone, gone)
<1>1. q \in [Slots -> Seq(Messages)]
    BY RemainingIs
<1>2. PICK es : \A x \in Slots : Stays(x, gone, es[x])
    BY StaysIs
<1> DEFINE g == [z \in PlacesOf(q) |-> <<z[1], es[z[1]][z[2]]>>]
<1>3. ASSUME NEW z \in PlacesOf(q)
      PROVE  /\ g[z] = <<z[1], es[z[1]][z[2]]>> /\ g[z] \in Places /\ g[z] \notin gone
             /\ q[z[1]][z[2]] = At(g[z]) /\ es[z[1]][z[2]] \in Nat
             /\ z[1] \in Slots /\ z[2] \in 1..Len(q[z[1]]) /\ z[2] \in Nat /\ z = <<z[1], z[2]>>
    <2>1. z[1] \in Slots /\ z[2] \in 1..Len(q[z[1]]) /\ z[2] \in Nat /\ z = <<z[1], z[2]>>
        BY <1>1, PlaceOf
    <2>2. PICK x \in Slots, k \in Nat : x = z[1] /\ k = z[2] /\ Stays(x, gone, es[x])
        BY <1>2, <2>1
    <2>3. q[x] = Remaining(x, gone) /\ k \in 1..Len(Remaining(x, gone))
        BY <2>1, <2>2
    <2>4. /\ q[x][k] = queues[x][es[x][k]] /\ es[x][k] \in 1..Len(queues[x])
          /\ <<x, es[x][k]>> \notin gone /\ <<x, es[x][k]>> \in Places
        BY <2>2, <2>3 DEF Stays
    <2>5. At(<<x, es[x][k]>>) = queues[x][es[x][k]]
        BY DEF At
    <2>6. es[x][k] \in Nat
        BY <2>4, PlaceIs
    <2>7. g[z] = <<x, es[x][k]>>
        BY <2>2
    <2> HIDE DEF g
    <2> QED BY <2>1, <2>2, <2>4, <2>5, <2>6, <2>7
<1>4. g = [z \in PlacesOf(q) |-> g[z]]
    OBVIOUS
<1> HIDE DEF g
<1>5. g \in [PlacesOf(q) -> Places \ gone]
    BY <1>3, <1>4
<1>6. ASSUME NEW y \in PlacesOf(q), NEW z \in PlacesOf(q), y[1] = z[1]
      PROVE  /\ g[y] = g[z] => y = z
             /\ g[y][2] < g[z][2] => y[2] < z[2]
    <2>1. PICK x \in Slots : x = y[1] /\ x = z[1]
        BY <1>3, <1>6
    <2>0. y[2] \in Nat /\ z[2] \in Nat /\ y = <<x, y[2]>> /\ z = <<x, z[2]>>
        BY <1>3, <2>1
    <2>2. PICK k \in Nat, l \in Nat : k = y[2] /\ l = z[2] /\ y = <<x, k>> /\ z = <<x, l>>
        BY <2>0
    <2>3. k \in 1..Len(Remaining(x, gone)) /\ l \in 1..Len(Remaining(x, gone))
        BY <1>3, <2>1, <2>2
    <2>4. g[y][2] = es[x][k] /\ g[z][2] = es[x][l] /\ es[x][k] \in Nat /\ es[x][l] \in Nat
        BY <1>3, <2>1, <2>2
    <2>5. /\ k < l => es[x][k] < es[x][l]
          /\ l < k => es[x][l] < es[x][k]
        BY <1>2, <2>3 DEF Stays
    <2> QED BY <2>2, <2>4, <2>5
<1>7. ASSUME NEW y \in PlacesOf(q), NEW z \in PlacesOf(q), g[y] = g[z] PROVE y = z
    BY <1>3, <1>6, <1>7
<1>8. ASSUME NEW z \in Places \ gone PROVE \E y \in PlacesOf(q) : g[y] = z
    <2>1. PICK x \in Slots, k \in Nat : k \in DOMAIN queues[x] /\ z = <<x, k>>
        BY PlaceIs
    <2>2. PICK l \in 1..Len(Remaining(x, gone)) : es[x][l] = k
        BY <1>2, <2>1 DEF Stays
    <2>3. PICK y : y = <<x, l>>
        OBVIOUS
    <2>4. y \in PlacesOf(q) /\ y[1] = x /\ y[2] = l
        BY <1>1, <2>2, <2>3, PlaceOf
    <2> QED BY <1>3, <2>1, <2>2, <2>4
<1>9. \A z \in PlacesOf(q) : q[z[1]][z[2]] = At(g[z]) /\ g[z] \notin gone /\ g[z][1] = z[1]
    BY <1>3
<1>10. Shifts(g, q, gone, gone)
    BY <1>5, <1>6, <1>7, <1>8, <1>9 DEF Shifts
<1> QED BY <1>1, <1>10

-------------------------------------------------------------------------------------
(* The inductive invariant, of queues q and paths w *)

MessageAt(q, z) == q[z[1]][z[2]]
RealOf(q)  == {z \in PlacesOf(q) : ~MessageAt(q, z).dummy}
UnderOf(w) == UNION {{w[p][k] : k \in DOMAIN w[p]} : p \in Pairs}

\* Two messages of one flow.
Alike(m, n) == m.src = n.src /\ m.dst = n.dst /\ m.class = n.class

PathsOk(w) ==
    /\ w \in [Pairs -> Seq(Messages)]
    /\ \A p \in Pairs : \A k \in DOMAIN w[p] :
         w[p][k].src = p[1] /\ w[p][k].dst = p[2] /\ w[p][k].dummy = FALSE

Whole(q, w) ==
    /\ {MessageAt(q, z) : z \in RealOf(q)} = UnderOf(w)
    /\ \A y, z \in RealOf(q) : MessageAt(q, y) = MessageAt(q, z) => y = z

\* r[m] is the way of message m, hop by hop; it does not depend on which of its flow m is.
Ways(r) ==
    /\ \A m \in Messages : r[m][0] = Start(m) /\ \A n \in Nat : r[m][n + 1] = HopFrom(r[m][n], m)
    /\ \A m, n \in Messages : Alike(m, n) => r[m] = r[n]

\* h says how many hops each message has done; it did not pass its destination.
Underway(r, h, q) ==
    /\ h \in [RealOf(q) -> Nat]
    /\ \A z \in RealOf(q) :
         /\ z[1] = r[MessageAt(q, z)][h[z]]
         /\ \A n \in Nat : n < h[z] => Shape # "crossbar" /\ Out(r[MessageAt(q, z)][n][1], MessageAt(q, z)) \in Links

\* y is ahead of z.
AheadOf(h, y, z) == h[z] < h[y] \/ (h[z] = h[y] /\ y[2] < z[2])

Ordered(h, q, w) ==
    \A p \in Pairs : \A i, j \in DOMAIN w[p] : i < j /\ w[p][i].class = w[p][j].class =>
      \A y, z \in RealOf(q) : MessageAt(q, y) = w[p][i] /\ MessageAt(q, z) = w[p][j] => AheadOf(h, y, z)

Carries(q, w) ==
    /\ q \in [Slots -> Seq(Messages)]
    /\ PathsOk(w) /\ Whole(q, w)
    /\ \E r, h : Ways(r) /\ Underway(r, h, q) /\ Ordered(h, q, w)

NetworkInv ==
    /\ noc \in DOMAIN Machines /\ token \in Nat
    /\ Carries(queues, path)
    /\ Shape # "crossbar" => count = Cardinality(PlacesOf(queues))
    /\ PlacesOf(queues) # {} => awake

\* What has not gone of a path.
LeftOf(w, gone) == [p \in Pairs |-> Picked(w[p], {k \in DOMAIN w[p] : \A z \in gone : At(z) # w[p][k]})]

\* t is what is left of s, and e says where it was.
LeftBy(t, e, s, gone) ==
    /\ \A k \in DOMAIN t : e[k] \in DOMAIN s /\ t[k] = s[e[k]] /\ \A z \in gone : At(z) # t[k]
    /\ \A k, l \in DOMAIN t : k < l => e[k] < e[l]
    /\ \A k \in DOMAIN s : (\A z \in gone : At(z) # s[k]) => \E l \in DOMAIN t : e[l] = k

LEMMA LeftIs ==
    ASSUME NEW w \in [Pairs -> Seq(Messages)], NEW gone, NEW p \in Pairs
    PROVE  /\ LeftOf(w, gone)[p] \in Seq(Messages)
           /\ \E e : LeftBy(LeftOf(w, gone)[p], e, w[p], gone)
<1> DEFINE K == {k \in DOMAIN w[p] : \A z \in gone : At(z) # w[p][k]}
<1>1. PICK t : t = LeftOf(w, gone)[p] /\ t = Picked(w[p], K)
    BY DEF LeftOf
<1>2. w[p] \in Seq(Messages)
    OBVIOUS
<1> HIDE DEF K
<1>3. t \in Seq(Messages) /\ \E e : Picks(t, e, w[p], K)
    BY <1>1, <1>2, PickedIs
<1>4. PICK e : Picks(t, e, w[p], K)
    BY <1>3
<1>5. DOMAIN t = 1..Len(t) /\ DOMAIN w[p] = 1..Len(w[p])
    BY <1>2, <1>3, LenProperties
<1>6. /\ e \in [1..Len(t) -> 1..Len(w[p])]
      /\ \A j \in 1..Len(t) : t[j] = w[p][e[j]] /\ e[j] \in K
      /\ \A j, l \in 1..Len(t) : j < l => e[j] < e[l]
      /\ \A k \in 1..Len(w[p]) : k \in K => \E j \in 1..Len(t) : e[j] = k
    BY <1>4, Zenon DEF Picks, PicksTo
<1>7. \A k : k \in K <=> k \in DOMAIN w[p] /\ \A z \in gone : At(z) # w[p][k]
    BY DEF K
<1>8. LeftBy(t, e, w[p], gone)
    <2>1. PICK m : m = Len(t) /\ DOMAIN t = 1..m
        BY <1>5
    <2>2. PICK s : s = w[p] /\ DOMAIN s = 1..Len(w[p])
        BY <1>5
    <2>3. ASSUME NEW k \in 1..m
          PROVE  e[k] \in DOMAIN s /\ t[k] = s[e[k]] /\ \A z \in gone : At(z) # t[k]
        <3>1. e[k] \in K /\ t[k] = s[e[k]]
            BY <1>6, <2>1, <2>2
        <3> QED BY <1>7, <2>2, <3>1
    <2>4. \A k, l \in 1..m : k < l => e[k] < e[l]
        BY <1>6, <2>1
    <2>5. ASSUME NEW k \in DOMAIN s, \A z \in gone : At(z) # s[k] PROVE \E l \in 1..m : e[l] = k
        BY <1>6, <1>7, <2>1, <2>2, <2>5
    <2> QED BY <2>1, <2>2, <2>3, <2>4, <2>5 DEF LeftBy
<1> QED BY <1>1, <1>3, <1>8

\* What a pass does to the places of the messages, and to the paths.
LEMMA ShiftedPlaces ==
    ASSUME noc \in DOMAIN Machines, Held,
           NEW g, NEW q \in [Slots -> Seq(Messages)], NEW moved, NEW gone \in SUBSET Places,
           Shifts(g, q, moved, gone)
    PROVE  /\ \A z \in PlacesOf(q) : g[z] \in Places \ gone /\ MessageAt(q, z) = At(g[z])
                                     /\ (z \in RealOf(q) <=> g[z] \in RealOf(queues))
           /\ Cardinality(PlacesOf(q)) = Cardinality(Places) - Cardinality(gone)
           /\ IsFiniteSet(PlacesOf(q)) /\ Cardinality(PlacesOf(q)) \in Nat
<1>1. \A z \in PlacesOf(q) : g[z] \in Places \ gone /\ MessageAt(q, z) = At(g[z])
    BY DEF Shifts, MessageAt
<1>2. \A z : MessageAt(queues, z) = At(z)
    BY DEF MessageAt, At
<1>3. PlacesOf(queues) = Places
    BY DEF PlacesOf, Places
<1>4. \A z \in PlacesOf(q) : z \in RealOf(q) <=> g[z] \in RealOf(queues)
    BY <1>1, <1>2, <1>3 DEF RealOf
<1>5. g \in Bijection(PlacesOf(q), Places \ gone)
    <2>1. g \in [PlacesOf(q) -> Places \ gone]
        BY DEF Shifts
    <2>2. \A y, z \in PlacesOf(q) : g[y] = g[z] => y = z
        BY DEF Shifts
    <2>3. \A z \in Places \ gone : \E y \in PlacesOf(q) : g[y] = z
        BY DEF Shifts
    <2> QED BY <2>1, <2>2, <2>3 DEF Bijection, Injection, Surjection, IsInjective
<1>6. IsFiniteSet(Places) /\ IsFiniteSet(Places \ gone)
    BY PlacesFinite, FS_Difference
<1>7. Cardinality(Places \ gone) = Cardinality(Places) - Cardinality(gone)
    <2>1. Places \cap gone = gone
        OBVIOUS
    <2> QED BY <1>6, <2>1, FS_Difference
<1>8. IsFiniteSet(PlacesOf(q)) /\ Cardinality(PlacesOf(q)) = Cardinality(Places \ gone)
    <2>1. g \in Injection(PlacesOf(q), Places \ gone) /\ g \in Surjection(PlacesOf(q), Places \ gone)
        BY <1>5 DEF Bijection
    <2> QED BY <1>6, <2>1, FS_Injection
<1>9. Cardinality(PlacesOf(q)) \in Nat
    BY <1>8, FS_CardinalityType
<1> QED BY <1>1, <1>4, <1>7, <1>8, <1>9

LEMMA PassKeepsWhole ==
    ASSUME noc \in DOMAIN Machines, Held, PathsOk(path), Whole(queues, path),
           NEW g, NEW q \in [Slots -> Seq(Messages)], NEW moved, NEW gone \in SUBSET Places,
           Shifts(g, q, moved, gone)
    PROVE  PathsOk(LeftOf(path, gone)) /\ Whole(q, LeftOf(path, gone))
<1> DEFINE w == LeftOf(path, gone)
<1>1. path \in [Pairs -> Seq(Messages)]
    BY DEF PathsOk
<1>2. ASSUME NEW p \in Pairs
      PROVE  /\ w[p] \in Seq(Messages)
             /\ \A k \in DOMAIN w[p] : \E j \in DOMAIN path[p] : w[p][k] = path[p][j]
             /\ \A k \in DOMAIN w[p] : \A z \in gone : At(z) # w[p][k]
             /\ \A j \in DOMAIN path[p] : (\A z \in gone : At(z) # path[p][j]) =>
                  \E k \in DOMAIN w[p] : w[p][k] = path[p][j]
    <2>1. PICK t : t = w[p]
        OBVIOUS
    <2>2. t \in Seq(Messages) /\ \E e : LeftBy(t, e, path[p], gone)
        BY <1>1, <2>1, LeftIs
    <2>3. PICK e : LeftBy(t, e, path[p], gone)
        BY <2>2
    <2> HIDE DEF w
    <2>4. \A k \in DOMAIN t : e[k] \in DOMAIN path[p] /\ t[k] = path[p][e[k]] /\ \A z \in gone : At(z) # t[k]
        BY <2>3 DEF LeftBy
    <2>5. ASSUME NEW j \in DOMAIN path[p], \A z \in gone : At(z) # path[p][j]
          PROVE  \E k \in DOMAIN t : t[k] = path[p][j]
        <3>1. PICK k \in DOMAIN t : e[k] = j
            BY <2>3, <2>5 DEF LeftBy
        <3> QED BY <2>4, <3>1
    <2> QED BY <2>1, <2>2, <2>4, <2>5
<1>3. w = [p \in Pairs |-> w[p]]
    BY DEF LeftOf
<1> HIDE DEF w
<1>4. w \in [Pairs -> Seq(Messages)]
    BY <1>2, <1>3
<1>5. PathsOk(w)
    <2>1. ASSUME NEW p \in Pairs, NEW k \in DOMAIN w[p]
          PROVE  w[p][k].src = p[1] /\ w[p][k].dst = p[2] /\ w[p][k].dummy = FALSE
        <3>1. PICK j \in DOMAIN path[p] : w[p][k] = path[p][j]
            BY <1>2
        <3> QED BY <3>1 DEF PathsOk
    <2> QED BY <1>4, <2>1 DEF PathsOk
<1>6. \A z \in PlacesOf(q) : /\ g[z] \in Places \ gone /\ MessageAt(q, z) = At(g[z])
                             /\ (z \in RealOf(q) <=> g[z] \in RealOf(queues))
    BY ShiftedPlaces
<1>7. PlacesOf(queues) = Places /\ \A z : MessageAt(queues, z) = At(z)
    BY DEF PlacesOf, Places, MessageAt, At
<1>8. \A y, z \in RealOf(queues) : At(y) = At(z) => y = z
    BY <1>7 DEF Whole
<1>9. \A m : m \in UnderOf(path) <=> \E z \in RealOf(queues) : At(z) = m
    BY <1>7 DEF Whole
<1>10. \A m : m \in UnderOf(w) <=> m \in UnderOf(path) /\ \A z \in gone : At(z) # m
    <2> SUFFICES ASSUME NEW m PROVE m \in UnderOf(w) <=> m \in UnderOf(path) /\ \A z \in gone : At(z) # m
        OBVIOUS
    <2>1. ASSUME m \in UnderOf(w) PROVE m \in UnderOf(path) /\ \A z \in gone : At(z) # m
        <3>1. PICK p \in Pairs : \E k \in DOMAIN w[p] : m = w[p][k]
            BY <2>1 DEF UnderOf
        <3>2. PICK k \in DOMAIN w[p] : m = w[p][k]
            BY <3>1
        <3>3. PICK j \in DOMAIN path[p] : m = path[p][j]
            BY <1>2, <3>2
        <3>4. m \in UnderOf(path)
            BY <3>3 DEF UnderOf
        <3> QED BY <1>2, <3>2, <3>4
    <2>2. ASSUME m \in UnderOf(path), \A z \in gone : At(z) # m PROVE m \in UnderOf(w)
        <3>1. PICK p \in Pairs : \E k \in DOMAIN path[p] : m = path[p][k]
            BY <2>2 DEF UnderOf
        <3>2. PICK j \in DOMAIN path[p] : m = path[p][j]
            BY <3>1
        <3>3. PICK k \in DOMAIN w[p] : w[p][k] = m
            BY <1>2, <2>2, <3>2
        <3> QED BY <3>3 DEF UnderOf
    <2> QED BY <2>1, <2>2
<1>11. RealOf(q) \subseteq PlacesOf(q) /\ RealOf(queues) \subseteq Places
    BY <1>7 DEF RealOf
<1>12. ASSUME NEW y \in RealOf(q), NEW z \in RealOf(q), MessageAt(q, y) = MessageAt(q, z) PROVE y = z
    <2>1. g[y] = g[z]
        BY <1>6, <1>8, <1>11, <1>12
    <2> QED BY <1>11, <2>1 DEF Shifts
<1>13. \A m : m \in UnderOf(w) <=> \E z \in RealOf(q) : MessageAt(q, z) = m
    <2> SUFFICES ASSUME NEW m PROVE m \in UnderOf(w) <=> \E z \in RealOf(q) : MessageAt(q, z) = m
        OBVIOUS
    <2>1. ASSUME m \in UnderOf(w) PROVE \E z \in RealOf(q) : MessageAt(q, z) = m
        <3>1. PICK y \in RealOf(queues) : At(y) = m /\ y \notin gone
            BY <1>9, <1>10, <2>1
        <3>2. PICK z \in PlacesOf(q) : g[z] = y
            BY <1>11, <3>1 DEF Shifts
        <3> QED BY <1>6, <3>1, <3>2
    <2>2. ASSUME NEW z \in RealOf(q), MessageAt(q, z) = m PROVE m \in UnderOf(w)
        <3>1. g[z] \in RealOf(queues) /\ g[z] \notin gone /\ At(g[z]) = m
            BY <1>6, <1>11, <2>2
        <3>2. ASSUME NEW y \in gone, At(y) = m PROVE FALSE
            <4>1. y \in RealOf(queues)
                <5>1. ~At(g[z]).dummy
                    BY <1>7, <3>1 DEF RealOf
                <5> QED BY <1>7, <3>1, <3>2, <5>1 DEF RealOf
            <4> QED BY <1>8, <3>1, <3>2, <4>1
        <3> QED BY <1>9, <1>10, <3>1, <3>2
    <2> QED BY <2>1, <2>2
<1>14. {MessageAt(q, z) : z \in RealOf(q)} = UnderOf(w)
    BY <1>13
<1>15. Whole(q, w)
    BY <1>12, <1>14 DEF Whole
<1> QED BY <1>5, <1>15 DEF w

\* No message overtakes an earlier one of its flow, on the way or into a queue.
LEMMA PassKeepsOrder ==
    ASSUME noc \in DOMAIN Machines, Held, PathsOk(path),
           NEW r, NEW h, Ways(r), Underway(r, h, queues), Ordered(h, queues, path),
           NEW g, NEW q \in [Slots -> Seq(Messages)], NEW moved, NEW gone \in SUBSET Places,
           Shifts(g, q, moved, gone),
           \A z \in moved \ gone : \A y \in Places : y[1] = z[1] /\ y[2] < z[2] => y \in moved
    PROVE  \E i : Underway(r, i, q) /\ Ordered(i, q, LeftOf(path, gone))
<1>1. PICK i : i = [z \in RealOf(q) |-> IF g[z] \in moved THEN h[g[z]] + 1 ELSE h[g[z]]]
    OBVIOUS
<1>2. PlacesOf(queues) = Places /\ \A z : MessageAt(queues, z) = At(z)
    BY DEF PlacesOf, Places, MessageAt, At
<1>3. ASSUME NEW z \in RealOf(q)
      PROVE  /\ z \in PlacesOf(q) /\ g[z] \in RealOf(queues) /\ g[z] \in Places /\ g[z] \notin gone
             /\ MessageAt(q, z) = At(g[z]) /\ At(g[z]) \in Messages
             /\ h[g[z]] \in Nat /\ g[z][1] = r[At(g[z])][h[g[z]]]
             /\ \A n \in Nat : n < h[g[z]] => Shape # "crossbar" /\ Out(r[At(g[z])][n][1], At(g[z])) \in Links
             /\ g[z] \notin moved => g[z][1] = z[1] /\ i[z] = h[g[z]]
             /\ g[z] \in moved => /\ Shape # "crossbar" /\ Out(g[z][1][1], At(g[z])) \in Links
                                  /\ z[1] = HopFrom(g[z][1], At(g[z])) /\ i[z] = h[g[z]] + 1
    <2>1. z \in PlacesOf(q)
        BY DEF RealOf
    <2>2. g[z] \in RealOf(queues) /\ g[z] \in Places /\ g[z] \notin gone /\ MessageAt(q, z) = At(g[z])
        BY <2>1, ShiftedPlaces
    <2>3. At(g[z]) \in Messages
        BY <2>2, PlaceIs
    <2>4. /\ h[g[z]] \in Nat /\ g[z][1] = r[At(g[z])][h[g[z]]]
          /\ \A n \in Nat : n < h[g[z]] => Shape # "crossbar" /\ Out(r[At(g[z])][n][1], At(g[z])) \in Links
        BY <1>2, <2>2 DEF Underway
    <2>5. i[z] = IF g[z] \in moved THEN h[g[z]] + 1 ELSE h[g[z]]
        BY <1>1
    <2>6. \/ g[z] \notin moved /\ g[z][1] = z[1]
          \/ /\ g[z] \in moved /\ Shape # "crossbar" /\ Out(g[z][1][1], At(g[z])) \in Links
             /\ z[1] = HopFrom(g[z][1], At(g[z]))
        BY <2>1 DEF Shifts
    <2> QED BY <2>1, <2>2, <2>3, <2>4, <2>5, <2>6
<1>4. Underway(r, i, q)
    <2>1. i \in [RealOf(q) -> Nat]
        <3>1. \A z \in RealOf(q) : (IF g[z] \in moved THEN h[g[z]] + 1 ELSE h[g[z]]) \in Nat
            BY <1>3
        <3> QED BY <1>1, <3>1
    <2>2. ASSUME NEW z \in RealOf(q)
          PROVE  /\ z[1] = r[MessageAt(q, z)][i[z]]
                 /\ \A n \in Nat : n < i[z] =>
                      Shape # "crossbar" /\ Out(r[MessageAt(q, z)][n][1], MessageAt(q, z)) \in Links
        <3>1. PICK m \in Messages, k \in Nat : m = At(g[z]) /\ m = MessageAt(q, z) /\ k = h[g[z]]
            BY <1>3
        <3>2. g[z][1] = r[m][k] /\ \A n \in Nat : n < k => Shape # "crossbar" /\ Out(r[m][n][1], m) \in Links
            BY <1>3, <3>1
        <3>3. CASE g[z] \notin moved
            <4>1. i[z] = k /\ z[1] = r[m][k]
                BY <1>3, <3>1, <3>2, <3>3
            <4> QED BY <3>1, <3>2, <4>1
        <3>4. CASE g[z] \in moved
            <4>1. i[z] = k + 1 /\ z[1] = HopFrom(r[m][k], m) /\ Shape # "crossbar" /\ Out(r[m][k][1], m) \in Links
                BY <1>3, <3>1, <3>2, <3>4
            <4>2. r[m][k + 1] = HopFrom(r[m][k], m)
                BY DEF Ways
            <4>3. \A n \in Nat : n < k + 1 => n < k \/ n = k
                OBVIOUS
            <4>4. \A n \in Nat : n < i[z] => Shape # "crossbar" /\ Out(r[m][n][1], m) \in Links
                BY <3>2, <4>1, <4>3
            <4> QED BY <3>1, <4>1, <4>2, <4>4
        <3> QED BY <3>3, <3>4
    <2> QED BY <2>1, <2>2 DEF Underway
<1>5. \A m, n \in Messages : Alike(m, n) => r[m] = r[n]
    BY DEF Ways
<1>6. ASSUME NEW y \in RealOf(q), NEW z \in RealOf(q), Alike(At(g[y]), At(g[z])), AheadOf(h, g[y], g[z])
      PROVE  AheadOf(i, y, z)
    <2>1. PICK a \in Nat, b \in Nat : a = h[g[y]] /\ b = h[g[z]]
        BY <1>3
    <2>2. PICK way : way = r[At(g[y])] /\ way = r[At(g[z])]
        BY <1>3, <1>5, <1>6
    <2>3. y \in PlacesOf(q) /\ z \in PlacesOf(q) /\ g[y] \in Places /\ g[z] \in Places /\ g[z] \notin gone
        BY <1>3
    <2>4. g[y][1] = way[a] /\ g[z][1] = way[b] /\ y[1] = way[i[y]] /\ z[1] = way[i[z]]
        <3>1. g[y][1] = way[a] /\ g[z][1] = way[b]
            BY <1>3, <2>1, <2>2
        <3>2. MessageAt(q, y) = At(g[y]) /\ MessageAt(q, z) = At(g[z])
            BY <1>3
        <3>3. y[1] = r[MessageAt(q, y)][i[y]] /\ z[1] = r[MessageAt(q, z)][i[z]]
            BY <1>4 DEF Underway
        <3> QED BY <2>2, <3>1, <3>2, <3>3
    <2>5. /\ i[y] = IF g[y] \in moved THEN a + 1 ELSE a
          /\ i[z] = IF g[z] \in moved THEN b + 1 ELSE b
        BY <1>3, <2>1
    <2>6. b < a \/ (b = a /\ g[y][2] < g[z][2])
        BY <1>6, <2>1 DEF AheadOf
    <2>7. b = a => g[y][1] = g[z][1]
        BY <2>4
    <2>8. b = a /\ g[z] \in moved => g[y] \in moved
        BY <2>3, <2>6, <2>7
    <2>9. ASSUME i[z] = i[y] PROVE y[2] < z[2]
        <3>1. y[1] = z[1]
            BY <2>4, <2>9
        <3>2. CASE g[y] \notin moved
            <4>1. g[z] \in moved \/ g[y][2] < g[z][2]
                BY <2>5, <2>6, <2>9, <3>2
            <4> QED BY <2>3, <3>1, <3>2, <4>1 DEF Shifts
        <3>3. CASE g[y] \in moved
            <4>1. g[z] \in moved /\ b = a
                BY <2>5, <2>6, <2>9, <3>3
            <4> QED BY <2>3, <2>6, <2>7, <3>1, <3>3, <4>1 DEF Shifts
        <3> QED BY <3>2, <3>3
    <2>10. i[z] < i[y] \/ i[z] = i[y]
        BY <2>5, <2>6, <2>8
    <2> QED BY <2>9, <2>10 DEF AheadOf
<1> DEFINE w == LeftOf(path, gone)
<1>7. ASSUME NEW p \in Pairs, NEW a \in DOMAIN w[p], NEW b \in DOMAIN w[p], a < b, w[p][a].class = w[p][b].class,
             NEW y \in RealOf(q), NEW z \in RealOf(q), MessageAt(q, y) = w[p][a], MessageAt(q, z) = w[p][b]
      PROVE  AheadOf(i, y, z)
    <2>1. PICK t : t = w[p]
        OBVIOUS
    <2>2. PICK e : LeftBy(t, e, path[p], gone)
        BY <2>1, LeftIs DEF PathsOk
    <2> HIDE DEF w
    <2>3. PICK k, l : k = e[a] /\ l = e[b]
        OBVIOUS
    <2>4. k \in DOMAIN path[p] /\ l \in DOMAIN path[p] /\ t[a] = path[p][k] /\ t[b] = path[p][l] /\ k < l
        BY <1>7, <2>1, <2>2, <2>3 DEF LeftBy
    <2>5. At(g[y]) = path[p][k] /\ At(g[z]) = path[p][l]
        BY <1>3, <1>7, <2>1, <2>4
    <2>6. Alike(At(g[y]), At(g[z]))
        <3>1. path[p][k].src = path[p][l].src /\ path[p][k].dst = path[p][l].dst
            BY <2>4 DEF PathsOk
        <3>2. path[p][k].class = path[p][l].class
            BY <1>7, <2>1, <2>4
        <3> QED BY <2>5, <3>1, <3>2 DEF Alike
    <2>7. g[y] \in RealOf(queues) /\ g[z] \in RealOf(queues)
        BY <1>3
    <2>8. MessageAt(queues, g[y]) = path[p][k] /\ MessageAt(queues, g[z]) = path[p][l]
        BY <1>2, <2>5
    <2>9. path[p][k].class = path[p][l].class
        BY <1>7, <2>1, <2>4
    <2>10. AheadOf(h, g[y], g[z])
        BY <2>4, <2>7, <2>8, <2>9 DEF Ordered
    <2> QED BY <1>6, <2>6, <2>10
<1>8. Ordered(i, q, w)
    BY <1>7, Zenon DEF Ordered
<1> QED BY <1>4, <1>8

-------------------------------------------------------------------------------------
(* The ways of messages *)

\* The first hops of message m, from where it enters the network.
Hops(f, m, n) == f[0] = Start(m) /\ \A k \in 0..n : k # n => f[k + 1] = HopFrom(f[k], m)

\* The message that stands for its flow.
Kin(m) == Packet(m, 0, FALSE)

LEMMA HopsExist ==
    ASSUME NEW m, NEW n \in Nat PROVE \E f : Hops(f, m, n)
<1> DEFINE T == {k \in Nat : \E f : Hops(f, m, k)}
<1>1. 0 \in T
    <2>1. PICK f : f = [k \in 0..0 |-> Start(m)]
        OBVIOUS
    <2>2. f[0] = Start(m)
        BY <2>1
    <2>3. Hops(f, m, 0)
        BY <2>2 DEF Hops
    <2> QED BY <2>3
<1>2. ASSUME NEW k \in Nat, k \in T PROVE k + 1 \in T
    <2>1. PICK f : Hops(f, m, k)
        BY <1>2
    <2>2. PICK g : g = [j \in 0..(k + 1) |-> IF j = k + 1 THEN HopFrom(f[k], m) ELSE f[j]]
        OBVIOUS
    <2>3. \A j \in 0..k : j \in 0..(k + 1) /\ j # k + 1 /\ g[j] = f[j]
        BY <2>2
    <2>4. g[k + 1] = HopFrom(f[k], m)
        BY <2>2
    <2>5. g[0] = Start(m)
        BY <2>1, <2>3 DEF Hops
    <2>6. ASSUME NEW j \in 0..(k + 1), j # k + 1 PROVE g[j + 1] = HopFrom(g[j], m)
        <3>1. CASE j = k
            BY <2>3, <2>4, <3>1
        <3>2. CASE j # k
            <4>1. j \in 0..k /\ j + 1 \in 0..k
                BY <2>6, <3>2
            <4>2. f[j + 1] = HopFrom(f[j], m)
                BY <2>1, <3>2, <4>1 DEF Hops
            <4> QED BY <2>3, <4>1, <4>2
        <3> QED BY <3>1, <3>2
    <2>7. Hops(g, m, k + 1)
        BY <2>5, <2>6 DEF Hops
    <2> QED BY <2>7
<1> HIDE DEF T
<1>3. Nat \subseteq T
    BY <1>1, <1>2, Induction
<1> QED BY <1>3 DEF T

LEMMA HopsAgree ==
    ASSUME NEW m, NEW n \in Nat, NEW f, NEW g, Hops(f, m, n), Hops(g, m, n + 1)
    PROVE  f[n] = g[n]
<1> DEFINE T == {k \in Nat : k \in 0..n => f[k] = g[k]}
<1>1. 0 \in T
    BY DEF Hops
<1>2. ASSUME NEW k \in Nat, k \in T PROVE k + 1 \in T
    <2> SUFFICES ASSUME k + 1 \in 0..n PROVE f[k + 1] = g[k + 1]
        OBVIOUS
    <2>1. k \in 0..n /\ k # n /\ k \in 0..(n + 1) /\ k # n + 1
        OBVIOUS
    <2>2. f[k + 1] = HopFrom(f[k], m) /\ g[k + 1] = HopFrom(g[k], m)
        BY <2>1 DEF Hops
    <2> QED BY <1>2, <2>1, <2>2
<1> HIDE DEF T
<1>3. Nat \subseteq T
    BY <1>1, <1>2, Induction
<1>4. n \in 0..n
    OBVIOUS
<1> QED BY <1>3, <1>4 DEF T

Way(m, n) == CHOOSE f : Hops(f, m, n)

LEMMA WaysExist ==
    \E r : Ways(r)
<1>1. PICK r : r = [m \in Messages |-> [n \in Nat |-> Way(Kin(m), n)[n]]]
    OBVIOUS
<1>2. \A m \in Messages : \A n \in Nat : r[m][n] = Way(Kin(m), n)[n]
    BY <1>1
<1>3. \A m, n : Hops(Way(m, n), m, n) \/ n \notin Nat
    <2> SUFFICES ASSUME NEW m, NEW n \in Nat PROVE Hops(Way(m, n), m, n)
        OBVIOUS
    <2>1. \E f : Hops(f, m, n)
        BY HopsExist
    <2> QED BY <2>1, Zenon DEF Way
<1>4. \A m : Start(Kin(m)) = Start(m) /\ \A x : HopFrom(x, Kin(m)) = HopFrom(x, m)
    <2> SUFFICES ASSUME NEW m PROVE Start(Kin(m)) = Start(m) /\ \A x : HopFrom(x, Kin(m)) = HopFrom(x, m)
        OBVIOUS
    <2>1. Kin(m).src = m.src /\ Kin(m).dst = m.dst /\ Kin(m).class = m.class
        BY DEF Kin, Packet
    <2>2. Exit(Kin(m)) = Exit(m)
        BY <2>1, Zenon DEF Exit
    <2>3. \A i : Out(i, Kin(m)) = Out(i, m)
        BY <2>1, <2>2, Zenon DEF Out
    <2>4. \A x : HopFrom(x, Kin(m)) = HopFrom(x, m)
        BY <2>3, Zenon DEF HopFrom
    <2> QED BY <2>1, <2>4 DEF Start
<1>5. ASSUME NEW m \in Messages
      PROVE  r[m][0] = Start(m) /\ \A n \in Nat : r[m][n + 1] = HopFrom(r[m][n], m)
    <2>1. r[m][0] = Start(m)
        BY <1>2, <1>3, <1>4 DEF Hops
    <2>2. ASSUME NEW n \in Nat PROVE r[m][n + 1] = HopFrom(r[m][n], m)
        <3>1. PICK f, g : f = Way(Kin(m), n) /\ g = Way(Kin(m), n + 1)
            OBVIOUS
        <3>2. n + 1 \in Nat
            OBVIOUS
        <3>3. Hops(f, Kin(m), n) /\ Hops(g, Kin(m), n + 1)
            BY <1>3, <3>1, <3>2
        <3>4. f[n] = g[n]
            BY <3>3, HopsAgree
        <3>5. n \in 0..(n + 1) /\ n # n + 1
            OBVIOUS
        <3>6. g[n + 1] = HopFrom(g[n], Kin(m))
            BY <3>3, <3>5 DEF Hops
        <3>7. r[m][n] = f[n] /\ r[m][n + 1] = g[n + 1]
            BY <1>2, <3>1, <3>2
        <3> QED BY <1>4, <3>4, <3>6, <3>7
    <2> QED BY <2>1, <2>2
<1>6. ASSUME NEW m \in Messages, NEW n \in Messages, Alike(m, n) PROVE r[m] = r[n]
    <2>1. Kin(m) = Kin(n)
        BY <1>6 DEF Kin, Packet, Alike
    <2> QED BY <1>1, <2>1
<1> QED BY <1>5, <1>6 DEF Ways

-------------------------------------------------------------------------------------
(* The invariant holds *)

\* The network stays the one that it is.
LEMMA Same ==
    ASSUME noc' = noc, NEW q, q = queues', NEW w, w = path', Carries(q, w)
    PROVE  Carries(queues, path)'
<1>1. /\ Slots' = Slots /\ Nodes' = Nodes /\ Pairs' = Pairs /\ Flows' = Flows /\ Shape' = Shape
      /\ Links' = Links
    BY DEF Slots, Nodes, Pairs, Flows, Shape, Links
<1>2. Messages' = Messages
    BY <1>1 DEF Messages
<1>3. \A e : NodeOf(e)' = NodeOf(e) /\ PortOf(e)' = PortOf(e)
    BY Zenon DEF NodeOf, PortOf
<1>4. \A m : Start(m)' = Start(m)
    BY <1>3, Zenon DEF Start
<1>5. \A m : Exit(m)' = Exit(m)
    BY <1>3, Zenon DEF Exit
<1>6. \A i, m : Out(i, m)' = Out(i, m)
    BY <1>1, <1>3, <1>5, Zenon DEF Out
<1>7. \A i, p : Neighbour(i, p)' = Neighbour(i, p)
    BY <1>1, Zenon DEF Neighbour
<1>8. \A x, m : HopFrom(x, m)' = HopFrom(x, m)
    BY <1>6, <1>7, Zenon DEF HopFrom
<1>9. \A r : Ways(r) => Ways(r)'
    BY <1>2, <1>4, <1>8, Zenon DEF Ways
<1>10. PlacesOf(queues)' = PlacesOf(q)
    BY <1>1 DEF PlacesOf
<1>11. \A z : MessageAt(queues, z)' = MessageAt(q, z)
    BY DEF MessageAt
<1>12. RealOf(queues)' = RealOf(q)
    BY <1>10, <1>11 DEF RealOf
<1>13. UnderOf(path)' = UnderOf(w)
    BY <1>1 DEF UnderOf
<1>14. \A r, h : Underway(r, h, q) => Underway(r, h, queues)'
    BY <1>1, <1>6, <1>11, <1>12, Zenon DEF Underway
<1>15. ASSUME NEW h, Ordered(h, q, w) PROVE Ordered(h, queues, path)'
    <2>1. ASSUME NEW p \in Pairs, NEW i \in DOMAIN w[p], NEW j \in DOMAIN w[p],
                 i < j /\ w[p][i].class = w[p][j].class,
                 NEW y \in RealOf(q), NEW z \in RealOf(q), MessageAt(q, y) = w[p][i] /\ MessageAt(q, z) = w[p][j]
          PROVE  AheadOf(h, y, z)
        BY <1>15, <2>1 DEF Ordered
    <2>2. ASSUME NEW p \in Pairs', NEW i \in DOMAIN path'[p], NEW j \in DOMAIN path'[p],
                 i < j /\ path'[p][i].class = path'[p][j].class,
                 NEW y \in RealOf(queues)', NEW z \in RealOf(queues)',
                 MessageAt(queues, y)' = path'[p][i] /\ MessageAt(queues, z)' = path'[p][j]
          PROVE  AheadOf(h, y, z)'
        <3>1. p \in Pairs /\ y \in RealOf(q) /\ z \in RealOf(q) /\ i \in DOMAIN w[p] /\ j \in DOMAIN w[p]
            BY <1>1, <1>12, <2>2
        <3>2. MessageAt(q, y) = w[p][i] /\ MessageAt(q, z) = w[p][j] /\ w[p][i].class = w[p][j].class
            BY <1>11, <2>2
        <3>3. AheadOf(h, y, z)
            BY <2>1, <2>2, <3>1, <3>2
        <3> QED BY <3>3 DEF AheadOf
    <2> QED BY <2>2, Zenon DEF Ordered
<1>16. PathsOk(path)'
    BY <1>1, <1>2 DEF PathsOk, Carries
<1>17. Whole(queues, path)'
    BY <1>11, <1>12, <1>13 DEF Whole, Carries
<1>18. (queues \in [Slots -> Seq(Messages)])'
    BY <1>1, <1>2 DEF Carries
<1>19. \E r, h : Ways(r)' /\ Underway(r, h, queues)' /\ Ordered(h, queues, path)'
    BY <1>9, <1>14, <1>15 DEF Carries
<1> QED BY <1>16, <1>17, <1>18, <1>19 DEF Carries

\* A step that keeps the core of the invariant, and the count of messages, keeps all of it.
LEMMA Keeps ==
    ASSUME noc \in DOMAIN Machines, noc' = noc, token' \in Nat, NEW q, q = queues', NEW w, w = path', Carries(q, w),
           Shape # "crossbar" => count' = Cardinality(PlacesOf(q)),
           PlacesOf(q) # {} => awake'
    PROVE  NetworkInv'
<1>1. Carries(queues, path)'
    BY Same
<1>2. PlacesOf(queues)' = PlacesOf(q)
    BY DEF PlacesOf, Slots
<1>3. Shape' = Shape
    BY DEF Shape
<1> QED BY <1>1, <1>2, <1>3 DEF NetworkInv

\* At the start.
LEMMA NetworkInitInv ==
    NetworkInit => NetworkInv
<1> SUFFICES ASSUME NetworkInit PROVE NetworkInv
    OBVIOUS
<1>1. /\ noc \in DOMAIN Machines /\ token = 0 /\ count = 0
      /\ queues = [s \in Slots |-> <<>>] /\ path = [p \in Pairs |-> <<>>]
    BY DEF NetworkInit
<1>2. \A T : <<>> \in Seq(T) /\ DOMAIN <<>> = {}
    OBVIOUS
<1>3. PlacesOf(queues) = {} /\ RealOf(queues) = {}
    BY <1>1, <1>2 DEF PlacesOf, RealOf
<1>4. \A p \in Pairs : path[p] = <<>>
    BY <1>1
<1>5. UnderOf(path) = {}
    BY <1>2, <1>4 DEF UnderOf
<1>6. PathsOk(path)
    BY <1>1, <1>2, <1>4 DEF PathsOk
<1>7. Whole(queues, path)
    BY <1>3, <1>5 DEF Whole
<1>8. PICK r : Ways(r)
    BY WaysExist
<1>9. PICK h : h = [z \in RealOf(queues) |-> 0]
    OBVIOUS
<1>10. Underway(r, h, queues)
    BY <1>3, <1>9 DEF Underway
<1>11. Ordered(h, queues, path)
    BY <1>3 DEF Ordered
<1>12. queues \in [Slots -> Seq(Messages)]
    BY <1>1, <1>2
<1>13. Carries(queues, path)
    BY <1>6, <1>7, <1>8, <1>10, <1>11, <1>12 DEF Carries
<1>14. Cardinality(PlacesOf(queues)) = 0
    BY <1>3, FS_EmptySet
<1> QED BY <1>1, <1>3, <1>13, <1>14 DEF NetworkInv

LEMMA TokenIs ==
    ASSUME noc \in DOMAIN Machines, token \in Nat, Turn
    PROVE  token' \in Nat
<1>1. Ports \in Nat \ {0}
    BY RoundIs
<1>2. (token + 1) % Ports \in Nat
    BY <1>1
<1> QED BY <1>2 DEF Turn

\* A pass that shifts the queues keeps the invariant.
LEMMA ShiftKeeps ==
    ASSUME NetworkInv, Turn, noc' = noc,
           NEW g, NEW q \in [Slots -> Seq(Messages)], NEW moved, NEW gone \in SUBSET Places,
           Shifts(g, q, moved, gone),
           \A z \in moved \ gone : \A y \in Places : y[1] = z[1] /\ y[2] < z[2] => y \in moved,
           q = queues', Arrive(gone),
           Shape # "crossbar" => count' = count - Cardinality(gone),
           PlacesOf(q) # {} => awake'
    PROVE  NetworkInv'
<1>1. noc \in DOMAIN Machines /\ token \in Nat /\ Carries(queues, path)
    BY DEF NetworkInv
<1>2. Held /\ PathsOk(path) /\ Whole(queues, path)
    BY <1>1 DEF Carries, Held
<1>3. PICK r, h : Ways(r) /\ Underway(r, h, queues) /\ Ordered(h, queues, path)
    BY <1>1 DEF Carries
<1>4. PICK w : w = LeftOf(path, gone)
    OBVIOUS
<1>5. w = path'
    BY <1>4 DEF Arrive, LeftOf
<1>6. PathsOk(w) /\ Whole(q, w)
    BY <1>1, <1>2, <1>4, PassKeepsWhole
<1>7. PICK i : Underway(r, i, q) /\ Ordered(i, q, w)
    BY <1>1, <1>2, <1>3, <1>4, PassKeepsOrder
<1>8. Carries(q, w)
    BY <1>3, <1>6, <1>7 DEF Carries
<1>9. Shape # "crossbar" => count' = Cardinality(PlacesOf(q))
    <2>1. PlacesOf(queues) = Places
        BY DEF PlacesOf, Places
    <2>2. Cardinality(PlacesOf(q)) = Cardinality(Places) - Cardinality(gone)
        BY <1>1, <1>2, ShiftedPlaces
    <2> QED BY <2>1, <2>2 DEF NetworkInv
<1>10. token' \in Nat
    BY <1>1, TokenIs
<1> QED BY <1>1, <1>5, <1>8, <1>9, <1>10, Keeps

LEMMA CrossbarKeeps ==
    ASSUME NetworkInv, PassCrossbar
    PROVE  NetworkInv'
<1>1. noc \in DOMAIN Machines /\ Held
    BY DEF NetworkInv, Carries, Held
<1>2. PICK gone : /\ gone = Granted /\ queues' = [x \in Slots |-> Remaining(x, gone)] /\ Arrive(gone)
    BY DEF PassCrossbar
<1>3. Shape = "crossbar" /\ Turn /\ noc' = noc /\ awake' = \E x \in Slots : queues'[x] # <<>>
    BY DEF PassCrossbar
<1>4. gone \in SUBSET Places
    BY <1>1, <1>2, GrantedIsFair DEF Fair
<1>5. PICK q : q = queues'
    OBVIOUS
<1>6. q \in [Slots -> Seq(Messages)] /\ \E g : Shifts(g, q, gone, gone)
    BY <1>1, <1>2, <1>4, <1>5, CrossbarShifts
<1>7. PICK g : Shifts(g, q, gone, gone)
    BY <1>6
<1>8. PlacesOf(q) # {} => awake'
    <2> SUFFICES ASSUME NEW z \in PlacesOf(q) PROVE awake'
        OBVIOUS
    <2>1. z[1] \in Slots /\ z[2] \in 1..Len(q[z[1]])
        BY <1>6, PlaceOf
    <2>2. q[z[1]] # <<>>
        BY <2>1
    <2> QED BY <1>3, <1>5, <2>1, <2>2
<1> QED BY <1>2, <1>3, <1>4, <1>5, <1>6, <1>7, <1>8, ShiftKeeps

LEMMA RoutersKeep ==
    ASSUME NetworkInv, PassRouters
    PROVE  NetworkInv'
<1>1. noc \in DOMAIN Machines /\ Held /\ token \in Nat
    BY DEF NetworkInv, Carries, Held
<1>2. PICK done, moved, gone :
        /\ done = [i \in Nodes |-> Routed(i)] /\ moved = Moved(done) /\ gone = Leaving(done)
        /\ queues' = [x \in Slots |-> Joined(Remaining(x, moved), Entering(done, x))]
        /\ Arrive(gone) /\ count' = count - Cardinality(gone)
    BY DEF PassRouters
<1>3. Shape \in {"mesh", "ring"} /\ Turn /\ noc' = noc /\ awake' = (count' > 0)
    BY DEF PassRouters
<1>4. \A i \in Nodes : Log(i, done[i])
    BY <1>1, <1>2, RoutedIsLog
<1>5. gone \in SUBSET Places /\ \A z \in moved : \A y \in Places : y[1] = z[1] /\ y[2] < z[2] => y \in moved
    <2>1. \A z \in moved : z \in Places
        BY <1>1, <1>2, <1>4, MovedIs
    <2> QED BY <1>1, <1>2, <1>4, <2>1, MovedIs
<1>6. PICK q : q = queues'
    OBVIOUS
<1>7. q \in [Slots -> Seq(Messages)] /\ \E g : Shifts(g, q, moved, gone)
    BY <1>1, <1>2, <1>3, <1>6, RoutersShift
<1>8. PICK g : Shifts(g, q, moved, gone)
    BY <1>7
<1>9. PlacesOf(q) # {} => awake'
    <2>1. /\ Cardinality(PlacesOf(q)) = Cardinality(Places) - Cardinality(gone)
          /\ IsFiniteSet(PlacesOf(q)) /\ Cardinality(PlacesOf(q)) \in Nat
        BY <1>1, <1>5, <1>7, <1>8, ShiftedPlaces
    <2>2. count = Cardinality(Places)
        <3>1. Places = PlacesOf(queues)
            BY DEF Places, PlacesOf
        <3> QED BY <1>3, <3>1 DEF NetworkInv
    <2>3. PlacesOf(q) # {} => Cardinality(PlacesOf(q)) # 0
        BY <2>1, FS_EmptySet
    <2>4. count' = Cardinality(PlacesOf(q))
        BY <1>2, <2>1, <2>2
    <2>5. PlacesOf(q) # {} => count' > 0
        BY <2>1, <2>3, <2>4
    <2> QED BY <1>3, <2>5, Zenon
<1> QED BY <1>2, <1>3, <1>5, <1>6, <1>7, <1>8, <1>9, ShiftKeeps

\* A flit that does not count.
LEMMA HollowIs ==
    ASSUME NEW f \in Flows
    PROVE  Packet(f, 0, TRUE) \in Messages /\ Packet(f, 0, TRUE).dummy
<1>1. PICK id \in Nat, dummy \in BOOLEAN : id = 0 /\ dummy = TRUE
    OBVIOUS
<1>2. Packet(f, id, dummy) \in Messages
    BY DEF Messages
<1>3. Packet(f, 0, TRUE) \in Messages
    BY <1>1, <1>2
<1>4. Packet(f, 0, TRUE).dummy = TRUE
    BY DEF Packet
<1> QED BY <1>3, <1>4

\* The flits of a message are messages of its flow; only the last counts.
LEMMA FlitsAre ==
    ASSUME noc \in DOMAIN Machines, NEW f \in Flows, NEW m \in Messages
    PROVE  /\ Flits(f, m) \in Seq(Messages) /\ Len(Flits(f, m)) = f.flits /\ f.flits \in Nat \ {0}
           /\ \A k \in 1..f.flits : Flits(f, m)[k] = IF k = f.flits THEN m ELSE Packet(f, 0, TRUE)
<1>1. f.flits \in Nat \ {0}
    BY Built DEF WellBuilt, Flows
<1>2. Packet(f, 0, TRUE) \in Messages
    BY HollowIs
<1>3. PICK n \in Nat \ {0}, d \in Messages : n = f.flits /\ d = Packet(f, 0, TRUE)
    BY <1>1, <1>2
<1>4. PICK t : t = [k \in 1..n |-> IF k = n THEN m ELSE d]
    OBVIOUS
<1>5. t \in [1..n -> Messages]
    BY <1>4
<1>6. t \in Seq(Messages) /\ Len(t) = n
    BY <1>5
<1>7. \A k \in 1..n : t[k] = IF k = n THEN m ELSE d
    BY <1>4
<1>8. t = Flits(f, m)
    BY <1>3, <1>4 DEF Flits
<1> QED BY <1>1, <1>2, <1>3, <1>6, <1>7, <1>8

\* What is sent is behind all that is at its start; it has the one new place that counts.
Sends(q, f, m, e) ==
    /\ q \in [Slots -> Seq(Messages)] /\ e[1] = Start(m) /\ e[2] \in Nat
    /\ PlacesOf(queues) \subseteq PlacesOf(q)
    /\ Cardinality(PlacesOf(q)) = Cardinality(PlacesOf(queues)) + f.flits
    /\ \A z \in PlacesOf(queues) : MessageAt(q, z) = MessageAt(queues, z)
    /\ RealOf(q) = RealOf(queues) \cup {e} /\ e \notin PlacesOf(queues)
    /\ MessageAt(q, e) = m
    /\ \A z \in PlacesOf(queues) : z[1] = Start(m) => z[2] < e[2]

LEMMA SendsIs ==
    ASSUME noc \in DOMAIN Machines, Held, NEW f \in Flows, NEW m \in Messages,
           m.src = f.src, m.dst = f.dst, m.class = f.class, ~m.dummy,
           NEW q, q = [queues EXCEPT ![Start(m)] = Joined(@, Flits(f, m))]
    PROVE  \E e : Sends(q, f, m, e)
<1>1. PICK s \in Slots : s = Start(m)
    BY Wiring
<1>2. PICK t \in Seq(Messages), n \in Nat \ {0}, d \in Messages :
        /\ t = Flits(f, m) /\ n = f.flits /\ t \in Seq(Messages) /\ Len(t) = n
        /\ \A k \in 1..n : t[k] = IF k = n THEN m ELSE d
        /\ d.dummy
    <2>1. PICK t : t = Flits(f, m)
        OBVIOUS
    <2>2. PICK d : d = Packet(f, 0, TRUE)
        OBVIOUS
    <2>3. PICK n \in Nat \ {0} : n = f.flits
        BY FlitsAre
    <2>4. /\ Flits(f, m) \in Seq(Messages) /\ Len(Flits(f, m)) = f.flits
          /\ \A k \in 1..f.flits : Flits(f, m)[k] = IF k = f.flits THEN m ELSE Packet(f, 0, TRUE)
        BY FlitsAre
    <2>5. t \in Seq(Messages) /\ Len(t) = n /\ \A k \in 1..n : t[k] = IF k = n THEN m ELSE d
        BY <2>1, <2>2, <2>3, <2>4
    <2>6. d \in Messages /\ d.dummy
        BY <2>2, HollowIs, Zenon
    <2> QED BY <2>1, <2>3, <2>5, <2>6, Zenon
<1>3. PICK b : b = queues[s] /\ b \in Seq(Messages)
    BY DEF Held
<1>4. PICK l \in Nat : l = Len(b)
    BY <1>3, LenProperties
<1>5. PICK c : c = b \o t
    OBVIOUS
<1>6. /\ c \in Seq(Messages) /\ Len(c) = l + n
      /\ \A k \in 1..(l + n) : c[k] = IF k <= l THEN b[k] ELSE t[k - l]
    <2>1. /\ b \o t \in Seq(Messages) /\ Len(b \o t) = Len(b) + Len(t)
          /\ \A k \in 1..(Len(b) + Len(t)) : (b \o t)[k] = IF k <= Len(b) THEN b[k] ELSE t[k - Len(b)]
        BY <1>2, <1>3, ConcatProperties
    <2> QED BY <1>2, <1>4, <1>5, <2>1
<1>7. q = [queues EXCEPT ![s] = c]
    BY <1>1, <1>2, <1>3, <1>5 DEF Joined
<1>8. /\ q \in [Slots -> Seq(Messages)] /\ q[s] = c
      /\ \A x \in Slots : x # s => q[x] = queues[x]
    BY <1>6, <1>7 DEF Held
<1>9. DOMAIN c = 1..(l + n) /\ DOMAIN b = 1..l
    BY <1>3, <1>4, <1>6, LenProperties
<1>10. PICK new : new = {<<s, k>> : k \in (l + 1)..(l + n)}
    OBVIOUS
<1>11. PlacesOf(q) = PlacesOf(queues) \cup new
    <2> SUFFICES ASSUME NEW z PROVE z \in PlacesOf(q) <=> z \in PlacesOf(queues) \/ z \in new
        OBVIOUS
    <2>1. ASSUME z \in PlacesOf(q) PROVE z \in PlacesOf(queues) \/ z \in new
        <3>1. PICK x \in Slots : \E k \in DOMAIN q[x] : z = <<x, k>>
            BY <2>1 DEF PlacesOf
        <3>2. PICK k \in DOMAIN q[x] : z = <<x, k>>
            BY <3>1
        <3>3. CASE x # s
            BY <1>8, <3>2, <3>3 DEF PlacesOf
        <3>4. CASE x = s
            <4>1. k \in 1..(l + n)
                BY <1>8, <1>9, <3>2, <3>4
            <4>2. k \in 1..l \/ k \in (l + 1)..(l + n)
                BY <4>1
            <4>3. k \in DOMAIN queues[x] \/ k \in (l + 1)..(l + n)
                BY <1>3, <1>9, <3>4, <4>2
            <4> QED BY <1>10, <3>2, <3>4, <4>3 DEF PlacesOf
        <3> QED BY <3>3, <3>4
    <2>2. ASSUME z \in PlacesOf(queues) PROVE z \in PlacesOf(q)
        <3>1. PICK x \in Slots : \E k \in DOMAIN queues[x] : z = <<x, k>>
            BY <2>2 DEF PlacesOf
        <3>2. PICK k \in DOMAIN queues[x] : z = <<x, k>>
            BY <3>1
        <3>3. x = s => k \in 1..(l + n)
            BY <1>3, <1>9, <3>2
        <3>4. k \in DOMAIN q[x]
            BY <1>8, <1>9, <3>2, <3>3
        <3> QED BY <3>2, <3>4 DEF PlacesOf
    <2>3. ASSUME z \in new PROVE z \in PlacesOf(q)
        <3>1. PICK k \in (l + 1)..(l + n) : z = <<s, k>>
            BY <1>10, <2>3
        <3>2. k \in DOMAIN q[s]
            <4>1. k \in 1..(l + n)
                BY <3>1
            <4> QED BY <1>8, <1>9, <4>1
        <3> QED BY <3>1, <3>2 DEF PlacesOf
    <2> QED BY <2>1, <2>2, <2>3
<1>12. /\ \A z \in PlacesOf(queues) : z[1] \in Slots /\ z = <<z[1], z[2]>> /\ z[2] \in Nat
       /\ \A z \in PlacesOf(queues) : z[1] = s => z[2] \in 1..l
    <2> SUFFICES ASSUME NEW z \in PlacesOf(queues)
                 PROVE  /\ z[1] \in Slots /\ z = <<z[1], z[2]>> /\ z[2] \in Nat
                        /\ z[1] = s => z[2] \in 1..l
        OBVIOUS
    <2>1. z[1] \in Slots /\ z = <<z[1], z[2]>> /\ z[2] \in Nat /\ z[2] \in 1..Len(queues[z[1]])
        BY PlaceOf DEF Held
    <2> QED BY <1>3, <1>4, <2>1
<1>13. \A z \in new : z[1] = s /\ z[2] \in (l + 1)..(l + n) /\ z = <<s, z[2]>> /\ z \notin PlacesOf(queues)
    <2> SUFFICES ASSUME NEW z \in new
                 PROVE  z[1] = s /\ z[2] \in (l + 1)..(l + n) /\ z = <<s, z[2]>> /\ z \notin PlacesOf(queues)
        OBVIOUS
    <2>1. PICK k \in (l + 1)..(l + n) : z = <<s, k>>
        BY <1>10
    <2>2. k \notin 1..l /\ z[1] = s /\ z[2] = k
        BY <2>1
    <2>3. z \notin PlacesOf(queues)
        BY <1>12, <2>2
    <2> QED BY <2>1, <2>2, <2>3
<1>14. PICK j, e : j = l + n /\ e = <<s, j>>
    OBVIOUS
<1>15. e \in new /\ e[1] = s /\ e[2] = j /\ j \in Nat
    <2>1. j \in (l + 1)..(l + n) /\ j \in Nat
        BY <1>14
    <2> QED BY <1>10, <1>14, <2>1
<1>16. ASSUME NEW z \in PlacesOf(queues) PROVE MessageAt(q, z) = MessageAt(queues, z)
    <2>1. PICK x \in Slots, k \in Nat : z[1] = x /\ z[2] = k
        BY <1>12
    <2>2. CASE x # s
        BY <1>8, <2>1, <2>2 DEF MessageAt
    <2>3. CASE x = s
        <3>1. k \in 1..l
            BY <1>12, <2>1, <2>3
        <3>2. k \in 1..(l + n) /\ k <= l
            BY <3>1
        <3>3. c[k] = b[k]
            BY <1>6, <3>2
        <3> QED BY <1>3, <1>8, <2>1, <2>3, <3>3 DEF MessageAt
    <2> QED BY <2>2, <2>3
<1>17. ASSUME NEW z \in new PROVE MessageAt(q, z) = IF z = e THEN m ELSE d
    <2>1. PICK k \in (l + 1)..(l + n) : z = <<s, k>> /\ z[1] = s /\ z[2] = k
        BY <1>13
    <2>2. k \in 1..(l + n) /\ ~(k <= l) /\ k - l \in 1..n /\ (k - l = n <=> k = l + n)
        OBVIOUS
    <2>3. c[k] = t[k - l]
        BY <1>6, <2>2
    <2>4. t[k - l] = IF k - l = n THEN m ELSE d
        BY <1>2, <2>2
    <2>5. z = e <=> k = l + n
        BY <1>14, <2>1
    <2>6. MessageAt(q, z) = c[k]
        BY <1>8, <2>1 DEF MessageAt
    <2> QED BY <2>2, <2>3, <2>4, <2>5, <2>6
<1>18. RealOf(q) = RealOf(queues) \cup {e}
    <2> SUFFICES ASSUME NEW z PROVE z \in RealOf(q) <=> z \in RealOf(queues) \/ z = e
        OBVIOUS
    <2>1. z \in RealOf(q) <=> z \in PlacesOf(q) /\ ~MessageAt(q, z).dummy
        BY DEF RealOf
    <2>2. z \in RealOf(queues) <=> z \in PlacesOf(queues) /\ ~MessageAt(queues, z).dummy
        BY DEF RealOf
    <2>3. CASE z \in PlacesOf(queues)
        BY <1>11, <1>13, <1>15, <1>16, <2>1, <2>2, <2>3
    <2>4. CASE z \in new
        BY <1>2, <1>11, <1>13, <1>17, <2>1, <2>2, <2>4
    <2>5. CASE z \notin PlacesOf(queues) /\ z \notin new
        BY <1>11, <1>15, <2>1, <2>2, <2>5
    <2> QED BY <2>3, <2>4, <2>5
<1>19. Cardinality(PlacesOf(q)) = Cardinality(PlacesOf(queues)) + n
    <2>1. PlacesOf(queues) = Places
        BY DEF PlacesOf, Places
    <2>2. IsFiniteSet(PlacesOf(queues)) /\ Cardinality(PlacesOf(queues)) \in Nat
        BY <2>1, PlacesFinite, FS_CardinalityType
    <2>3. IsFiniteSet((l + 1)..(l + n)) /\ Cardinality((l + 1)..(l + n)) = n
        <3>1. PICK v \in Int, u \in Int : v = l + 1 /\ u = l + n /\ v <= u /\ u - v + 1 = n
            OBVIOUS
        <3>2. IsFiniteSet(v..u) /\ Cardinality(v..u) = IF v > u THEN 0 ELSE u - v + 1
            BY FS_Interval
        <3>3. ~(v > u)
            BY <3>1
        <3> QED BY <3>1, <3>2, <3>3
    <2>4. PICK u : u = [k \in (l + 1)..(l + n) |-> <<s, k>>]
        OBVIOUS
    <2>5. u \in Surjection((l + 1)..(l + n), new) /\ u \in Injection((l + 1)..(l + n), new)
        BY <1>10, <2>4 DEF Surjection, Injection, IsInjective
    <2>6. IsFiniteSet(new) /\ Cardinality(new) = n
        BY <2>3, <2>5, FS_Surjection
    <2>7. PlacesOf(queues) \cap new = {}
        BY <1>13
    <2>8. PICK a \in Nat : a = Cardinality(PlacesOf(queues))
        BY <2>2
    <2>9. Cardinality({}) = 0
        BY FS_EmptySet
    <2>10. Cardinality(PlacesOf(queues) \cup new)
             = Cardinality(PlacesOf(queues)) + Cardinality(new) - Cardinality(PlacesOf(queues) \cap new)
        BY <2>2, <2>6, FS_Union
    <2>11. Cardinality(PlacesOf(q)) = a + n - 0
        BY <1>11, <2>6, <2>7, <2>8, <2>9, <2>10
    <2>12. a + n - 0 = a + n
        OBVIOUS
    <2> QED BY <2>8, <2>11, <2>12
<1>20. \A z \in PlacesOf(queues) : z[1] = s => z[2] < e[2]
    BY <1>12, <1>14, <1>15
<1> QED BY <1>1, <1>2, <1>8, <1>11, <1>13, <1>15, <1>16, <1>17, <1>18, <1>19, <1>20 DEF Sends

\* The message sent is new, and the last of its path.
LEMMA SendIs ==
    ASSUME noc \in DOMAIN Machines, Held, PathsOk(path), NEW f \in Flows, Send(f)
    PROVE  \E m \in Messages : \E p \in Pairs : \E e :
             /\ Sends(queues', f, m, e) /\ m \notin UnderOf(path)
             /\ p = <<m.src, m.dst>> /\ m.dummy = FALSE
             /\ path' = [path EXCEPT ![p] = Append(@, m)]
<1>1. PICK id \in 1..Window :
        LET pair == <<f.src, f.dst>>
        IN /\ \A k \in Travelling(f) : path[pair][k].id # id
           /\ Entered(f, Packet(f, id, FALSE))
           /\ path' = [path EXCEPT ![pair] = Append(@, Packet(f, id, FALSE))]
    BY DEF Send
<1>2. PICK m : m = Packet(f, id, FALSE)
    OBVIOUS
<1>3. m.src = f.src /\ m.dst = f.dst /\ m.class = f.class /\ m.dummy = FALSE /\ m.id = id
    BY <1>2 DEF Packet
<1>4. m \in Messages
    <2>0. id \in Nat
        BY NetworkAssumption
    <2>1. PICK i \in Nat, dummy \in BOOLEAN : i = id /\ dummy = FALSE
        BY <2>0
    <2>2. Packet(f, i, dummy) \in Messages
        BY DEF Messages
    <2> QED BY <1>2, <2>1, <2>2
<1>5. PICK p : p = <<f.src, f.dst>>
    OBVIOUS
<1>6. p \in Pairs /\ p = <<m.src, m.dst>> /\ p[1] = m.src /\ p[2] = m.dst
    BY <1>3, <1>4, <1>5, Wiring
<1>7. path' = [path EXCEPT ![p] = Append(@, m)]
    BY <1>1, <1>2, <1>5
<1>8. queues' = [queues EXCEPT ![Start(m)] = Joined(@, Flits(f, m))]
    <2>1. Start(m) = <<NodeOf(f.src), PortOf(f.src), f.class>>
        BY <1>3 DEF Start
    <2>2. Entered(f, m)
        BY <1>1, <1>2
    <2> QED BY <2>1, <2>2 DEF Entered
<1>9. PICK e : Sends(queues', f, m, e)
    <2>1. PICK q : q = queues'
        OBVIOUS
    <2>2. q = [queues EXCEPT ![Start(m)] = Joined(@, Flits(f, m))]
        BY <1>8, <2>1
    <2>3. ~m.dummy
        BY <1>3
    <2>4. \E e : Sends(q, f, m, e)
        BY <1>3, <1>4, <2>2, <2>3, SendsIs
    <2> QED BY <2>1, <2>4
<1>10. ASSUME m \in UnderOf(path) PROVE FALSE
    <2>1. PICK o \in Pairs : \E k \in DOMAIN path[o] : m = path[o][k]
        BY <1>10 DEF UnderOf
    <2>2. PICK k \in DOMAIN path[o] : m = path[o][k]
        BY <2>1
    <2>3. m.src = o[1] /\ m.dst = o[2]
        BY <2>2 DEF PathsOk
    <2>4. \A x \in Pairs : x = <<x[1], x[2]>>
        BY Built
    <2>5. o = p
        BY <1>6, <2>3, <2>4
    <2>6. k \in Travelling(f)
        BY <1>3, <1>5, <2>2, <2>5 DEF Travelling
    <2>7. path[p][k].id # id
        BY <1>1, <1>5, <2>6
    <2> QED BY <1>3, <2>2, <2>5, <2>7
<1> QED BY <1>3, <1>4, <1>6, <1>7, <1>9, <1>10

\* Path p of w is that of v, which has n messages, and behind them m.
Longer(w, v, p, n, m) ==
    /\ DOMAIN v[p] = 1..n /\ DOMAIN w[p] = 1..(n + 1) /\ w[p][n + 1] = m
    /\ \A k \in 1..n : w[p][k] = v[p][k]

LEMMA AppendIs ==
    ASSUME NEW v \in [Pairs -> Seq(Messages)], NEW p \in Pairs, NEW m \in Messages,
           NEW w, w = [v EXCEPT ![p] = Append(@, m)]
    PROVE  /\ w \in [Pairs -> Seq(Messages)]
           /\ \A o \in Pairs : o # p => w[o] = v[o]
           /\ \E n \in Nat : Longer(w, v, p, n, m)
<1>1. PICK s : s = v[p] /\ s \in Seq(Messages)
    OBVIOUS
<1>2. PICK t : t = Append(s, m)
    OBVIOUS
<1>3. PICK n \in Nat : n = Len(s) /\ DOMAIN s = 1..n
    BY <1>1, LenProperties
<1>4. t \in Seq(Messages) /\ Len(t) = n + 1 /\ t[n + 1] = m /\ \A k \in 1..n : t[k] = s[k]
    BY <1>1, <1>2, <1>3, AppendProperties
<1>5. DOMAIN t = 1..(n + 1)
    BY <1>4, LenProperties
<1>6. w = [v EXCEPT ![p] = t]
    BY <1>1, <1>2
<1>7. w[p] = t /\ w \in [Pairs -> Seq(Messages)] /\ \A o \in Pairs : o # p => w[o] = v[o]
    BY <1>4, <1>6
<1>8. Longer(w, v, p, n, m)
    BY <1>1, <1>3, <1>4, <1>5, <1>7 DEF Longer
<1> QED BY <1>7, <1>8

LEMMA SendKeepsCore ==
    ASSUME NetworkInv, NEW f \in Flows, Send(f), NEW q, q = queues', NEW w, w = path'
    PROVE  Carries(q, w) /\ Cardinality(PlacesOf(q)) = Cardinality(PlacesOf(queues)) + f.flits
<1>1. /\ noc \in DOMAIN Machines /\ Held /\ PathsOk(path) /\ Whole(queues, path)
      /\ path \in [Pairs -> Seq(Messages)]
    BY DEF NetworkInv, Carries, Held, PathsOk
<1>2. PICK r, h : Ways(r) /\ Underway(r, h, queues) /\ Ordered(h, queues, path)
    BY DEF NetworkInv, Carries
<1>0. PICK m \in Messages, p \in Pairs :
        /\ \E e : Sends(q, f, m, e) /\ m \notin UnderOf(path)
        /\ p = <<m.src, m.dst>> /\ m.dummy = FALSE
        /\ w = [path EXCEPT ![p] = Append(@, m)]
    BY <1>1, SendIs
<1>3. PICK e :
        /\ Sends(q, f, m, e) /\ m \notin UnderOf(path)
        /\ p = <<m.src, m.dst>> /\ m.dummy = FALSE
        /\ w = [path EXCEPT ![p] = Append(@, m)]
    BY <1>0
<1>4. /\ w \in [Pairs -> Seq(Messages)]
      /\ \A o \in Pairs : o # p => w[o] = path[o]
    BY <1>1, <1>3, AppendIs
<1>5. PICK n \in Nat : /\ DOMAIN path[p] = 1..n /\ DOMAIN w[p] = 1..(n + 1) /\ w[p][n + 1] = m
                       /\ \A k \in 1..n : w[p][k] = path[p][k]
    <2>1. \E n \in Nat : Longer(w, path, p, n, m)
        BY <1>1, <1>3, AppendIs
    <2> QED BY <2>1 DEF Longer
<1>6. \A o \in Pairs : \A k \in DOMAIN w[o] :
        \/ k \in DOMAIN path[o] /\ w[o][k] = path[o][k]
        \/ o = p /\ k = n + 1 /\ w[o][k] = m
    <2> SUFFICES ASSUME NEW o \in Pairs, NEW k \in DOMAIN w[o]
                 PROVE  \/ k \in DOMAIN path[o] /\ w[o][k] = path[o][k]
                        \/ o = p /\ k = n + 1 /\ w[o][k] = m
        OBVIOUS
    <2>1. CASE o # p
        BY <1>4, <2>1
    <2>2. CASE o = p
        <3>1. k \in 1..n \/ k = n + 1
            BY <1>5, <2>2
        <3> QED BY <1>5, <2>2, <3>1
    <2> QED BY <2>1, <2>2
<1>7. PathsOk(w)
    <2>1. ASSUME NEW o \in Pairs, NEW k \in DOMAIN w[o]
          PROVE  w[o][k].src = o[1] /\ w[o][k].dst = o[2] /\ w[o][k].dummy = FALSE
        <3>1. CASE k \in DOMAIN path[o] /\ w[o][k] = path[o][k]
            BY <1>1, <3>1 DEF PathsOk
        <3>2. CASE o = p /\ w[o][k] = m
            BY <1>3, <3>2
        <3> QED BY <1>6, <3>1, <3>2
    <2> QED BY <1>4, <2>1 DEF PathsOk
<1>8. UnderOf(w) = UnderOf(path) \cup {m}
    <2> SUFFICES ASSUME NEW x PROVE x \in UnderOf(w) <=> x \in UnderOf(path) \/ x = m
        OBVIOUS
    <2>1. x \in UnderOf(w) <=> \E o \in Pairs : \E k \in DOMAIN w[o] : x = w[o][k]
        BY DEF UnderOf
    <2>2. x \in UnderOf(path) <=> \E o \in Pairs : \E k \in DOMAIN path[o] : x = path[o][k]
        BY DEF UnderOf
    <2>3. ASSUME NEW o \in Pairs, NEW k \in DOMAIN path[o] PROVE k \in DOMAIN w[o] /\ w[o][k] = path[o][k]
        <3>1. CASE o # p
            BY <1>4, <2>3, <3>1
        <3>2. CASE o = p
            <4>1. k \in 1..n /\ k \in 1..(n + 1)
                BY <1>5, <2>3, <3>2
            <4> QED BY <1>5, <3>2, <4>1
        <3> QED BY <3>1, <3>2
    <2>4. n + 1 \in DOMAIN w[p]
        BY <1>5
    <2> QED BY <1>5, <1>6, <2>1, <2>2, <2>3, <2>4
<1>9. /\ RealOf(q) = RealOf(queues) \cup {e} /\ e \notin RealOf(queues)
      /\ MessageAt(q, e) = m /\ e[1] = Start(m)
      /\ \A z \in RealOf(queues) : MessageAt(q, z) = MessageAt(queues, z) /\ z \in PlacesOf(queues)
    <2>1. RealOf(queues) \subseteq PlacesOf(queues)
        BY DEF RealOf
    <2> QED BY <1>3, <2>1 DEF Sends
<1>10. \A z \in RealOf(queues) : MessageAt(queues, z) \in UnderOf(path) /\ MessageAt(queues, z) # m
    BY <1>1, <1>3 DEF Whole
<1>11. Whole(q, w)
    <2>1. {MessageAt(q, z) : z \in RealOf(q)} = {MessageAt(queues, z) : z \in RealOf(queues)} \cup {m}
        BY <1>9
    <2>2. ASSUME NEW y \in RealOf(q), NEW z \in RealOf(q), MessageAt(q, y) = MessageAt(q, z) PROVE y = z
        <3>1. CASE y = e
            BY <1>9, <1>10, <2>2, <3>1
        <3>2. CASE z = e
            BY <1>9, <1>10, <2>2, <3>2
        <3>3. CASE y # e /\ z # e
            BY <1>1, <1>9, <2>2, <3>3 DEF Whole
        <3> QED BY <3>1, <3>2, <3>3
    <2> QED BY <1>1, <1>8, <2>1, <2>2 DEF Whole
<1>12. PICK i : i = [z \in RealOf(q) |-> IF z = e THEN 0 ELSE h[z]]
    OBVIOUS
<1>13. /\ i[e] = 0
       /\ \A z \in RealOf(queues) : i[z] = h[z] /\ h[z] \in Nat
    <2>1. \A z \in RealOf(queues) : h[z] \in Nat
        BY <1>2 DEF Underway
    <2> QED BY <1>9, <1>12, <2>1
<1>14. Underway(r, i, q)
    <2>1. i \in [RealOf(q) -> Nat]
        BY <1>9, <1>12, <1>13
    <2>2. ASSUME NEW z \in RealOf(q)
          PROVE  /\ z[1] = r[MessageAt(q, z)][i[z]]
                 /\ \A k \in Nat : k < i[z] =>
                      Shape # "crossbar" /\ Out(r[MessageAt(q, z)][k][1], MessageAt(q, z)) \in Links
        <3>1. CASE z = e
            <4>1. r[m][0] = Start(m)
                BY <1>2, <1>3 DEF Ways
            <4>2. \A k \in Nat : ~(k < 0)
                OBVIOUS
            <4> QED BY <1>9, <1>13, <3>1, <4>1, <4>2
        <3>2. CASE z \in RealOf(queues)
            BY <1>2, <1>9, <1>13, <3>2 DEF Underway
        <3> QED BY <1>9, <3>1, <3>2
    <2> QED BY <2>1, <2>2 DEF Underway
<1>15. ASSUME NEW o \in Pairs, NEW a \in DOMAIN w[o], NEW b \in DOMAIN w[o], a < b, w[o][a].class = w[o][b].class,
              NEW y \in RealOf(q), NEW z \in RealOf(q), MessageAt(q, y) = w[o][a], MessageAt(q, z) = w[o][b]
       PROVE  AheadOf(i, y, z)
    <2>1. CASE b \in DOMAIN path[o] /\ w[o][b] = path[o][b]
        <3>1. a \in DOMAIN path[o] /\ w[o][a] = path[o][a]
            <4>1. CASE o # p
                BY <1>4, <1>15, <4>1
            <4>2. CASE o = p
                <5>1. a \in 1..n
                    BY <1>5, <1>15, <2>1, <4>2
                <5> QED BY <1>5, <4>2, <5>1
            <4> QED BY <4>1, <4>2
        <3>2. path[o][a] \in UnderOf(path) /\ path[o][b] \in UnderOf(path)
            BY <2>1, <3>1 DEF UnderOf
        <3>3. y \in RealOf(queues) /\ z \in RealOf(queues)
            BY <1>3, <1>9, <1>15, <2>1, <3>1, <3>2
        <3>4. MessageAt(queues, y) = path[o][a] /\ MessageAt(queues, z) = path[o][b]
            BY <1>9, <1>15, <2>1, <3>1, <3>3
        <3>5. AheadOf(h, y, z)
            BY <1>2, <1>15, <2>1, <3>1, <3>3, <3>4 DEF Ordered
        <3> QED BY <1>13, <3>3, <3>5 DEF AheadOf
    <2>2. CASE o = p /\ b = n + 1 /\ w[o][b] = m
        <3>1. a \in 1..n
            BY <1>5, <1>15, <2>2
        <3>2. w[p][a] = path[p][a] /\ a \in DOMAIN path[p]
            BY <1>5, <3>1
        <3>3. path[p][a] \in UnderOf(path)
            BY <3>2 DEF UnderOf
        <3>4. y \in RealOf(queues) /\ MessageAt(queues, y) = path[p][a]
            BY <1>3, <1>9, <1>15, <2>2, <3>2, <3>3
        <3>5. z = e
            BY <1>9, <1>10, <1>15, <2>2
        <3>6. Alike(path[p][a], m) /\ path[p][a] \in Messages
            <4>1. path[p][a].src = p[1] /\ path[p][a].dst = p[2] /\ p[1] = m.src /\ p[2] = m.dst
                BY <1>1, <1>3, <3>2 DEF PathsOk
            <4>2. path[p][a].class = m.class
                BY <1>15, <2>2, <3>2
            <4>3. path[p] \in Seq(Messages) /\ a \in 1..Len(path[p])
                BY <1>1, <1>5, <3>1, LenProperties
            <4> QED BY <4>1, <4>2, <4>3 DEF Alike
        <3>7. CASE h[y] = 0
            <4>1. y[1] = r[path[p][a]][0]
                BY <1>2, <3>4, <3>7 DEF Underway
            <4>2. y[1] = Start(m)
                BY <1>2, <1>3, <3>6, <4>1 DEF Ways
            <4>3. y[2] < e[2]
                BY <1>3, <1>9, <3>4, <4>2 DEF Sends
            <4> QED BY <1>13, <3>4, <3>5, <3>7, <4>3 DEF AheadOf
        <3>8. CASE h[y] # 0
            <4>1. i[y] \in Nat /\ i[y] # 0
                BY <1>13, <3>4, <3>8
            <4> QED BY <1>13, <3>5, <4>1 DEF AheadOf
        <3> QED BY <3>7, <3>8
    <2> QED BY <1>6, <2>1, <2>2
<1>16. Ordered(i, q, w)
    BY <1>15 DEF Ordered
<1>17. q \in [Slots -> Seq(Messages)] /\ Cardinality(PlacesOf(q)) = Cardinality(PlacesOf(queues)) + f.flits
    BY <1>3 DEF Sends
<1>18. Carries(q, w)
    BY <1>2, <1>7, <1>11, <1>14, <1>16, <1>17 DEF Carries
<1> QED BY <1>17, <1>18

LEMMA SendKeeps ==
    ASSUME NetworkInv, NEW f \in Flows, Send(f)
    PROVE  NetworkInv'
<1>1. PICK q, w : q = queues' /\ w = path'
    OBVIOUS
<1>2. Carries(q, w) /\ Cardinality(PlacesOf(q)) = Cardinality(PlacesOf(queues)) + f.flits
    BY <1>1, SendKeepsCore
<1>3. noc \in DOMAIN Machines /\ noc' = noc /\ token \in Nat /\ token' = token /\ awake' = TRUE
    BY DEF NetworkInv, Send
<1>4. Shape # "crossbar" => count' = Cardinality(PlacesOf(q))
    <2>1. Shape # "crossbar" => count = Cardinality(PlacesOf(queues)) /\ count' = count + f.flits
        BY DEF NetworkInv, Send
    <2> QED BY <1>2, <2>1
<1> QED BY <1>1, <1>2, <1>3, <1>4, Keeps

\* The inductive invariant holds of every network: NothingLost and the orders of arrival
\* follow from it.
THEOREM NetworkInvariance == NetworkSpec => []NetworkInv
<1>1. NetworkInit => NetworkInv
    BY NetworkInitInv
<1>2. NetworkInv /\ [NetworkNext]_network => NetworkInv'
    <2> SUFFICES ASSUME NetworkInv, [NetworkNext]_network PROVE NetworkInv'
        OBVIOUS
    <2>1. CASE \E f \in Flows : Send(f)
        BY <2>1, SendKeeps
    <2>2. CASE PassCrossbar
        BY <2>2, CrossbarKeeps
    <2>3. CASE PassRouters
        BY <2>3, RoutersKeep
    <2>4. CASE UNCHANGED network
        <3>1. PICK q, w : q = queues /\ w = path
            OBVIOUS
        <3>2. noc' = noc /\ queues' = queues /\ token' = token /\ count' = count /\ awake' = awake /\ path' = path
            BY <2>4 DEF network
        <3>3. /\ noc \in DOMAIN Machines /\ token' \in Nat /\ Carries(q, w) /\ q = queues' /\ w = path'
              /\ Shape # "crossbar" => count' = Cardinality(PlacesOf(q))
              /\ PlacesOf(q) # {} => awake'
            BY <3>1, <3>2 DEF NetworkInv
        <3> QED BY <3>2, <3>3, Keeps
    <2> QED BY <2>1, <2>2, <2>3, <2>4 DEF NetworkNext
<1> QED BY <1>1, <1>2, PTL DEF NetworkSpec

\* No step of any network drops a message, doubles it or leaves it where no pass finds it
\* (NothingLost), whatever the machine and its traffic.
THEOREM NoMessageIsLost == NetworkSpec => []NothingLost
<1>1. NetworkInv => NothingLost
    <2> SUFFICES ASSUME NetworkInv PROVE NothingLost
        OBVIOUS
    <2>1. PlacesOf(queues) = Places
        BY DEF PlacesOf, Places
    <2>2. \A z : MessageAt(queues, z) = At(z)
        BY DEF MessageAt, At
    <2>3. RealOf(queues) = Real
        BY <2>1, <2>2 DEF RealOf, Real
    <2>4. UnderOf(path) = UNION {Under(p) : p \in Pairs}
        BY DEF UnderOf, Under
    <2>5. Whole(queues, path)
        BY DEF NetworkInv, Carries
    <2> QED BY <2>1, <2>2, <2>3, <2>4, <2>5 DEF NetworkInv, NothingLost, Whole
<1> QED BY <1>1, NetworkInvariance, PTL

-------------------------------------------------------------------------------------
(* The order of arrival *)

LEMMA DeliveredIs ==
    ASSUME PathsOk(path), NEW gone, Arrive(gone), NEW p \in Pairs, NEW k \in DOMAIN path[p]
    PROVE  k \in Delivered(p) <=> \E z \in gone : At(z) = path[p][k]
<1>1. path \in [Pairs -> Seq(Messages)] /\ path' = LeftOf(path, gone)
    BY DEF PathsOk, Arrive, LeftOf
<1>2. PICK t : t = LeftOf(path, gone)[p]
    OBVIOUS
<1>3. PICK e : LeftBy(t, e, path[p], gone)
    BY <1>1, <1>2, LeftIs
<1>4. Under(p)' = {t[l] : l \in DOMAIN t}
    BY <1>1, <1>2 DEF Under
<1>5. k \in Delivered(p) <=> \A l \in DOMAIN t : t[l] # path[p][k]
    BY <1>4 DEF Delivered
<1>6. ASSUME NEW z \in gone, At(z) = path[p][k], NEW l \in DOMAIN t PROVE t[l] # path[p][k]
    BY <1>3, <1>6 DEF LeftBy
<1>7. ASSUME \A z \in gone : At(z) # path[p][k] PROVE \E l \in DOMAIN t : t[l] = path[p][k]
    <2>1. PICK l \in DOMAIN t : e[l] = k
        BY <1>3, <1>7 DEF LeftBy
    <2>2. t[l] = path[p][e[l]]
        BY <1>3 DEF LeftBy
    <2> QED BY <2>1, <2>2
<1> QED BY <1>5, <1>6, <1>7

LEMMA SendDeliversNothing ==
    ASSUME NetworkInv, NEW f \in Flows, Send(f), NEW p \in Pairs
    PROVE  Delivered(p) = {}
<1>1. /\ noc \in DOMAIN Machines /\ Held /\ PathsOk(path) /\ path \in [Pairs -> Seq(Messages)]
    BY DEF NetworkInv, Carries, Held, PathsOk
<1>2. PICK q, w : q = queues' /\ w = path'
    OBVIOUS
<1>3. PICK m \in Messages, o \in Pairs : w = [path EXCEPT ![o] = Append(@, m)]
    BY <1>1, <1>2, SendIs
<1>4. \A x \in Pairs : x # o => w[x] = path[x]
    BY <1>1, <1>3, AppendIs
<1>5. \E n \in Nat : Longer(w, path, o, n, m)
    BY <1>1, <1>3, AppendIs
<1>6. PICK n \in Nat : Longer(w, path, o, n, m)
    BY <1>5
<1>7. ASSUME NEW k \in DOMAIN path[p] PROVE path[p][k] \in Under(p)'
    <2>1. Under(p)' = {w[p][l] : l \in DOMAIN w[p]}
        BY <1>2 DEF Under
    <2>2. k \in DOMAIN w[p] /\ w[p][k] = path[p][k]
        <3>1. CASE p # o
            BY <1>4, <3>1
        <3>2. CASE p = o
            <4>1. k \in 1..n /\ k \in 1..(n + 1)
                BY <1>6, <3>2 DEF Longer
            <4> QED BY <1>6, <3>2, <4>1 DEF Longer
        <3> QED BY <3>1, <3>2
    <2> QED BY <2>1, <2>2
<1> QED BY <1>7 DEF Delivered

\* What is still to come of a path is at just one place.
LEMMA IsAtPlace ==
    ASSUME NetworkInv, NEW p \in Pairs, NEW k \in DOMAIN path[p]
    PROVE  \E z \in RealOf(queues) : z \in Places /\ At(z) = path[p][k] /\ At(z) \in Messages
<1>1. noc \in DOMAIN Machines /\ Held /\ Whole(queues, path)
    BY DEF NetworkInv, Carries, Held
<1>2. path[p][k] \in UnderOf(path)
    BY DEF UnderOf
<1>3. PICK z \in RealOf(queues) : MessageAt(queues, z) = path[p][k]
    BY <1>1, <1>2 DEF Whole
<1>4. z \in Places
    BY DEF RealOf, PlacesOf, Places
<1> QED BY <1>1, <1>3, <1>4, PlaceIs DEF MessageAt, At

\* Where they are says in which order they were sent.
LEMMA OrderedPlaces ==
    ASSUME NetworkInv, NEW r, NEW h, Ways(r), Underway(r, h, queues), Ordered(h, queues, path),
           NEW p \in Pairs, NEW i \in DOMAIN path[p], NEW j \in DOMAIN path[p], i < j,
           path[p][i].class = path[p][j].class,
           NEW y \in RealOf(queues), NEW z \in RealOf(queues), At(y) = path[p][i], At(z) = path[p][j]
    PROVE  /\ h[y] \in Nat /\ h[z] \in Nat /\ AheadOf(h, y, z)
           /\ Alike(At(y), At(z)) /\ At(y) \in Messages /\ At(z) \in Messages /\ r[At(y)] = r[At(z)]
           /\ y \in Places /\ z \in Places
           /\ y[1] = r[At(y)][h[y]] /\ z[1] = r[At(z)][h[z]]
<1>1. noc \in DOMAIN Machines /\ Held /\ PathsOk(path)
    BY DEF NetworkInv, Carries, Held
<1>2. \A x : MessageAt(queues, x) = At(x)
    BY DEF MessageAt, At
<1>3. y \in Places /\ z \in Places
    BY DEF RealOf, PlacesOf, Places
<1>4. At(y) \in Messages /\ At(z) \in Messages
    BY <1>1, <1>3, PlaceIs
<1>5. Alike(At(y), At(z))
    BY <1>1 DEF PathsOk, Alike
<1>6. h[y] \in Nat /\ h[z] \in Nat /\ y[1] = r[At(y)][h[y]] /\ z[1] = r[At(z)][h[z]]
    BY <1>2 DEF Underway
<1>7. AheadOf(h, y, z)
    BY <1>2 DEF Ordered
<1> QED BY <1>3, <1>4, <1>5, <1>6, <1>7 DEF Ways

\* In a crossbar no message has hopped.
LEMMA NoHops ==
    ASSUME Shape = "crossbar", NEW r, NEW h, Underway(r, h, queues), NEW z \in RealOf(queues)
    PROVE  h[z] = 0
<1>1. h[z] \in Nat /\ \A n \in Nat : n < h[z] => FALSE
    BY DEF Underway
<1>2. ~(0 < h[z])
    BY <1>1
<1> QED BY <1>1, <1>2

\* The crossbar grants first what it serves before.
LEMMA CrossbarFirst ==
    ASSUME NetworkInv, Shape = "crossbar", NEW p \in Pairs, NEW i \in DOMAIN path[p], NEW j \in DOMAIN path[p], i < j,
           Rank(path[p][i].class) <= Rank(path[p][j].class),
           NEW y \in RealOf(queues), NEW z \in RealOf(queues), At(y) = path[p][i], At(z) = path[p][j]
    PROVE  y \in Before(z) /\ Exit(At(y)) = Exit(At(z))
<1>1. noc \in DOMAIN Machines /\ Held /\ PathsOk(path)
    BY DEF NetworkInv, Carries, Held
<1>2. PICK r, h : Ways(r) /\ Underway(r, h, queues) /\ Ordered(h, queues, path)
    BY DEF NetworkInv, Carries
<1>3. y \in Places /\ z \in Places
    BY DEF RealOf, PlacesOf, Places
<1>4. PICK m \in Messages, n \in Messages : m = At(y) /\ n = At(z)
    BY <1>1, <1>3, PlaceIs
<1>5. m.src = n.src /\ m.dst = n.dst
    BY <1>1, <1>4 DEF PathsOk
<1>6. Exit(m) = Exit(n)
    BY <1>1, <1>5, Wiring
<1>7. y[1] = Start(m) /\ z[1] = Start(n)
    <2>1. h[y] = 0 /\ h[z] = 0
        BY <1>2, NoHops
    <2>2. y[1] = r[MessageAt(queues, y)][0] /\ z[1] = r[MessageAt(queues, z)][0]
        BY <1>2, <2>1 DEF Underway
    <2>3. MessageAt(queues, y) = m /\ MessageAt(queues, z) = n
        BY <1>4 DEF MessageAt, At
    <2> QED BY <1>2, <2>2, <2>3 DEF Ways
<1>8. y[1][2] = z[1][2] /\ y[1][3] = m.class /\ z[1][3] = n.class
    BY <1>5, <1>7 DEF Start
<1>9. y \in Waiting(z[1][2])
    BY <1>3, <1>8 DEF Waiting
<1>10. Rank(m.class) <= Rank(n.class)
    BY <1>4
<1>11. m.class \in UsedClasses /\ n.class \in UsedClasses
    <2>1. y[1] \in Slots /\ z[1] \in Slots
        BY <1>1, <1>3, PlaceIs
    <2> QED BY <1>1, <1>8, <2>1, SlotIs
<1>12. /\ Rank(m.class) \in 1..7 /\ Classes[Rank(m.class)] = m.class
       /\ Rank(n.class) \in 1..7 /\ Classes[Rank(n.class)] = n.class
    BY <1>1, <1>11, RankIs
<1>13. CASE Rank(m.class) < Rank(n.class)
    BY <1>4, <1>6, <1>8, <1>9, <1>13 DEF Before
<1>14. CASE Rank(m.class) = Rank(n.class)
    <2>1. m.class = n.class
        BY <1>12, <1>14
    <2>2. AheadOf(h, y, z) /\ h[y] = 0 /\ h[z] = 0
        BY <1>2, <1>4, <2>1, NoHops, OrderedPlaces
    <2>3. y[2] < z[2]
        BY <2>2 DEF AheadOf
    <2>4. y[1] = z[1]
        BY <1>5, <1>7, <2>1 DEF Start
    <2> QED BY <1>4, <1>6, <1>9, <2>3, <2>4 DEF Before
<1> QED BY <1>10, <1>12, <1>13, <1>14

LEMMA CrossbarKeepsRank ==
    ASSUME NetworkInv, PassCrossbar, NEW p \in Pairs, NEW j \in Delivered(p), NEW i \in 1..(j - 1),
           Rank(path[p][i].class) <= Rank(path[p][j].class)
    PROVE  i \in Delivered(p)
<1>1. noc \in DOMAIN Machines /\ Held /\ PathsOk(path) /\ path \in [Pairs -> Seq(Messages)]
    BY DEF NetworkInv, Carries, Held, PathsOk
<1>2. PICK gone : gone = Granted /\ Arrive(gone)
    BY DEF PassCrossbar
<1>3. Shape = "crossbar"
    BY DEF PassCrossbar
<1>4. j \in DOMAIN path[p] /\ i \in DOMAIN path[p] /\ i < j
    <2>1. PICK l \in Nat : DOMAIN path[p] = 1..l
        BY <1>1, LenProperties
    <2>2. j \in 1..l
        BY <2>1 DEF Delivered
    <2> QED BY <2>1, <2>2
<1>5. Fair(2 * Ports, gone)
    BY <1>1, <1>2, GrantedIsFair
<1>6. PICK z \in gone : At(z) = path[p][j]
    BY <1>1, <1>2, <1>4, DeliveredIs
<1>7. PICK y \in RealOf(queues) : y \in Places /\ At(y) = path[p][i]
    BY <1>4, IsAtPlace
<1>8. z \in RealOf(queues)
    <2>1. z \in Places
        BY <1>5 DEF Fair
    <2>2. At(z).dummy = FALSE
        BY <1>1, <1>4, <1>6 DEF PathsOk
    <2> QED BY <2>1, <2>2 DEF RealOf, PlacesOf, Places, MessageAt, At
<1>9. y \in Before(z) /\ Exit(At(y)) = Exit(At(z))
    BY <1>3, <1>4, <1>6, <1>7, <1>8, CrossbarFirst
<1> QED BY <1>5, <1>9 DEF Fair

\* A crossbar lets no message overtake one of the same path that is as urgent or more
\* (KeepsRank).
THEOREM NoneIsOvertakenByLessUrgent == NetworkSpec => KeepsRank
<1> DEFINE A == Shape = "crossbar" =>
                  \A p \in Pairs : \A j \in Delivered(p) : \A i \in 1..(j - 1) :
                    Rank(path[p][i].class) <= Rank(path[p][j].class) => i \in Delivered(p)
<1>1. NetworkInv /\ [NetworkNext]_network => [A]_network
    <2> SUFFICES ASSUME NetworkInv, NetworkNext PROVE A
        OBVIOUS
    <2>1. CASE \E f \in Flows : Send(f)
        BY <2>1, SendDeliversNothing
    <2>2. CASE PassCrossbar
        BY <2>2, CrossbarKeepsRank
    <2>3. CASE PassRouters
        BY <2>3 DEF PassRouters
    <2> QED BY <2>1, <2>2, <2>3 DEF NetworkNext
<1> QED BY <1>1, NetworkInvariance, PTL DEF NetworkSpec, KeepsRank

LEMMA RoutersKeepOrder ==
    ASSUME NetworkInv, PassRouters, NEW p \in Pairs, NEW j \in Delivered(p), NEW i \in 1..(j - 1),
           path[p][i].class = path[p][j].class
    PROVE  i \in Delivered(p)
<1>1. noc \in DOMAIN Machines /\ Held /\ PathsOk(path) /\ path \in [Pairs -> Seq(Messages)] /\ token \in Nat
    BY DEF NetworkInv, Carries, Held, PathsOk
<1>2. PICK done, moved, gone : /\ done = [k \in Nodes |-> Routed(k)] /\ moved = Moved(done)
                               /\ gone = Leaving(done) /\ Arrive(gone)
    BY DEF PassRouters
<1>3. \A k \in Nodes : Log(k, done[k])
    BY <1>1, <1>2, RoutedIsLog
<1>4. j \in DOMAIN path[p] /\ i \in DOMAIN path[p] /\ i < j
    <2>1. PICK l \in Nat : DOMAIN path[p] = 1..l
        BY <1>1, LenProperties
    <2>2. j \in 1..l
        BY <2>1 DEF Delivered
    <2> QED BY <2>1, <2>2
<1>5. PICK z \in gone : At(z) = path[p][j]
    BY <1>1, <1>2, <1>4, DeliveredIs
<1>6. /\ z \in moved /\ z \in Places /\ Out(z[1][1], At(z)) \notin Links
      /\ \A x \in Places : x[1] = z[1] /\ x[2] < z[2] => x \in moved
      /\ \A x \in moved : Out(x[1][1], At(x)) \notin Links => x \in gone
    BY <1>1, <1>2, <1>3, MovedIs
<1>7. z \in RealOf(queues)
    <2>1. At(z).dummy = FALSE
        BY <1>1, <1>4, <1>5 DEF PathsOk
    <2> QED BY <1>6, <2>1 DEF RealOf, PlacesOf, Places, MessageAt, At
<1>8. PICK y \in RealOf(queues) : y \in Places /\ At(y) = path[p][i]
    BY <1>4, IsAtPlace
<1>9. PICK r, h : Ways(r) /\ Underway(r, h, queues) /\ Ordered(h, queues, path)
    BY DEF NetworkInv, Carries
<1>10. /\ h[y] \in Nat /\ h[z] \in Nat /\ AheadOf(h, y, z)
       /\ Alike(At(y), At(z)) /\ r[At(y)] = r[At(z)]
       /\ y[1] = r[At(y)][h[y]] /\ z[1] = r[At(z)][h[z]]
    BY <1>4, <1>5, <1>7, <1>8, <1>9, OrderedPlaces
<1>11. \A k : Out(k, At(y)) = Out(k, At(z))
    <2>1. At(y).dst = At(z).dst /\ At(y).class = At(z).class
        BY <1>10 DEF Alike
    <2>2. Exit(At(y)) = Exit(At(z))
        BY <2>1, Zenon DEF Exit
    <2> QED BY <2>1, <2>2, Zenon DEF Out
<1>12. ASSUME h[z] < h[y] PROVE FALSE
    <2>1. MessageAt(queues, y) = At(y)
        BY DEF MessageAt, At
    <2>2. Out(r[At(y)][h[z]][1], At(y)) \in Links
        BY <1>9, <1>10, <1>12, <2>1 DEF Underway
    <2>3. Out(z[1][1], At(z)) \in Links
        BY <1>10, <1>11, <2>2
    <2> QED BY <1>6, <2>3
<1>13. h[z] = h[y] /\ y[2] < z[2] /\ y[1] = z[1]
    BY <1>10, <1>12 DEF AheadOf
<1>14. y \in gone
    BY <1>6, <1>8, <1>11, <1>13
<1> QED BY <1>1, <1>2, <1>4, <1>8, <1>14, DeliveredIs

\* Messages of one class between two components arrive in the order in which they were
\* sent (KeepsOrder), through any crossbar, mesh or ring.
THEOREM NoneIsOvertaken == NetworkSpec => KeepsOrder
<1> DEFINE A == \A p \in Pairs : \A j \in Delivered(p) : \A i \in 1..(j - 1) :
                  path[p][i].class = path[p][j].class => i \in Delivered(p)
<1>1. NetworkInv /\ [NetworkNext]_network => [A]_network
    <2> SUFFICES ASSUME NetworkInv, NetworkNext, NEW p \in Pairs, NEW j \in Delivered(p), NEW i \in 1..(j - 1),
                        path[p][i].class = path[p][j].class
                 PROVE  i \in Delivered(p)
        OBVIOUS
    <2>1. CASE \E f \in Flows : Send(f)
        BY <2>1, SendDeliversNothing
    <2>2. CASE PassCrossbar
        <3>1. Rank(path[p][i].class) \in Int
            <4>1. noc \in DOMAIN Machines /\ path \in [Pairs -> Seq(Messages)]
                BY DEF NetworkInv, Carries, PathsOk
            <4>2. PICK l \in Nat : DOMAIN path[p] = 1..l
                BY <4>1, LenProperties
            <4>3. j \in 1..l /\ i \in DOMAIN path[p]
                BY <4>2 DEF Delivered
            <4>4. PICK z \in RealOf(queues) : At(z) = path[p][i] /\ At(z) \in Messages
                BY <4>3, IsAtPlace
            <4>5. At(z).class \in UsedClasses
                BY <4>1, <4>4, MessageIs, Built
            <4> QED BY <4>1, <4>4, <4>5, RankIs
        <3>2. Rank(path[p][i].class) <= Rank(path[p][j].class)
            BY <3>1
        <3> QED BY <2>2, <3>2, CrossbarKeepsRank
    <2>3. CASE PassRouters
        BY <2>3, RoutersKeepOrder
    <2> QED BY <2>1, <2>2, <2>3 DEF NetworkNext
<1> QED BY <1>1, NetworkInvariance, PTL DEF NetworkSpec, KeepsOrder
======================================================================================
