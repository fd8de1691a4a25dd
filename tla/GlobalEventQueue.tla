------------------------------- MODULE GlobalEventQueue -------------------------------
(* The discrete-event engine of McSim (PTSComponent.cc, McSim::resume_simulation): the *)
(* map from a time to the set of components to process at it.  Two kinds of component  *)
(* are driven by it.  A core (O3Core) is erased from the map before it is processed,   *)
(* may schedule itself again at the very time being processed, and hands control back *)
(* to the front-end when its instruction queue runs low.  A unit (Directory, CacheL2   *)
(* and CacheL3 share the code) is erased after it is processed, keeps the messages     *)
(* sent to it in the multimaps req_event and rep_event until their time comes and in   *)
(* the queues req_q and rep_q from then on, and serves one message at a time.          *)
EXTENDS Naturals, Sequences

CONSTANTS
    Core, Unit,   \* the components
    First,        \* the core of the first thread of the first program
    Started,      \* the cores of the first threads of the other programs
    NoCore,       \* num_hthreads: process_event() goes on
    Message,      \* the LocalQueueElements
    Owner,        \* Owner[m]: the core that issues message m
    Interval,     \* Interval[c]: process_interval of component c
    Latency,      \* the latencies (l2_to_dir_t, dir_to_l2_t, ...) of the machine
    MaxTime,      \* bound: the last time an event is scheduled at
    MaxHops,      \* bound: how often a message is sent on, all its trips together
    MaxFills      \* bound: how often the front-end feeds a core

Component == Core \cup Unit
Time      == 0..MaxTime
Kind      == {"req", "rep"}
Load      == {"empty", "low", "full"}

ASSUME EventQueueAssumption ==
    /\ Core \cap Unit = {}
    /\ NoCore \notin Core
    /\ First \in Core /\ Started \subseteq Core \ {First}
    /\ Owner \in [Message -> Core]
    /\ Interval \in [Component -> Nat \ {0}]
    /\ Latency \subseteq Nat \ {0}
    /\ \A c \in Started : Interval[c] \in Time
    /\ MaxTime \in Nat /\ MaxHops \in Nat /\ MaxFills \in Nat

VARIABLES
    event_queue,  \* event_queue[t]: the components to process at time t
    curr_time,
    events,       \* events[k][u][t]: req_event or rep_event of unit u, messages due at t
    queue,        \* queue[k][u]: req_q or rep_q of unit u
    out,          \* out[m]: the message is with some unit
    hops,         \* hops[m]: how often it was sent
    load,         \* load[c]: the o3queue of core c: empty, up to half full or more
    active,       \* active[c]: the thread of core c can run in the front-end
    returned,     \* the core whose thread the front-end is to run, or NoCore
    fills         \* fills[c]: how often the front-end fed core c

vars == <<event_queue, curr_time, events, queue, out, hops, load, active, returned, fills>>

\* Messages, loads and counts keep their types and simulated time its bound.
TypeOK ==
    /\ event_queue \in [Time -> SUBSET Component]
    /\ curr_time \in Time
    /\ events \in [Kind -> [Unit -> [Time -> Seq(Message)]]]
    /\ queue \in [Kind -> [Unit -> Seq(Message)]]
    /\ out \in [Message -> BOOLEAN]
    /\ hops \in [Message -> 0..MaxHops]
    /\ load \in [Core -> Load]
    /\ active \in [Core -> BOOLEAN]
    /\ returned \in Core \cup {NoCore}
    /\ fills \in [Core -> 0..MaxFills]

(* main.cc:186-193: the first thread of the first program runs; those of the other    *)
(* programs are active and have an instruction.                                      *)
Init ==
    /\ event_queue = [t \in Time |-> {c \in Started : t = Interval[c]}]
    /\ curr_time = 0
    /\ events = [k \in Kind |-> [u \in Unit |-> [t \in Time |-> <<>>]]]
    /\ queue = [k \in Kind |-> [u \in Unit |-> <<>>]]
    /\ out = [m \in Message |-> FALSE]
    /\ hops = [m \in Message |-> 0]
    /\ load = [c \in Core |-> IF c \in Started THEN "low" ELSE "empty"]
    /\ active = [c \in Core |-> c \in Started \cup {First}]
    /\ returned = First
    /\ fills = [c \in Core |-> 0]

-------------------------------------------------------------------------------------
\* add_event() for every <<time, component>> of a set, and erase().
Inserted(q, adds)  == [t \in Time |-> q[t] \cup {c \in Component : <<t, c>> \in adds}]
Erased(q, t, c)    == [q EXCEPT ![t] = @ \ {c}]

\* Mutant of AfterCore: the event of a core is erased after its turn, as a unit's is.
ErasedLast(q, t, c, adds) == Erased(Inserted(q, adds), t, c)

\* The map after component c was processed at t and scheduled adds meanwhile.
AfterCore(q, t, c, adds) == Inserted(Erased(q, t, c), adds)
AfterUnit(q, t, u, adds) == Erased(Inserted(q, adds), t, u)

\* Mutant of Align: events at any time, as in CacheL1.
Unaligned(t, p) == t

\* The first time at or after t at which a component of interval p is processed.
Align(t, p) == IF t % p # 0 THEN t + p - (t % p) ELSE t

Earliest(t) == event_queue[t] # {} /\ \A s \in Time : s < t => event_queue[s] = {}
Quiet       == \A t \in Time : event_queue[t] = {}

Sent(e, k, v, at, m) == [e EXCEPT ![k][v][at] = Append(@, m)]

-------------------------------------------------------------------------------------
(* O3Core::process_event with the instruction queue at most half full and the thread *)
(* able to run: the core keeps its turn and the front-end is to run its thread.      *)
Fetches(c) == load[c] # "full" /\ active[c]

Fetch(c, t) ==
    /\ Fetches(c)
    /\ event_queue' = AfterCore(event_queue, t, c, {<<t, c>>})
    /\ returned' = c
    /\ UNCHANGED <<events, queue, out, hops, load, active, fills>>

\* What is left of the instruction queue after a core has run.
Lighter(l) == IF l = "full" THEN "low" ELSE "empty"

\* The core has no more to do until an answer arrives or the front-end feeds it.
Awaits(c) == load'[c] = "empty" \/ \E m \in Message : Owner[m] = c /\ out'[m]

(* Otherwise the core runs what it has, which may send a message, and schedules its  *)
(* next turn unless it has to wait.                                                  *)
Run(c, t) ==
    /\ ~Fetches(c)
    /\ load' = [load EXCEPT ![c] = Lighter(@)]
    /\ \E again \in BOOLEAN :
          LET mine == IF again THEN {<<t + Interval[c], c>>} ELSE {} IN
          /\ again => load'[c] # "empty" /\ t + Interval[c] \in Time
          /\ \/ /\ event_queue' = AfterCore(event_queue, t, c, mine)
                /\ UNCHANGED <<events, out, hops>>
             \/ \E m \in Message, u \in Unit, l \in Latency :
                   LET at == Align(t + l, Interval[u]) IN
                   /\ load[c] # "empty" /\ Owner[m] = c /\ ~out[m] /\ hops[m] < MaxHops
                   /\ at \in Time
                   /\ event_queue' = AfterCore(event_queue, t, c, mine \cup {<<at, u>>})
                   /\ events' = Sent(events, "req", u, at, m)
                   /\ out' = [out EXCEPT ![m] = TRUE]
                   /\ hops' = [hops EXCEPT ![m] = @ + 1]
          /\ again \/ Awaits(c)
    /\ UNCHANGED <<queue, active, returned, fills>>

\* What unit u can serve at t, in order, and the queue it serves: replies come first.
Ready(u, t)  == [k \in Kind |-> queue[k][u] \o events[k][u][t]]
Served(u, t) == IF Ready(u, t)["rep"] # <<>> THEN "rep" ELSE "req"
Left(u, t)   == [Ready(u, t) EXCEPT ![Served(u, t)] = Tail(@)]

\* Mutant of Again: the unit is not scheduled for what it could not serve.
NotAgain(u, t, left) == {}

\* The unit is scheduled again for what it could not serve.
Again(u, t, left) == IF \E k \in Kind : left[k] # <<>> THEN {<<t + Interval[u], u>>} ELSE {}

Cleared(u, t) == [k \in Kind |-> [events[k] EXCEPT ![u][t] = <<>>]]

(* process_event of a unit: it moves the messages due into its queues, takes one and *)
(* answers its core (a NACK is an answer) or sends it to a unit, itself included.    *)
(* With nothing to serve the code stops on an assertion (PTSDirectory.cc:215).       *)
Serve(u, t) ==
    LET left == Left(u, t)
        m    == Head(Ready(u, t)[Served(u, t)])
        more == Again(u, t, left)
    IN
    /\ Ready(u, t)[Served(u, t)] # <<>>
    /\ \A a \in more : a[1] \in Time
    /\ queue' = [k \in Kind |-> [queue[k] EXCEPT ![u] = left[k]]]
    /\ \/ \E l \in Latency :
             LET at == Align(t + l, Interval[Owner[m]]) IN
             /\ at \in Time
             /\ event_queue' = AfterUnit(event_queue, t, u, more \cup {<<at, Owner[m]>>})
             /\ events' = Cleared(u, t)
             /\ out' = [out EXCEPT ![m] = FALSE]
             /\ UNCHANGED hops
       \/ \E k \in Kind, v \in Unit, l \in Latency :
             LET at == Align(t + l, Interval[v]) IN
             /\ at \in Time
             /\ hops[m] < MaxHops
             /\ event_queue' = AfterUnit(event_queue, t, u, more \cup {<<at, v>>})
             /\ events' = Sent(Cleared(u, t), k, v, at, m)
             /\ hops' = [hops EXCEPT ![m] = @ + 1]
             /\ UNCHANGED out
    /\ UNCHANGED <<load, active, returned, fills>>

(* One turn of the loop of GlobalEventQueue::process_event: a component of the       *)
(* earliest time, whichever comes first in the set (it is ordered by address).       *)
Process(c, t) ==
    /\ returned = NoCore
    /\ Earliest(t)
    /\ c \in event_queue[t]
    /\ curr_time' = t
    /\ IF c \in Core THEN Fetch(c, t) \/ Run(c, t) ELSE Serve(c, t)

(* The front-end runs the thread of the core: it fills the instruction queue, or the *)
(* thread blocks or ends (set_active).  Threads it creates or unblocks are made       *)
(* active and given a first instruction (AddThread, UnblockThread).  add_instruction *)
(* schedules a core whose queue was empty.                                           *)
FrontEnd(c) ==
    /\ returned = c
    /\ returned' = NoCore
    /\ \/ /\ fills[c] < MaxFills
          /\ fills' = [fills EXCEPT ![c] = @ + 1]
          /\ \E woken \in SUBSET {d \in Core \ {c} : ~active[d]}, fed \in BOOLEAN :
                LET given == IF fed THEN woken \cup {c} ELSE woken
                    first == {d \in given : load[d] = "empty"}
                IN
                /\ \A d \in first : curr_time + Interval[d] \in Time
                /\ load' = [d \in Core |-> IF fed /\ d = c THEN "full"
                                           ELSE IF d \in first THEN "low" ELSE load[d]]
                /\ active' = [d \in Core |-> IF d = c THEN fed ELSE d \in woken \/ active[d]]
                /\ event_queue' =
                       Inserted(event_queue, {<<curr_time + Interval[d], d>> : d \in first})
       \/ /\ active' = [active EXCEPT ![c] = FALSE]
          /\ UNCHANGED <<load, fills, event_queue>>
    /\ UNCHANGED <<curr_time, events, queue, out, hops>>

\* No event and no thread that can run: the simulation is over.
Finished ==
    /\ returned = NoCore /\ Quiet /\ \A c \in Core : ~active[c]
    /\ UNCHANGED vars

Next ==
    \/ \E c \in Component, t \in Time : Process(c, t)
    \/ \E c \in Core : FrontEnd(c)
    \/ Finished

Spec == Init /\ [][Next]_vars /\ WF_vars(Next)

-------------------------------------------------------------------------------------
Due(u, t) == \E k \in Kind : events[k][u][t] # <<>>
Queued(u) == \E k \in Kind : queue[k][u] # <<>>

(* No message is stranded: a unit is scheduled at the time of every message it holds *)
(* in req_event or rep_event (PTSDirectory.cc:144, 158) and, as long as one waits in *)
(* req_q or rep_q, at some time to come (PTSDirectory.cc:225-228).                   *)
NothingStranded ==
    \A u \in Unit :
        /\ \A t \in Time : Due(u, t) => t >= curr_time /\ u \in event_queue[t]
        /\ Queued(u) => \E t \in Time : t >= curr_time /\ u \in event_queue[t]

(* A unit that is processed always has something to serve: what the assertion at     *)
(* PTSDirectory.cc:215 (and PTSCache.cc:1771) says.  It needs messages to arrive at  *)
(* multiples of process_interval: one that came between two turns would be served in *)
(* place of a queued one, whose turn would then find the queue empty.                *)
NeverWokenForNothing ==
    \A u \in Unit, t \in Time : u \in event_queue[t] => Due(u, t) \/ Queued(u)

(* A core with instructions left, or whose thread can run, is scheduled, awaits an   *)
(* answer, or is empty and its thread running: it never sleeps, although process_event *)
(* erases its event before it runs (PTSComponent.cc:217) and it re-adds it at the    *)
(* same time (PTSO3Core.cc:202).  So resume_simulation never has to look for an      *)
(* active core that no event would bring back (McSim.cc:716-790).                    *)
NoCoreForgotten ==
    \A c \in Core : load[c] # "empty" \/ active[c] =>
        \/ \E t \in Time : t >= curr_time /\ c \in event_queue[t]
        \/ \E m \in Message : Owner[m] = c /\ out[m]
        \/ returned = c /\ load[c] = "empty"

\* Simulated time never goes back: nothing is scheduled before curr_time.
TimeNeverGoesBack == [][curr_time' >= curr_time]_vars

\* Every message is answered in the end.
Answered == \A m \in Message : out[m] ~> ~out[m]

-------------------------------------------------------------------------------------
(* The inductive invariant.  The turns of a unit, T, and the times messages are due,  *)
(* D, are orderly at time now if turns lie ahead, at multiples of the interval p, and  *)
(* the one turn that is there for the queues alone is the next and at most p away, so *)
(* that nothing drains the queues before it.                                          *)
Orderly(T, D, queued, now, p) ==
    /\ D \subseteq T
    /\ queued => T # {}
    /\ \A t \in T :
          /\ t >= now
          /\ t % p = 0
          /\ t \notin D => queued /\ t <= now + p /\ \A s \in T : t <= s

Turns(u)    == {t \in Time : u \in event_queue[t]}
DueTimes(u) == {t \in Time : Due(u, t)}

UnitsOrderly ==
    \A u \in Unit : Orderly(Turns(u), DueTimes(u), Queued(u), curr_time, Interval[u])

EventsAhead == \A t \in Time : event_queue[t] # {} => t >= curr_time

IInv == TypeOK /\ EventsAhead /\ UnitsOrderly /\ NoCoreForgotten
=====================================================================================
