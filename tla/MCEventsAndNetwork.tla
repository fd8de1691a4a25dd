------------------------- MODULE MCEventsAndNetwork -------------------------
(* The event queue and the network on chip, as EventsAndNetworkProofs has them: they    *)
(* share no variable, and in a behaviour of this module one of them is at work.        *)
(*                                                                                      *)
(* The queue: two cores and two units of different process intervals, one of them not   *)
(* dividing the other's latency, and two messages of different cores.                   *)
(* The network: a crossbar of two ports, a mesh of two by two, and rings of four nodes  *)
(* whose ports let one or two messages through in a pass.                               *)
EXTENDS GlobalEventQueue, Network, TLC

CONSTANTS c1, c2, u1, u2, m1, m2

MCCore == {c1, c2}
MCStarted == {c2}
MCUnit == {u1, u2}
MCMessage == {m1, m2}
MCOwner == (m1 :> c1) @@ (m2 :> c2)
MCInterval == (c1 :> 1) @@ (c2 :> 2) @@ (u1 :> 2) @@ (u2 :> 3)
MCLatency == {1}

Flow(s, d, c, n) == [src |-> s, dst |-> d, class |-> c, flits |-> n]

TwoPorts == [l2_0 |-> <<0, 0>>, dir_0 |-> <<0, 0>>, l2_1 |-> <<0, 1>>, dir_1 |-> <<0, 1>>]
Own(at)  == [e \in DOMAIN at |-> at[e][2]]

MCCrossbar ==
  Machine("crossbar", {0}, 2, 1, TwoPorts, Own(TwoPorts),
    {Flow("l2_0", "dir_1", "req", 1), Flow("l2_1", "dir_1", "req", 1),
     Flow("l2_0", "dir_1", "rep", 2), Flow("l2_0", "dir_0", "rep", 1)})

Square == [l2_0 |-> <<<<0, 0>>, 4>>, l2_1 |-> <<<<0, 1>>, 4>>, l2_2 |-> <<<<1, 0>>, 4>>,
           dir_0 |-> <<<<1, 1>>, 5>>]

MCMesh ==
  Machine("mesh", {<<0, 0>>, <<0, 1>>, <<1, 0>>, <<1, 1>>}, 6, 1, Square, Own(Square),
    {Flow("l2_0", "dir_0", "req", 1), Flow("l2_1", "dir_0", "req", 1),
     Flow("l2_0", "dir_0", "rep", 2), Flow("dir_0", "l2_2", "crq", 1)})

\* Nodes 0 to 2 have an L2, a slice of the L3 and its directory, node 3 the memory
\* controller; requests to a directory leave through the port of its L3.
Circle == [l2_0 |-> <<0, 2>>, l2_1 |-> <<1, 2>>, l3_2 |-> <<2, 3>>, dir_1 |-> <<1, 4>>,
           dir_2 |-> <<2, 4>>, mc |-> <<3, 2>>]
CircleExit == [e \in DOMAIN Circle |-> IF e \in {"dir_1", "dir_2"} THEN 3 ELSE Circle[e][2]]

MCRing ==
  Machine("ring", 0..3, 5, 1, Circle, CircleExit,
    {Flow("l2_0", "dir_2", "req", 1), Flow("l2_1", "dir_2", "req", 1),
     Flow("l2_0", "dir_2", "rep", 2), Flow("dir_2", "l2_0", "crq", 1)})

MCRingL3 ==
  Machine("ring", 0..3, 5, 2, Circle, CircleExit,
    {Flow("l2_1", "dir_2", "req", 1), Flow("dir_2", "l3_2", "dirrq", 1),
     Flow("l3_2", "mc", "l3rq", 1), Flow("mc", "l3_2", "mcrp", 2), Flow("l3_2", "dir_2", "l3rp", 2)})

Networks == [crossbar |-> MCCrossbar, mesh |-> MCMesh, ring |-> MCRing, ring_l3 |-> MCRingL3]
MCMachines == Networks

-----------------------------------------------------------------------------
VARIABLE at_work  \* the one of the two that is at work

\* The network that a machine has makes no difference to the queue.
MCInit == /\ Init /\ NetworkInit
          /\ \/ at_work = "queue" /\ noc = "crossbar"
             \/ at_work = "network"

MCNext == /\ \/ at_work = "queue" /\ Next /\ UNCHANGED network
             \/ at_work = "network" /\ NetworkNext /\ UNCHANGED vars
          /\ UNCHANGED at_work

\* The fairness of Spec and of NetworkSpec.
MCFairness == /\ WF_vars(at_work = "queue" /\ Next)
              /\ WF_<<token, clockwise>>(at_work = "network" /\ Turn)

MCSpec == MCInit /\ [][MCNext]_<<vars, network, at_work>> /\ MCFairness
=============================================================================
