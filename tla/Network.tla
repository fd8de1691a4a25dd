------------------------------ MODULE Network ------------------------------
(***************************************************************************)
(* The network on chip at work: its components send, and its passes move    *)
(* what they sent.                                                         *)
(***************************************************************************)
EXTENDS Crossbar, Router

NetworkNext == (\E f \in Flows : Send(f)) \/ PassCrossbar \/ PassRouters

\* A pass that is due takes place: the event queue processes every event.  (Each pass
\* ends with Turn, and nothing else moves the token.)
Fairness == WF_<<token, clockwise>>(Turn)

NetworkSpec == NetworkInit /\ [][NetworkNext]_network /\ Fairness

-----------------------------------------------------------------------------
Under(p) == {path[p][k] : k \in DOMAIN path[p]}
Real     == {z \in Places : ~At(z).dummy}

\* No routing step drops a message, doubles it or leaves it where no pass finds it: what
\* was sent and has not arrived is in just one queue, the count of messages that keeps
\* the network awake is that of the queues, flits included, and a network that holds
\* anything is awake.
NothingLost ==
  /\ {At(z) : z \in Real} = UNION {Under(p) : p \in Pairs}
  /\ \A y, z \in Real : At(y) = At(z) => y = z
  /\ Shape # "crossbar" => count = Cardinality(Places)
  /\ Places # {} => awake

\* The messages of p that a step delivers or keeps, by their place in the path.
Delivered(p) == {k \in DOMAIN path[p] : path[p][k] \notin Under(p)'}

\* Messages of one class between two components arrive in the order in which they were
\* sent, whichever ports, hops and flits they take: the caches and the directory rely on
\* it, and nothing else orders their messages.
KeepsOrder ==
  [][\A p \in Pairs : \A j \in Delivered(p) : \A i \in 1..(j - 1) :
       path[p][i].class = path[p][j].class => i \in Delivered(p)]_network

\* The crossbar lets no message overtake a more urgent one, so that a path through it is a
\* queue to the cache hierarchy (CoherenceNet, Queues).  The routers give no such promise: a
\* full port holds up the first message of a class, and the less urgent ones go on.
KeepsRank ==
  [][Shape = "crossbar" =>
       \A p \in Pairs : \A j \in Delivered(p) : \A i \in 1..(j - 1) :
         Rank(path[p][i].class) <= Rank(path[p][j].class) => i \in Delivered(p)]_network

\* No message is starved by the endless requests of others, whatever port it came
\* through: the token, and the room of each class, reach it in the end.
Arrives ==
  \A n \in DOMAIN Machines : \A f \in Machines[n].flows : \A id \in 1..Window :
    []<>(noc = n => Packet(f, id, FALSE) \notin Under(<<f.src, f.dst>>))

=============================================================================
