-------------------------------- MODULE NoC --------------------------------
(***************************************************************************)
(* The network on chip (PTSXbar.cc): a crossbar, a mesh or a ring between   *)
(* the second-level caches, the directories, the slices of the shared       *)
(* third-level cache and the memory controllers.  Components put messages    *)
(* into a queue of their port; a pass (process_event) moves messages from    *)
(* queue to queue, or hands them to their destination, as far as the ports   *)
(* have room, and the network wakes itself for another pass while it has      *)
(* messages.                                                                *)
(***************************************************************************)
EXTENDS Routing, Sequences, FiniteSets

CONSTANTS
  Machines,   \* networks and their traffic by name, see Machine
  Window,     \* bound: messages of a flow under way
  Replies     \* bound: messages of a flow that are not requests

VARIABLES
  noc,        \* the one of Machines that there is
  queues,     \* queues[<<i, p, c>>]: messages of class c that came to node i through port p
  token,      \* the port that is served first (crossbar: top_priority)
  clockwise,  \* crossbar: the direction in which the ports are served
  count,      \* num_req_in_mesh, num_req_in_ring
  awake,      \* a pass is due (geq->add_event)
  path,       \* path[<<s, d>>]: what has been sent from s to d and not arrived, in order
  spare       \* spare[f]: messages of flow f that may still be sent, requests excepted

network == <<noc, queues, token, clockwise, count, awake, path, spare>>

\* What is at the places K of sequence s, in order.
Picked(s, K) ==
  LET picked[k \in 0..Len(s)] ==
        IF k = 0 THEN <<>>
        ELSE IF k \in K THEN Append(picked[k - 1], s[k]) ELSE picked[k - 1]
  IN picked[Len(s)]

\* noc_priority, the most urgent first.
Classes == <<"mcrp", "l3rp", "l3rq", "dirrq", "rep", "crq", "req">>
Rank(c) == CHOOSE k \in DOMAIN Classes : Classes[k] = c

\* A flow: messages of one class from src to dst, of so many flits.  A component e has
\* port at[e][2] of node at[e][1]; what comes for it leaves through port exit[e].  In a
\* pass a port lets paths messages through (ring: num_paths; else one).  classes are
\* those of the flows, the most urgent first, and slots the queues for them.
Machine(kind, nodes, ports, paths, at, exit, flows) ==
  LET used == Picked(Classes, {k \in DOMAIN Classes : \E f \in flows : f.class = Classes[k]}) IN
  [kind |-> kind, nodes |-> nodes, ports |-> ports, paths |-> paths, at |-> at, exit |-> exit,
   flows |-> flows, pairs |-> {<<f.src, f.dst>> : f \in flows}, classes |-> used,
   slots |-> nodes \X (0..(ports - 1)) \X {used[k] : k \in DOMAIN used}]

\* The ports of a router that lead to its neighbours; the others belong to components.
LinksOf(kind) == CASE kind = "ring" -> 0..1 [] kind = "mesh" -> 0..3 [] OTHER -> {}

\* A crossbar is one node, and a component sends and receives through the same port of it;
\* a ring is a row of nodes, and a mesh a rectangle.
WellBuilt(m) ==
  LET free == (0..(m.ports - 1)) \ LinksOf(m.kind) IN
  /\ m.kind \in {"crossbar", "mesh", "ring"}
  /\ m.kind = "crossbar" => m.nodes = {0} /\ \A e \in DOMAIN m.at : m.exit[e] = m.at[e][2]
  /\ IsFiniteSet(m.nodes)
  /\ m.kind = "ring" => m.nodes = 0..(Cardinality(m.nodes) - 1)
  /\ m.kind = "mesh" =>
       \E r, c \in 1..Cardinality(m.nodes) : m.nodes = (0..(r - 1)) \X (0..(c - 1))
  /\ m.ports \in Nat \ {0} /\ m.paths \in Nat \ {0}
  /\ m.at \in [DOMAIN m.at -> m.nodes \X free] /\ m.exit \in [DOMAIN m.at -> free]
  /\ \A f \in m.flows : /\ {f.src, f.dst} \subseteq DOMAIN m.at /\ f.flits \in Nat \ {0}
                        /\ \E k \in DOMAIN Classes : f.class = Classes[k]

ASSUME NetworkAssumption ==
  /\ Window \in Nat /\ Replies \in Nat
  /\ \A n \in DOMAIN Machines : LET m == Machines[n] IN
       WellBuilt(m) /\ m = Machine(m.kind, m.nodes, m.ports, m.paths, m.at, m.exit, m.flows)

Shape     == Machines[noc].kind
Nodes     == Machines[noc].nodes
Ports     == Machines[noc].ports
Paths     == Machines[noc].paths
Flows     == Machines[noc].flows
Pairs     == Machines[noc].pairs
Used      == Machines[noc].classes
Slots     == Machines[noc].slots
NodeOf(e) == Machines[noc].at[e][1]
PortOf(e) == Machines[noc].at[e][2]

\* The places of the queues, and what is there.
Places == UNION {{<<x, k>> : k \in DOMAIN queues[x]} : x \in Slots}
At(z)  == queues[z[1]][z[2]]

\* Only what the L3 answers leaves through the directory's own port.
Exit(m) == IF m.class = "l3rp" THEN PortOf(m.dst) ELSE Machines[noc].exit[m.dst]

Packet(f, id, dummy) == [src |-> f.src, dst |-> f.dst, class |-> f.class, id |-> id, dummy |-> dummy]

\* The messages of flow f under way.
Travelling(f) == {k \in DOMAIN path[<<f.src, f.dst>>] : path[<<f.src, f.dst>>][k].class = f.class}

\* A queue is a multimap: what is put in comes behind what has the same time.
InFront(queue, new) == new \o queue             \* mutant
Joined(queue, new)  == queue \o new

NetworkInit ==
  /\ noc \in DOMAIN Machines
  /\ queues = [s \in Slots |-> <<>>]
  /\ token = 0 /\ clockwise = TRUE /\ count = 0 /\ awake = FALSE
  /\ path = [p \in Pairs |-> <<>>]
  /\ spare = [f \in Flows |-> Replies]

\* Data goes as several flits, the last of which counts.
Flits(f, m) == [k \in 1..f.flits |-> IF k = f.flits THEN m ELSE Packet(f, 0, TRUE)]

Entered(f, m) ==
  queues' = [queues EXCEPT ![<<NodeOf(f.src), PortOf(f.src), f.class>>] = Joined(@, Flits(f, m))]

\* add_req_event, add_rep_event, ...
Send(f) ==
  /\ f.class = "req" \/ spare[f] > 0
  /\ \E id \in 1..Window :
       LET pair == <<f.src, f.dst>>
       IN /\ \A k \in Travelling(f) : path[pair][k].id # id
          /\ Entered(f, Packet(f, id, FALSE))
          /\ path' = [path EXCEPT ![pair] = Append(@, Packet(f, id, FALSE))]
  /\ spare' = IF f.class = "req" THEN spare ELSE [spare EXCEPT ![f] = @ - 1]
  /\ count' = IF Shape = "crossbar" THEN count ELSE count + f.flits
  /\ awake' = TRUE
  /\ UNCHANGED <<noc, token, clockwise>>

FromTheFirst == [j \in 1..Ports |-> j - 1]      \* mutant: no port is ever first in turn

\* The ports in the order in which a pass serves them, from the token on.
Round == [j \in 1..Ports |->
           IF clockwise THEN (token + j - 1) % Ports ELSE (token + Ports - j + 1) % Ports]

\* The end of a pass: each port is first in turn (crossbar: in both directions).
Turn ==
  /\ awake
  /\ clockwise' = IF Shape = "crossbar" THEN ~clockwise ELSE clockwise
  /\ token' = IF Shape = "crossbar" /\ clockwise THEN token ELSE (token + 1) % Ports

\* What is left of a queue, and of the paths, when the messages at places gone have gone.
Remaining(x, gone) == Picked(queues[x], {k \in DOMAIN queues[x] : <<x, k>> \notin gone})

Arrive(gone) ==
  path' = [p \in Pairs |-> Picked(path[p], {k \in DOMAIN path[p] : \A z \in gone : At(z) # path[p][k]})]

=============================================================================
