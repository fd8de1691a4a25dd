------------------------------- MODULE Router -------------------------------
(***************************************************************************)
(* The routers of the mesh and of the ring (PTSXbar.cc, classes Mesh2D and  *)
(* Ring).                                                                   *)
(***************************************************************************)
EXTENDS NoC

Links == LinksOf(Shape)

Neighbour(i, p) ==
  IF Shape = "ring" THEN RingNeighbour(Cardinality(Nodes), i, p) ELSE MeshNeighbour(i, p)

\* The port through which router i sends message m.
Out(i, m) ==
  LET d == NodeOf(m.dst) IN
  IF d = i THEN Exit(m)
  ELSE IF Shape = "ring" THEN RingPort(Cardinality(Nodes), i, d) ELSE MeshPort(i, d)

\* Ring: port by port, each class as often as there is room; mesh: class by class, once
\* for each port.
Visits ==
  IF Shape = "ring"
  THEN [k \in 1..(Ports * Len(Used) * Paths) |->
         LET j == (k - 1) \div Paths IN <<Round[1 + (j \div Len(Used))], Used[1 + (j % Len(Used))]>>]
  ELSE [k \in 1..(Ports * Len(Used)) |-> <<Round[1 + ((k - 1) % Ports)], Used[1 + ((k - 1) \div Ports)]>>]

\* What a router has sent: records of the place it was at and the port it went to.  Those
\* from queue x, from port p, and to port o.
OfClass(sent, x) == {n \in DOMAIN sent : sent[n].at[1] = x}
From(sent, p)    == {n \in DOMAIN sent : sent[n].at[1][2] = p}
Through(sent, o) == {n \in DOMAIN sent : sent[n].to = o}

\* Router i, which has sent so much, visits the queue of class c at port p.
Visit(i, sent, p, c) ==
  LET x == <<i, p, c>>
      k == 1 + Cardinality(OfClass(sent, x))
      o == Out(i, At(<<x, k>>))
  IN IF /\ k \in DOMAIN queues[x]
        /\ Shape = "ring" => Cardinality(From(sent, p)) < Paths
        /\ Cardinality(Through(sent, o)) < Paths
     THEN Append(sent, [at |-> <<x, k>>, to |-> o])
     ELSE sent

Routed(i) ==
  LET visits == Picked(Visits, {k \in DOMAIN Visits : queues[<<i, Visits[k][1], Visits[k][2]>>] # <<>>})
      routed[k \in 0..Len(visits)] ==
        IF k = 0 THEN <<>>
        ELSE CHOOSE sent \in {Visit(i, before, visits[k][1], visits[k][2]) : before \in {routed[k - 1]}} : TRUE
  IN routed[Len(visits)]

\* The places whose messages were sent, and those from where they went to components.
Moved(done) == UNION {{done[i][n].at : n \in DOMAIN done[i]} : i \in Nodes}

OnlyReal(done) ==                               \* mutant: flits are not counted out
  UNION {{done[i][n].at : n \in {k \in DOMAIN done[i] : done[i][k].to \notin Links
                                                        /\ ~At(done[i][k].at).dummy}} : i \in Nodes}
Leaving(done) ==
  UNION {{done[i][n].at : n \in {k \in DOMAIN done[i] : done[i][k].to \notin Links}} : i \in Nodes}

\* What enters queue x of a port that leads to a neighbour left the neighbour through the
\* opposite port.
Entering(done, x) ==
  LET j == Neighbour(x[1], x[2])
      in == Picked(done[j], {n \in DOMAIN done[j] : /\ done[j][n].to = Opposite(x[2])
                                                    /\ done[j][n].at[1][3] = x[3]})
  IN IF x[2] \in Links /\ j \in Nodes THEN [n \in DOMAIN in |-> At(in[n].at)] ELSE <<>>

\* No message moves twice in a pass (sw_to_sw_t).
PassRouters ==
  /\ Shape \in {"mesh", "ring"}
  /\ Turn
  /\ \E done \in {[i \in Nodes |-> Routed(i)]} : \E moved \in {Moved(done)}, gone \in {Leaving(done)} :
       /\ queues' = [x \in Slots |-> Joined(Remaining(x, moved), Entering(done, x))]
       /\ Arrive(gone)
       /\ count' = count - Cardinality(gone)
  /\ awake' = (count' > 0)
  /\ UNCHANGED <<noc, spare>>

=============================================================================
