------------------------------ MODULE Crossbar ------------------------------
(***************************************************************************)
(* The crossbar (PTSXbar.cc, class Crossbar): one node, whose port k belongs *)
(* to L2 k and to directory k.                                             *)
(***************************************************************************)
EXTENDS NoC

\* What waits at port p, and what the port serves before place z: the more urgent, and of
\* the same class what came earlier.
Waiting(p) == {z \in Places : z[1][2] = p}

LeastFirst(z) ==                                \* mutant: the least urgent first
  {y \in Waiting(z[1][2]) : \/ Rank(y[1][3]) > Rank(z[1][3])
                            \/ y[1] = z[1] /\ y[2] < z[2]}
Before(z) ==
  {y \in Waiting(z[1][2]) : \/ Rank(y[1][3]) < Rank(z[1][3])
                            \/ y[1] = z[1] /\ y[2] < z[2]}

\* Each port in turn sends its first message and its second one, where the port of the
\* destination is still free (already_sent).
Offered(p, n) == {z \in Waiting(p) : Cardinality(Before(z)) = n}

Free(z, granted) == \A g \in granted : Exit(At(g)) # Exit(At(z))

Granted ==
  LET ports == Round
      granted[k \in 0..(2 * Ports)] ==
        IF k = 0 THEN {}
        ELSE CHOOSE new \in {
               g \cup {z \in Offered(ports[(k + 1) \div 2], 1 - (k % 2)) : Free(z, g)}
                 : g \in {granted[k - 1]}} : TRUE
  IN granted[2 * Ports]

PassCrossbar ==
  /\ Shape = "crossbar"
  /\ Turn
  /\ \E granted \in {Granted} :
       /\ queues' = [x \in Slots |-> Remaining(x, granted)]
       /\ Arrive(granted)
  /\ awake' = \E x \in Slots : queues'[x] # <<>>
  /\ UNCHANGED <<noc, count, spare>>

=============================================================================
