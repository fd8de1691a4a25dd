------------------------------ MODULE Routing ------------------------------
(***************************************************************************)
(* Where a router sends a message on (PTSXbar.cc).  Ports 0 and 1 of a       *)
(* router lead to opposite neighbours, ports 2 and 3 of the mesh's likewise. *)
(***************************************************************************)
EXTENDS Integers

Opposite(p) == IF p % 2 = 0 THEN p + 1 ELSE p - 1

(* Ring of nodes 0..n-1: port 0 leads clockwise; the shorter way is taken.   *)
RingPort(n, i, d) ==
  IF \/ d > i /\ d - i <= n \div 2
     \/ d < i /\ n + d - i <= n \div 2
  THEN 0 ELSE 1

RingNeighbour(n, i, p) == IF p = 0 THEN (i + 1) % n ELSE (n + i - 1) % n

\* Hops from i to d, going clockwise, and the shorter way.
Ahead(n, i, d)    == IF d >= i THEN d - i ELSE n + d - i
RingHops(n, i, d) == IF Ahead(n, i, d) <= n \div 2 THEN Ahead(n, i, d) ELSE n - Ahead(n, i, d)

(* Mesh of nodes <<row, column>>: ports 0 to 3 lead north, south, east and    *)
(* west; a message goes along the row first, then along the column.          *)
MeshPort(i, d) ==
  CASE i[2] > d[2]                 -> 3
    [] i[2] < d[2]                 -> 2
    [] i[2] = d[2] /\ i[1] > d[1]  -> 0
    [] i[2] = d[2] /\ i[1] < d[1]  -> 1

MeshNeighbour(i, p) ==
  CASE p = 0 -> <<i[1] - 1, i[2]>>
    [] p = 1 -> <<i[1] + 1, i[2]>>
    [] p = 2 -> <<i[1], i[2] + 1>>
    [] p = 3 -> <<i[1], i[2] - 1>>

Gap(a, b)      == IF a >= b THEN a - b ELSE b - a
MeshHops(i, d) == Gap(i[1], d[1]) + Gap(i[2], d[2])

=============================================================================
