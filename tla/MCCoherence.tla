---------------------------- MODULE MCCoherence ----------------------------
(***************************************************************************)
(* Three L2s, the first with two L1s (11 and 12), and the loads that make   *)
(* the paths of the protocol meet.                                          *)
(***************************************************************************)
EXTENDS Coherence

MCL2Of == [c \in L1s |-> c \div 10]

Window(a, b, c, d) ==
  [x \in L1s |-> CASE x = 11 -> a [] x = 12 -> b [] x = 21 -> c [] x = 31 -> d]

Load(w, ls, n) ==
  [window |-> w, lines |-> ls, accesses |-> n, prefetch |-> FALSE, l2ways |-> 1,
   noc |-> "ring"]

MCLoads == {
  Load(Window(1, 0, 1, 0), {1}, 5),                          \* two L2s want a line
  Load(Window(1, 0, 1, 0), {1, 2}, 3),                       \* and replace it
  [Load(Window(1, 0, 1, 0), {1, 2}, 3) EXCEPT !.l2ways = 2], \* L1s smaller than L2s
  Load(Window(1, 0, 1, 1), {1}, 3),                          \* two readers, a writer
  [Load(Window(1, 0, 1, 1), {1}, 3) EXCEPT !.noc = "crossbar"],
  Load(Window(2, 0, 1, 0), {1}, 4),                          \* an out-of-order core
  Load(Window(1, 1, 1, 0), {1}, 3),                          \* two L1s below an L2
  Load(Window(1, 1, 0, 0), {1, 2}, 3),                       \* that has too few ways
  [Load(Window(1, 0, 0, 0), {1, 2, 3}, 4) EXCEPT !.prefetch = TRUE, !.l2ways = 2] }

\* A writer and a reader that asks twice.
MCRingLoads == {Load(Window(1, 0, 1, 0), {1}, 3)}

=============================================================================
