---------------------------- MODULE CoherenceNet ----------------------------
(***************************************************************************)
(* What the caches and the directory share: the messages                   *)
(* (LocalQueueElement), and the paths they take between an L1 and its L2    *)
(* and, through the network on chip, between an L2 and the directory.       *)
(* A path keeps messages of one class in order; a reply may overtake a      *)
(* command, and either may overtake a request, because queues are served    *)
(* by class (NoC::noc_priority) and every component takes replies first.    *)
(* On the ring and the mesh a class may also overtake a more urgent one,     *)
(* whose queue is held up by a message at its head that waits for a port.    *)
(***************************************************************************)
EXTENDS Integers, FiniteSets, SequencesExt

CONSTANTS
  L1s,          \* first-level caches
  L2s,          \* second-level caches, numbered: a std::set of them is ordered
  L2Of,         \* the L2 above each L1
  Lines,        \* cache lines, all of one set; numbered, for the prefetcher
  L1Ways,
  Limitless,    \* sharers above which invalidations are broadcast
  Loads         \* machines and bounds to check, see LoadType

VARIABLES
  l1,    \* l1[c]: the ways of L1 c, least recently used first
  l2,    \* l2[c]: the ways of L2 c, least recently used first
  dir,   \* dir[x]: the directory's entry of line x
  net,   \* net[<<a, b>>]: messages on their way from a to b
  mem,   \* reads of the directory that the memory has not answered
  reqs,  \* reqs[c][a]: accesses a that wait in the request queue of L1 c
  load,  \* the one of Loads that the machine has
  out,   \* out[c]: accesses of the core of L1 c under way
  left,  \* accesses the cores may still make
  mishaps \* history: which of what the protocol is not made for have happened:
          \* "overtaken", see Overtakes, "replaced", see GivingUp

vars == <<l1, l2, dir, net, mem, reqs, load, out, left, mishaps>>

\* How many accesses the core of each L1 may have under way (none: the L1 is not
\* used), which lines the cores access, whether the L1s prefetch, the ways of an L2,
\* the network on chip (noc_type), and a bound: how many accesses all the cores make.
LoadType == [window : [L1s -> Nat], lines : SUBSET Lines, prefetch : BOOLEAN,
             l2ways : Nat \ {0}, noc : {"crossbar", "mesh", "ring"}, accesses : Nat]

Dir    == 0
None   == -1
Nodes  == L1s \cup L2s \cup {Dir}
Access == [op : {"read", "write"}, line : Lines]
Links  == {<<c, L2Of[c]>> : c \in L1s} \cup {<<L2Of[c], c>> : c \in L1s}
            \cup ({Dir} \X L2s) \cup (L2s \X {Dir})

\* A message: its type, its class on the network, its line, and of the stack of
\* components it came from the L1 and the L2 that asked, if any.  op is the access
\* of the core behind it, "none" for prefetches, evictions and commands.
Msg(type, class, x) ==
  [type |-> type, class |-> class, line |-> x, l1 |-> None, l2 |-> None, op |-> "none"]

NoMsg == Msg("none", "rep", None)

Request(c, a) == [Msg(a.op, "req", a.line) EXCEPT !.l1 = c, !.op = a.op]

As(m, type, class) == [m EXCEPT !.type = type, !.class = class]

Rank == [rep |-> 1, crq |-> 2, req |-> 3]

\* Message i of path p was sent after j and is less urgent.
Cuts(p, i, j) == j < i /\ Rank[net[p][j].class] < Rank[net[p][i].class]

\* The paths between an L2 and the directory go through the network on chip; those of
\* an L1 are queues, and so in effect are the paths through a crossbar.
Queues(p) == Dir \notin {p[1], p[2]} \/ load.noc = "crossbar"

\* Message i of a path may be taken next: those before it are of another class, of a
\* lower one where the path is a queue.
Arrives(s, d, i) ==
  LET p == <<s, d>> IN
  /\ p \in Links
  /\ i \in 1..Len(net[p])
  /\ \A j \in 1..(i - 1) : /\ net[p][j].class # net[p][i].class
                            /\ ~(Queues(p) /\ Cuts(p, i, j))

(* What a component sends in a step: a sequence of messages for each node. *)
To(ds, m)  == [d \in Nodes |-> IF d \in ds THEN <<m>> ELSE <<>>]
Nothing    == [d \in Nodes |-> <<>>]
ms ++ more == [d \in Nodes |-> ms[d] \o more[d]]

Sent(n, c, ms) == [p \in Links |-> IF p[1] = c THEN n[p] \o ms[p[2]] ELSE n[p]]

\* Message i overtakes, of the same line and sent before it, an answer of the directory or
\* an eviction of an L2: the one that takes it will not know what has happened to the line.
Overtakes(s, d, i) ==
  LET p == <<s, d>> IN
  \E j \in 1..(i - 1) : /\ Cuts(p, i, j) /\ net[p][j].line = net[p][i].line
                        /\ s = Dir \/ net[p][j].type \in {"evict", "evict_owned"}

\* Component c sends ms, and before that may take message i of s.
Emit(c, ms) == net' = Sent(net, c, ms) /\ UNCHANGED mishaps

PassWith(s, c, i, ms, more) ==
  /\ net' = Sent([net EXCEPT ![<<s, c>>] = RemoveAt(@, i)], c, ms)
  /\ mishaps' = mishaps \cup more \cup (IF Overtakes(s, c, i) THEN {"overtaken"} ELSE {})

Pass(s, c, i, ms) == PassWith(s, c, i, ms, {})

\* The way at k becomes e and the most recently used.
Touch(ways, k, e) == Append(RemoveAt(ways, k), e)

=============================================================================
