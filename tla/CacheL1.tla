------------------------------ MODULE CacheL1 ------------------------------
(***************************************************************************)
(* A first-level cache (PTSCache.cc, class CacheL1) and the load/store unit *)
(* behind it, which repeats an access that was refused (et_nack).           *)
(***************************************************************************)
EXTENDS CoherenceNet

NoWay == [line |-> None, st |-> "I"]

Find1(c, x) == {k \in 1..L1Ways : l1[c][k].st # "I" /\ l1[c][k].line = x}

StateOf(c, x) == IF Find1(c, x) = {} THEN "I" ELSE l1[c][CHOOSE k \in Find1(c, x) : TRUE].st

\* The one way of line x gets state st, in place.
Becomes(c, x, st) ==
  [k \in 1..L1Ways |-> IF k \notin Find1(c, x) THEN l1[c][k]
                       ELSE IF st = "I" THEN NoWay ELSE [line |-> x, st |-> st]]

Keep1 == UNCHANGED <<l2, dir, mem, load, left>>

\* The core has the data it waits for (O3Core::add_rep_event).
Completes(c, op) == out' = IF op = "none" THEN out ELSE [out EXCEPT ![c] = @ - 1]

-----------------------------------------------------------------------------
(* Replies and commands of the L2.                                         *)

\* et_nack: the load/store unit asks again.
Refused1(c, m, i) ==
  /\ m.type = "nack"
  /\ reqs' = [reqs EXCEPT ![c][[op |-> m.op, line |-> m.line]] = @ + 1]
  /\ Pass(L2Of[c], c, i, Nothing)
  /\ UNCHANGED <<l1, out>>

\* et_rd_bypass: the data goes to the core, the line is not kept.
Bypass1(c, m, i) ==
  /\ m.type = "rd_bypass"
  /\ Pass(L2Of[c], c, i, Nothing)
  /\ Completes(c, m.op)
  /\ UNCHANGED <<l1, reqs>>

\* et_evict: modified data goes back to the L2.
Evict1(c, m, i) ==
  /\ m.type = "evict"
  /\ l1' = [l1 EXCEPT ![c] = Becomes(c, m.line, "I")]
  /\ Pass(L2Of[c], c, i,
          IF StateOf(c, m.line) = "M" THEN To({L2Of[c]}, Msg("evict", "rep", m.line)) ELSE Nothing)
  /\ UNCHANGED <<reqs, out>>

\* et_m_to_s, et_m_to_m: answered with or without the line.
Downgrade1(c, m, i) ==
  /\ m.type \in {"m_to_s", "m_to_m"}
  /\ l1' = IF StateOf(c, m.line) = "M"
           THEN [l1 EXCEPT ![c] = Becomes(c, m.line, IF m.type = "m_to_m" THEN "I" ELSE "S")]
           ELSE l1
  /\ Pass(L2Of[c], c, i, To({L2Of[c]}, As(m, m.type, "rep")))
  /\ UNCHANGED <<reqs, out>>

\* et_dir_rd: the modified line is written back; a line that is gone is not answered
\* for, its eviction is on the way to the L2.
DirRead1(c, m, i) ==
  /\ m.type = "dir_rd"
  /\ IF StateOf(c, m.line) = "I"
     THEN l1' = l1 /\ Pass(L2Of[c], c, i, Nothing)
     ELSE /\ l1' = [l1 EXCEPT ![c] = Becomes(c, m.line, "E")]
          /\ Pass(L2Of[c], c, i, To({L2Of[c]}, Msg("evict", "rep", m.line)))
  /\ UNCHANGED <<reqs, out>>

\* et_read, et_write: the line is filled, over the least recently used way.
Fill1(c, m, i) ==
  /\ m.type \in {"read", "write"}
  /\ LET present == Find1(c, m.line)
         k       == IF present = {} THEN 1 ELSE CHOOSE j \in present : TRUE
         victim  == l1[c][k]
         st      == IF m.type = "read" /\ StateOf(c, m.line) # "M" THEN "E" ELSE "M"
     IN /\ l1' = [l1 EXCEPT ![c] = Touch(@, k, [line |-> m.line, st |-> st])]
        /\ Pass(L2Of[c], c, i,
                IF present # {} \/ victim.st = "I" THEN Nothing
                ELSE To({L2Of[c]}, Msg(IF victim.st = "M" THEN "evict" ELSE "evict_nd",
                                       "rep", victim.line)))
  /\ Completes(c, m.op)
  /\ UNCHANGED reqs

Reply1(c) ==
  \E i \in 1..Len(net[<<L2Of[c], c>>]) :
    LET m == net[<<L2Of[c], c>>][i] IN
      /\ Arrives(L2Of[c], c, i)
      /\ Refused1(c, m, i) \/ Bypass1(c, m, i) \/ Evict1(c, m, i)
           \/ Downgrade1(c, m, i) \/ DirRead1(c, m, i) \/ Fill1(c, m, i)
      /\ Keep1

\* The ASSERTX of process_event: a directory read finds the line modified or gone.
Expects1(c, m) == m.type = "dir_rd" => StateOf(c, m.line) \in {"I", "M"}

-----------------------------------------------------------------------------
(* Accesses of the core.                                                   *)

\* The prefetcher asks for a neighbour of a line that is read when the other
\* neighbour is cached; which lines it asked for lately (pres) is left open.
Prefetches(c, a) ==
  IF load.prefetch /\ a.op = "read"
  THEN {x \in Lines : \E d \in {-1, 1} : x = a.line + d /\ StateOf(c, a.line - d) # "I"}
  ELSE {}

Hits(c, a) == StateOf(c, a.line) \in (IF a.op = "read" THEN {"S", "E", "M"} ELSE {"M"})

\* A write to a line that is not modified gives the line up and asks for it again.
Access1(c) ==
  \E a \in Access : \E ps \in SUBSET Prefetches(c, a) :
    /\ reqs[c][a] > 0
    /\ reqs' = [reqs EXCEPT ![c][a] = @ - 1]
    /\ LET pre == [d \in Nodes |-> IF d = L2Of[c]
                     THEN SetToSeq({[Msg("read", "req", x) EXCEPT !.l1 = c] : x \in ps})
                     ELSE <<>>]
       IN IF Hits(c, a)
          THEN /\ l1' = [l1 EXCEPT ![c] =
                           LET k == CHOOSE j \in Find1(c, a.line) : TRUE IN Touch(@, k, @[k])]
               /\ Emit(c, pre)
               /\ Completes(c, a.op)
          ELSE /\ l1' = [l1 EXCEPT ![c] = Becomes(c, a.line, "I")]
               /\ Emit(c, To({L2Of[c]}, Request(c, a)) ++ pre)
               /\ UNCHANGED out
    /\ Keep1

\* The core makes an access.
Issue(c) ==
  \E a \in Access :
    /\ left > 0 /\ out[c] < load.window[c] /\ a.line \in load.lines
    /\ left' = left - 1
    /\ out' = [out EXCEPT ![c] = @ + 1]
    /\ reqs' = [reqs EXCEPT ![c][a] = @ + 1]
    /\ UNCHANGED <<l1, l2, dir, net, mem, load, mishaps>>

=============================================================================
