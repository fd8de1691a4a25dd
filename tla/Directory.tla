----------------------------- MODULE Directory -----------------------------
(***************************************************************************)
(* The directory (PTSDirectory.cc), with every entry at hand: the machine    *)
(* descriptions leave has_directory_cache off.  An entry has a state, the    *)
(* L2s it lists (l2s), the request that waits for their answers (pending)    *)
(* and whether one of them has sent the data (got).                         *)
(***************************************************************************)
EXTENDS CoherenceNet

NoEntry == [st |-> "none", l2s |-> {}, pending |-> NoMsg, got |-> FALSE]

TransientD == {"tr_to_s", "tr_to_m", "tr_to_e", "m_to_o", "tr_to_o"}

\* sharedl2.begin(): a std::set is ordered.
First(S) == CHOOSE d \in S : \A o \in S : d <= o

Becoming(x, e)       == dir' = [dir EXCEPT ![x] = e]
Command(d, type, x)  == To({d}, Msg(type, "crq", x))
AnswerD(m, type)     == To({m.l2}, As(m, type, "crq"))
RefuseD(m)           == To({m.l2}, As(m, "nack", "rep"))

ReadMem(m) == mem' = mem \cup {As(m, "e_rd", "rep")}

KeepD == UNCHANGED <<l1, l2, reqs, load, out, left>>

-----------------------------------------------------------------------------
(* Replies of L2 d.                                                        *)

\* Entry e without d.
Without(e, d, owned) ==
  LET rest == [e EXCEPT !.l2s = @ \ {d}] IN
  CASE e.st \in {"none", "tr_to_m"}              -> e
    [] e.st = "M"                                -> IF d \in e.l2s THEN NoEntry ELSE e
    [] e.st \in {"m_to_o", "tr_to_s", "tr_to_o"} -> rest
    [] OTHER -> IF rest.l2s = {} THEN NoEntry
                ELSE IF e.st = "O" /\ owned THEN [rest EXCEPT !.st = "S"] ELSE rest

\* et_evict, et_evict_owned: d does not have the line any more.
EvictedD(d, m, i) ==
  /\ m.type \in {"evict", "evict_owned"}
  /\ Becoming(m.line, Without(dir[m.line], d, m.type = "evict_owned"))
  /\ Pass(d, Dir, i, Nothing)
  /\ UNCHANGED mem

\* et_e_to_i, et_e_to_m: d could not use, or has used, the right to write.
UpgradedD(d, m, i) ==
  /\ m.type \in {"e_to_i", "e_to_m"}
  /\ Becoming(m.line, IF dir[m.line].st = "none" \/ m.type = "e_to_i" THEN NoEntry
                      ELSE [dir[m.line] EXCEPT !.st = "M", !.pending = NoMsg])
  /\ Pass(d, Dir, i, Nothing)
  /\ UNCHANGED mem

\* The entry when the last L2 has given its line up, with the data (got) or without.
TakenAndKept(e, got) ==                                     \* mutant: pending is not reset
  [e EXCEPT !.l2s = {e.pending.l2}, !.got = FALSE, !.st = IF got THEN "M" ELSE @]
Taken(e, got) ==
  [e EXCEPT !.l2s = {e.pending.l2}, !.pending = NoMsg, !.got = FALSE, !.st = IF got THEN "M" ELSE @]

\* et_invalidate, et_invalidate_nd: when the last L2 has given the line up, the data
\* goes to the one that waits, from an L2 or else from the memory.
InvalidatedD(d, m, i) ==
  LET e    == dir[m.line]
      got  == e.got \/ m.type = "invalidate"
      rest == e.l2s \ {d}
  IN
  /\ m.type \in {"invalidate", "invalidate_nd"}
  /\ CASE e.st = "none" ->
            Pass(d, Dir, i, Nothing) /\ UNCHANGED <<dir, mem>>
       [] e.st # "none" /\ rest # {} ->
            /\ Becoming(m.line, [e EXCEPT !.l2s = rest, !.got = got])
            /\ Pass(d, Dir, i, Nothing)
            /\ UNCHANGED mem
       [] OTHER ->
            /\ Becoming(m.line, Taken(e, got))
            /\ IF got THEN /\ Pass(d, Dir, i, AnswerD(e.pending, e.pending.type))
                           /\ UNCHANGED mem
                      ELSE /\ Pass(d, Dir, i, Nothing)
                           /\ ReadMem(e.pending)

\* et_e_to_s_nd, et_s_to_s_nd, et_dir_rd_nd, et_o_to_o_nd: d no longer had the line,
\* and the one that waits is refused.
NotSharedD(d, m, i) ==
  LET e == dir[m.line] IN
  /\ m.type \in {"e_to_s_nd", "s_to_s_nd", "dir_rd_nd", "o_to_o_nd"}
  /\ Becoming(m.line, IF e.l2s = {} THEN NoEntry
                      ELSE [e EXCEPT !.pending = NoMsg,
                                     !.st = IF m.type = "o_to_o_nd" THEN "O" ELSE "S"])
  /\ Pass(d, Dir, i, RefuseD(e.pending))
  /\ UNCHANGED mem

OnlyTheFirst(e) == e.l2s                                    \* mutant: the reader is not listed
Sharers(e) == e.l2s \cup {e.pending.l2}

\* et_e_to_s, et_s_to_s, et_dir_rd, et_o_to_o: d has sent the data, and shares it.
SharedD(d, m, i) ==
  LET e == dir[m.line] IN
  /\ m.type \in {"e_to_s", "s_to_s", "dir_rd", "o_to_o"}
  /\ Becoming(m.line, [e EXCEPT !.l2s = Sharers(e), !.pending = NoMsg,
                                !.st = IF m.type \in {"e_to_s", "s_to_s"} THEN "S" ELSE "O"])
  /\ Pass(d, Dir, i, AnswerD(e.pending, "s_rd"))
  /\ UNCHANGED mem

ReplyD ==
  /\ \E d \in L2s : \E i \in 1..Len(net[<<d, Dir>>]) :
       LET m == net[<<d, Dir>>][i] IN
       /\ Arrives(d, Dir, i)
       /\ EvictedD(d, m, i) \/ UpgradedD(d, m, i) \/ InvalidatedD(d, m, i)
            \/ NotSharedD(d, m, i) \/ SharedD(d, m, i)
  /\ KeepD

\* The memory answers a read; reads of different lines in any order.
FromMemory ==
  /\ \E m \in mem :
       LET e      == dir[m.line]
           writes == e.st = "tr_to_m"
       IN /\ mem' = mem \ {m}
          /\ Becoming(m.line, [e EXCEPT !.st = IF @ = "tr_to_e" THEN "E" ELSE IF writes THEN "M" ELSE @])
          /\ Emit(Dir, To({m.l2}, IF writes THEN As(m, "write", "rep") ELSE m))
  /\ KeepD

-----------------------------------------------------------------------------
(* Requests of L2 d.                                                       *)

\* The first request for a line: it is read from memory.
AllocateD(d, m, i) ==
  /\ dir[m.line].st = "none"
  /\ Becoming(m.line, [NoEntry EXCEPT !.st = IF m.type = "read" THEN "tr_to_e" ELSE "tr_to_m",
                                      !.l2s = {d}])
  /\ Pass(d, Dir, i, Nothing)
  /\ ReadMem(m)

\* Refused: the line is on its way between two states, or d reads what it has.
BusyD(d, m, i) ==
  /\ \/ dir[m.line].st \in TransientD
     \/ m.type = "read" /\ d \in dir[m.line].l2s
  /\ Pass(d, Dir, i, RefuseD(m))
  /\ UNCHANGED <<dir, mem>>

\* The request waits while the first of the L2s that have the line is asked for it.
ReadD(d, m, i) ==
  LET e == dir[m.line] IN
  /\ m.type = "read" /\ e.st \in {"E", "M", "S", "O"} /\ d \notin e.l2s
  /\ LET command == [E |-> "e_to_s", M |-> "dir_rd", S |-> "s_to_s", O |-> "o_to_o"]
         st      == [E |-> "tr_to_s", M |-> "m_to_o", S |-> "tr_to_s", O |-> "tr_to_o"]
     IN /\ Becoming(m.line, [e EXCEPT !.st = st[@], !.pending = m])
        /\ Pass(d, Dir, i, Command(First(e.l2s), command[e.st], m.line))
  /\ UNCHANGED mem

\* The only L2 that has the line may write it at once.
GrantD(d, m, i) ==
  LET e == dir[m.line] IN
  /\ m.type = "write" /\ e.st = "E" /\ d \in e.l2s
  /\ Becoming(m.line, [e EXCEPT !.st = "tr_to_m"])
  /\ Pass(d, Dir, i, To({d}, As(m, "write_nd", "rep")))
  /\ UNCHANGED mem

\* The only L2 that has modified the line asks to write it again: refused.
AgainD(d, m, i) ==
  /\ m.type = "write" /\ dir[m.line].st = "M" /\ d \in dir[m.line].l2s
  /\ Pass(d, Dir, i, AnswerD(m, "nack"))
  /\ UNCHANGED <<dir, mem>>

\* The request waits while every L2 that has the line gives it up: the first with
\* the data.  Above the limit all L2s are told, those that do not have it to do nothing.
WriteD(d, m, i) ==
  LET e == dir[m.line]
      told == IF e.st \in {"S", "O"} /\ Limitless < Cardinality(e.l2s) THEN L2s ELSE e.l2s
      type(o) == IF o = First(e.l2s) THEN "invalidate" ELSE IF o \in e.l2s THEN "invalidate_nd" ELSE "nop"
  IN
  /\ m.type = "write"
  /\ e.st \in {"S", "O"} \/ (e.st \in {"E", "M"} /\ d \notin e.l2s)
  /\ Becoming(m.line, [e EXCEPT !.st = "tr_to_m", !.pending = m, !.got = IF e.st = "E" THEN FALSE ELSE @])
  /\ Pass(d, Dir, i, [o \in Nodes |-> IF o \in told THEN <<Msg(type(o), "crq", m.line)>> ELSE <<>>])
  /\ UNCHANGED mem

RequestD ==
  /\ \E d \in L2s : \E i \in 1..Len(net[<<d, Dir>>]) :
       LET m == net[<<d, Dir>>][i] IN
       /\ Arrives(d, Dir, i) /\ m.class = "req"
       /\ AllocateD(d, m, i) \/ BusyD(d, m, i) \/ ReadD(d, m, i) \/ GrantD(d, m, i)
            \/ AgainD(d, m, i) \/ WriteD(d, m, i)
  /\ KeepD

-----------------------------------------------------------------------------
\* The ASSERTX of process_event, of a message m.
ExpectsD(m) ==
  LET e == dir[m.line] IN
  CASE m.type \in {"evict", "evict_owned"}     -> e.st \in {"M", "m_to_o"} => Cardinality(e.l2s) <= 1
    [] m.type \in {"e_to_i", "e_to_m"}         -> e.st \in {"none", "tr_to_m"}
    [] m.type \in {"invalidate", "invalidate_nd"} ->
         e.st = "none" \/ (e.st = "tr_to_m" /\ e.pending # NoMsg)
    [] m.type \in {"e_to_s_nd", "s_to_s_nd", "dir_rd_nd"} -> e.st \in {"tr_to_s", "m_to_o"}
    [] m.type \in {"e_to_s", "s_to_s"}         -> e.st = "tr_to_s"
    [] m.type \in {"o_to_o", "o_to_o_nd"}      -> e.st = "tr_to_o"
    [] m.type = "dir_rd"                       -> e.st = "m_to_o"
    [] m.type = "read"  -> e.st \in {"E", "M"} => Cardinality(e.l2s) = 1
    [] m.type = "write" -> /\ e.st \in {"E", "M"} => Cardinality(e.l2s) = 1
                           /\ e.st \in {"S", "O"} => e.l2s # {}
                           /\ e.st = "M" => e.pending = NoMsg

=============================================================================
