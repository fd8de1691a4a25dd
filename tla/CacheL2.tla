------------------------------ MODULE CacheL2 ------------------------------
(***************************************************************************)
(* A second-level cache (PTSCache.cc, class CacheL2), between its L1s and    *)
(* the directory.  A way has the state of the line for the directory (st),   *)
(* the state of the L1s' copies (st1), the L1s that have one (l1s), and the  *)
(* directory's command that waits for an L1 (pending).                      *)
(***************************************************************************)
EXTENDS CoherenceNet

Empty == [line |-> None, st |-> "I", st1 |-> "I", l1s |-> {}, pending |-> NoMsg]

Transient == {"tr_to_m", "tr_to_i", "tr_to_o"}

\* The first way that holds x, 0 if none.
Find2(c, x) ==
  LET ks == {k \in 1..Len(l2[c]) : l2[c][k].st # "I" /\ l2[c][k].line = x}
  IN IF ks = {} THEN 0 ELSE CHOOSE k \in ks : \A j \in ks : k <= j

Way(c, x) == IF Find2(c, x) = 0 THEN Empty ELSE l2[c][Find2(c, x)]

\* Line x of c becomes e and the most recently used, or becomes e in place.
Use(c, x, e)   == l2' = [l2 EXCEPT ![c] = Touch(@, Find2(c, x), e)]
Place(c, x, e) == l2' = [l2 EXCEPT ![c][Find2(c, x)] = e]

EvictL1s(ds, x) == To(ds, Msg("evict", "rep", x))
ToL1(m, type)   == To({m.l1}, As(m, type, "rep"))
ToDir(m, type)  == To({Dir}, As(m, type, "rep"))
Tell(type, x)   == To({Dir}, Msg(type, "rep", x))

\* m was asked for by a core: it goes on to the L1 (from.size() > 1).
ForCore(m) == m.op # "none"

Keep2 == UNCHANGED <<l1, dir, mem, reqs, load, out, left>>

-----------------------------------------------------------------------------
(* Replies and commands of the directory.                                  *)

\* The directory waits to hear whether a right to write was used.
KeepsQuiet(x) == Nothing      \* mutant: the directory is not told
Renounces(x) == Tell("e_to_i", x)

\* et_write_nd: the upgrade is granted, unless the line has changed since.
Granted2(c, m, i) ==
  /\ m.type = "write_nd"
  /\ IF Way(c, m.line).st # "tr_to_m"
     THEN /\ Pass(Dir, c, i, ToL1(m, "nack") ++ Renounces(m.line))
          /\ UNCHANGED l2
     ELSE /\ Use(c, m.line, [Way(c, m.line) EXCEPT !.st = "M", !.st1 = "M", !.l1s = {m.l1}])
          /\ Pass(Dir, c, i, EvictL1s(Way(c, m.line).l1s \ {m.l1}, m.line)
                               ++ ToL1(m, "write") ++ Tell("e_to_m", m.line))

\* What a way becomes; a command that waited in it is not forgotten.
Filled(m, l1s, pending) ==
  [line |-> m.line, pending |-> pending,
   st   |-> CASE m.type = "e_rd" -> "E" [] m.type = "s_rd" -> "S" [] OTHER -> "M",
   st1  |-> IF ~ForCore(m) THEN "I" ELSE IF m.type = "write" THEN "M" ELSE "E",
   l1s  |-> IF ForCore(m) THEN l1s \cup {m.l1} ELSE l1s]

Answer(m) == IF ForCore(m) THEN ToL1(m, IF m.type = "write" THEN "write" ELSE "read") ELSE Nothing

AnyWay(v) == TRUE             \* mutant: the state is not looked at
Replaceable(v) == v.st \notin Transient

\* An L1 is giving up the line, modified, for another L1 of this L2: its answer will find
\* no way when the line has been replaced, which Replaceable does not keep from happening.
GivingUp(v) == v.st1 \in {"tr_to_s", "tr_to_m"}

\* et_e_rd, et_s_rd, et_write for a line that is not here: it replaces the least
\* recently used one, unless that one is in a transient state.
FillMiss2(c, m, i) ==
  LET v == l2[c][1] IN
  /\ m.type \in {"e_rd", "s_rd", "write"} /\ Find2(c, m.line) = 0
  /\ IF ~Replaceable(v)
     THEN /\ Pass(Dir, c, i, (IF ForCore(m) THEN ToL1(m, "nack") ELSE Nothing)
                               ++ Tell("evict", m.line))
          /\ UNCHANGED l2
     ELSE /\ l2' = [l2 EXCEPT ![c] = Touch(@, 1, Filled(m, {}, v.pending))]
          /\ PassWith(Dir, c, i, EvictL1s(v.l1s, v.line)
                        ++ (IF v.st = "I" \/ v.st1 = "M" THEN Nothing
                            ELSE Tell(IF v.st = "O" THEN "evict_owned" ELSE "evict", v.line))
                        ++ Answer(m),
                      IF GivingUp(v) THEN {"replaced"} ELSE {})

\* The same for a line that is here: a read of modified data was overtaken.
FillHit2(c, m, i) ==
  LET e == Way(c, m.line) IN
  /\ m.type \in {"e_rd", "s_rd", "write"} /\ e # Empty
  /\ IF m.type # "write" /\ e.st = "M"
     THEN /\ Pass(Dir, c, i, IF ForCore(m) THEN ToL1(m, "rd_bypass") ELSE Nothing)
          /\ UNCHANGED l2
     ELSE /\ Use(c, m.line,
                 LET f == Filled(m, IF m.type = "write" THEN {} ELSE e.l1s, e.pending)
                 IN [f EXCEPT !.st1 = IF @ = "E" /\ m.type = "s_rd" THEN "S" ELSE @])
          /\ Pass(Dir, c, i, (IF m.type = "write" THEN EvictL1s(e.l1s \ {m.l1}, m.line) ELSE Nothing)
                               ++ Answer(m))

\* et_nack.
Refused2(c, m, i) ==
  /\ m.type = "nack"
  /\ Pass(Dir, c, i, IF ForCore(m) THEN ToL1(m, "nack") ELSE Nothing)
  /\ UNCHANGED l2

\* et_dir_rd: another L2 reads what is modified here; an L1 may have to write it back.
DirRead2(c, m, i) ==
  LET e == Way(c, m.line) IN
  /\ m.type = "dir_rd"
  /\ CASE e = Empty ->
            Pass(Dir, c, i, ToDir(m, "dir_rd_nd")) /\ UNCHANGED l2
       [] e # Empty /\ e.st1 \in {"I", "E", "S"} ->
            /\ Place(c, m.line, [e EXCEPT !.st = "O"])
            /\ Pass(Dir, c, i, ToDir(m, "dir_rd"))
       [] e.st1 = "M" ->
            /\ Place(c, m.line, [e EXCEPT !.st = "tr_to_o", !.st1 = "E", !.l1s = {}, !.pending = m])
            /\ Pass(Dir, c, i, To(e.l1s, Msg("dir_rd", "rep", m.line)))
       [] OTHER ->
            Place(c, m.line, [e EXCEPT !.pending = m]) /\ Pass(Dir, c, i, Nothing)

\* et_e_to_s, et_s_to_s, et_o_to_o: another L2 reads what is not modified here.
Share2(c, m, i) ==
  LET e == Way(c, m.line) IN
  /\ m.type \in {"e_to_s", "s_to_s", "o_to_o"}
  /\ IF e = Empty
     THEN Pass(Dir, c, i, ToDir(m, m.type \o "_nd")) /\ UNCHANGED l2
     ELSE /\ Place(c, m.line, [e EXCEPT !.st = IF @ = "O" THEN "O" ELSE "S"])
          /\ Pass(Dir, c, i, ToDir(m, m.type))

OnlyBelow(e) == [e EXCEPT !.st1 = "I", !.l1s = {}]      \* mutant: the L2 keeps the line
GivenUp(e) == Empty

\* et_invalidate, et_invalidate_nd: the line is given up, once an L1 that has it
\* modified, or is about to, has given it up.
Invalidate2(c, m, i) ==
  LET e == Way(c, m.line) IN
  /\ m.type \in {"invalidate", "invalidate_nd"}
  /\ CASE e = Empty ->
            Pass(Dir, c, i, ToDir(m, "invalidate_nd")) /\ UNCHANGED l2
       [] e.st = "M" /\ e.st1 = "M" ->
            /\ Place(c, m.line, [e EXCEPT !.st = "tr_to_i", !.st1 = "tr_to_i", !.l1s = {}, !.pending = m])
            /\ Pass(Dir, c, i, To(e.l1s, Msg("m_to_m", "rep", m.line)))
       [] e.st = "M" /\ e.st1 \in {"tr_to_m", "tr_to_s"} ->
            Place(c, m.line, [e EXCEPT !.st = "tr_to_i", !.pending = m]) /\ Pass(Dir, c, i, Nothing)
       [] OTHER ->
            /\ Place(c, m.line, GivenUp(e))
            /\ Pass(Dir, c, i, EvictL1s(e.l1s, m.line) ++ ToDir(m, m.type))

\* et_nop, of a broadcast invalidation.
Nop2(c, m, i) == m.type = "nop" /\ Pass(Dir, c, i, Nothing) /\ UNCHANGED l2

-----------------------------------------------------------------------------
(* Replies of an L1.                                                       *)

\* What an L1 gives up is awaited (else process_event stops on an ASSERTX).
Awaited2(c, m) ==
  m.type \in {"m_to_s", "m_to_m"} =>
    \/ (Way(c, m.line).st = "tr_to_i" /\ Way(c, m.line).pending # NoMsg)
    \/ GivingUp(Way(c, m.line))

\* et_m_to_s, et_m_to_m: the L1 that had the line modified answers.
Downgraded2(c, s, m, i) ==
  LET e == Way(c, m.line)
      waits == e.pending # NoMsg
  IN
  /\ m.type \in {"m_to_s", "m_to_m"} /\ Awaited2(c, m)
  /\ IF e.st = "tr_to_i" /\ waits
     THEN /\ Use(c, m.line, Empty)
          /\ Pass(s, c, i, (IF e.st1 = "tr_to_i" THEN Nothing ELSE ToL1(m, "nack"))
                   ++ (IF e.st1 \in {"tr_to_i", "tr_to_m"} THEN Nothing
                       ELSE EvictL1s(e.l1s \cup {m.l1}, m.line))
                   ++ ToDir(e.pending, e.pending.type))
     ELSE /\ Use(c, m.line,
                 [e EXCEPT !.st  = IF waits THEN "S" ELSE @,
                           !.st1 = IF @ = "tr_to_s" THEN "S" ELSE IF waits THEN "I" ELSE "M",
                           !.l1s = @ \cup {m.l1}, !.pending = NoMsg])
          /\ Pass(s, c, i, ToL1(m, IF m.type = "m_to_s" THEN "read" ELSE IF waits THEN "nack" ELSE "write")
                   ++ (IF waits THEN ToDir(e.pending, e.pending.type) ELSE Nothing))

\* et_evict, et_evict_nd: what the L1 writes back completes a read of the directory,
\* or goes on to the directory when the line is not here any more.
Evicted2(c, s, m, i) ==
  LET e == Way(c, m.line) IN
  /\ m.type \in {"evict", "evict_nd"}
  /\ CASE e = Empty ->
            /\ Pass(s, c, i, IF m.type = "evict" THEN Tell("evict", m.line) ELSE Nothing)
            /\ UNCHANGED l2
       [] e.st = "tr_to_o" ->
            /\ Place(c, m.line, [e EXCEPT !.st = "O", !.pending = NoMsg, !.l1s = @ \cup {s}])
            /\ Pass(s, c, i, ToDir(e.pending, e.pending.type))
       [] OTHER ->
            /\ Use(c, m.line,
                   [e EXCEPT !.l1s = @ \ {s},
                             !.st1 = IF e.l1s \subseteq {s} /\ @ \notin {"tr_to_s", "tr_to_m", "tr_to_i"}
                                     THEN "I" ELSE @])
            /\ Pass(s, c, i, Nothing)

Reply2(c, class) ==
  /\ \/ \E i \in 1..Len(net[<<Dir, c>>]) :
          LET m == net[<<Dir, c>>][i] IN
          /\ Arrives(Dir, c, i) /\ m.class = class
          /\ \/ Granted2(c, m, i) \/ FillMiss2(c, m, i) \/ FillHit2(c, m, i) \/ Refused2(c, m, i)
             \/ DirRead2(c, m, i) \/ Share2(c, m, i) \/ Invalidate2(c, m, i) \/ Nop2(c, m, i)
     \/ \E s \in {d \in L1s : L2Of[d] = c} : \E i \in 1..Len(net[<<s, c>>]) :
          LET m == net[<<s, c>>][i] IN
          /\ Arrives(s, c, i) /\ m.class = class
          /\ Downgraded2(c, s, m, i) \/ Evicted2(c, s, m, i)
  /\ Keep2

-----------------------------------------------------------------------------
(* Requests of an L1.                                                      *)

Stable == {"E", "S", "M", "O"}

ToDirReq(c, m) == To({Dir}, [As(m, m.type, "req") EXCEPT !.l2 = c])

\* The line, or the right to write it, is asked of the directory.
Miss2(c, s, m, i) ==
  /\ Find2(c, m.line) = 0
  /\ Pass(s, c, i, ToDirReq(c, m))
  /\ UNCHANGED l2

\* A prefetch of what is here has nothing to do.
Prefetch2(c, s, m, i) ==
  /\ Find2(c, m.line) # 0 /\ ~ForCore(m) /\ m.type = "read"
  /\ Pass(s, c, i, Nothing)
  /\ UNCHANGED l2

\* A request for a line on its way between two states is refused.
Busy(e) == \/ e.st1 \in {"tr_to_s", "tr_to_m", "tr_to_i"}
           \/ e.st = "tr_to_m"
           \/ e.st = "tr_to_o" /\ e.st1 = "E"

Busy2(c, s, m, i) ==
  /\ Find2(c, m.line) # 0 /\ ForCore(m) /\ Busy(Way(c, m.line))
  /\ Use(c, m.line, Way(c, m.line))
  /\ Pass(s, c, i, ToL1(m, "nack"))

\* The L1 that has the line modified gives it up for m, and answers with m.
TakeFrom(c, s, m, i, type, st1) ==
  LET e == Way(c, m.line) IN
  /\ Use(c, m.line, [e EXCEPT !.st1 = st1, !.l1s = {}])
  /\ Pass(s, c, i, To(e.l1s, As(m, type, "rep")))

\* The only L1 with the line modified is not the one that asks.
Elsewhere(e, m) == e.st = "M" /\ e.st1 = "M" /\ e.l1s \ {m.l1} # {}

Read2(c, s, m, i) ==
  LET e == Way(c, m.line) IN
  /\ m.type = "read" /\ ForCore(m) /\ e.st \in Stable /\ ~Busy(e)
  /\ IF Elsewhere(e, m)
     THEN TakeFrom(c, s, m, i, "m_to_s", "tr_to_s")
     ELSE /\ Use(c, m.line,
                 [e EXCEPT !.l1s = @ \cup {m.l1},
                           !.st1 = CASE @ = "I" -> "E"
                                     [] @ = "E" -> IF e.l1s \subseteq {m.l1} THEN "E" ELSE "S"
                                     [] @ = "M" -> IF e.l1s = {} THEN "S" ELSE "M"
                                     [] @ = "S" -> "S"])
          /\ Pass(s, c, i, ToL1(m, "read"))

\* The line is modified here: the other L1s lose it.
Write2(c, s, m, i) ==
  LET e == Way(c, m.line) IN
  /\ m.type = "write" /\ e.st = "M" /\ ~Busy(e)
  /\ IF Elsewhere(e, m)
     THEN TakeFrom(c, s, m, i, "m_to_m", "tr_to_m")
     ELSE /\ Use(c, m.line, [e EXCEPT !.st1 = "M", !.l1s = IF e.st1 = "I" THEN @ \cup {m.l1} ELSE {m.l1}])
          /\ Pass(s, c, i, (IF e.st1 = "I" THEN Nothing ELSE EvictL1s(e.l1s \ {m.l1}, m.line))
                             ++ ToL1(m, "write"))

\* The line may be read here but not written: it is given up, unless the L1 that
\* asks is the only one that has it, and the right to write is asked of the directory.
Upgrade2(c, s, m, i) ==
  LET e == Way(c, m.line) IN
  /\ m.type = "write" /\ e.st \in {"E", "S", "O"}
  /\ IF e.st = "E" /\ e.l1s = {m.l1}
     THEN /\ Place(c, m.line, [e EXCEPT !.st = "tr_to_m"])
          /\ Pass(s, c, i, ToDirReq(c, m))
     ELSE /\ IF e.l1s = {} THEN UNCHANGED l2 ELSE Place(c, m.line, Empty)
          /\ Pass(s, c, i, EvictL1s(e.l1s \ {m.l1}, m.line) ++ ToDirReq(c, m))

Access2(c) ==
  /\ \E s \in {d \in L1s : L2Of[d] = c} : \E i \in 1..Len(net[<<s, c>>]) :
       LET m == net[<<s, c>>][i] IN
       /\ Arrives(s, c, i) /\ m.class = "req"
       /\ \/ Miss2(c, s, m, i) \/ Prefetch2(c, s, m, i) \/ Busy2(c, s, m, i)
          \/ Read2(c, s, m, i) \/ Write2(c, s, m, i) \/ Upgrade2(c, s, m, i)
  /\ Keep2

-----------------------------------------------------------------------------
\* The ASSERTX of process_event, of a message m of the directory or of an L1.
Expects2(c, m) ==
  LET e == Way(c, m.line) IN
  e # Empty =>
    CASE m.type = "dir_rd" ->
           /\ e.st = "M"
           /\ e.st1 = "M" => Cardinality(e.l1s) = 1
           /\ e.st1 \in {"tr_to_m", "tr_to_s"} => e.pending = NoMsg
           /\ e.st1 # "tr_to_i"
      [] m.type \in {"e_to_s", "s_to_s", "o_to_o"} -> e.st \in {"E", "S", "O", "tr_to_m"}
      [] m.type \in {"invalidate", "invalidate_nd"} ->
           /\ e.st \notin {"tr_to_i", "tr_to_o"}
           /\ e.st = "M" /\ e.st1 = "M" => Cardinality(e.l1s) = 1
           /\ e.st = "M" /\ e.st1 \in {"tr_to_m", "tr_to_s"} => e.pending = NoMsg
      [] m.class = "req" /\ ForCore(m) ->
           \/ m.type = "write" /\ e.st \in {"E", "S", "O"}
           \/ Busy(e)
           \/ /\ e.st \in Stable /\ (e.st1 = "M" => e.st = "M")
              /\ e.st = "M" /\ e.st1 = "M" /\ m.type = "read"  => Cardinality(e.l1s) <= 1
              /\ e.st = "M" /\ e.st1 = "M" /\ m.type = "write" => Cardinality(e.l1s) = 1
              /\ e.st = "M" /\ e.st1 = "E" /\ m.type = "write" => Cardinality(e.l1s) <= 1
      [] OTHER -> TRUE

=============================================================================
