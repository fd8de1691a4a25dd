----------------------------- MODULE Coherence -----------------------------
(***************************************************************************)
(* The cache hierarchy: first-level caches, second-level caches and the     *)
(* directory, exchanging messages.  Every component takes what arrives in   *)
(* an order its queues allow; the delays of the paths are left open, so the *)
(* requests, commands and answers of one line cross in every way.           *)
(***************************************************************************)
EXTENDS CacheL1, CacheL2, Directory

Init ==
  /\ load \in Loads
  /\ l1 = [c \in L1s |-> [k \in 1..L1Ways |-> NoWay]]
  /\ l2 = [c \in L2s |-> [k \in 1..load.l2ways |-> Empty]]
  /\ dir = [x \in Lines |-> NoEntry]
  /\ net = [p \in Links |-> <<>>]
  /\ mem = {}
  /\ reqs = [c \in L1s |-> [a \in Access |-> 0]]
  /\ out = [c \in L1s |-> 0]
  /\ left = load.accesses
  /\ mishaps = {}

Next ==
  \/ \E c \in L1s : Issue(c) \/ Access1(c) \/ Reply1(c)
  \/ \E c \in L2s : Reply2(c, "rep") \/ Reply2(c, "crq") \/ Access2(c)
  \/ ReplyD \/ RequestD \/ FromMemory

(***************************************************************************)
(* Every event of the global queue is processed, so a component is fair to  *)
(* its replies.  In a queue, or a crossbar, a request or a command waits      *)
(* while replies overtake it, so it is not enabled all the time, but no       *)
(* class is starved: a pass of the arbiter serves every class that has room. *)
(* A core need not make another access.                                     *)
(***************************************************************************)
Fairness ==
  /\ \A c \in L1s : WF_vars(Access1(c)) /\ WF_vars(Reply1(c))
  /\ \A c \in L2s : WF_vars(Reply2(c, "rep")) /\ SF_vars(Reply2(c, "crq")) /\ SF_vars(Access2(c))
  /\ WF_vars(ReplyD) /\ SF_vars(RequestD) /\ WF_vars(FromMemory)

Spec == Init /\ [][Next]_vars /\ Fairness

-----------------------------------------------------------------------------
\* The component that message m of path p goes to has a branch for it, not an ASSERTX.
Expected(p, m) ==
  CASE p[2] \in L1s -> Expects1(p[2], m)
    [] p[2] \in L2s -> Expects2(p[2], m) /\ Awaited2(p[2], m)
    [] OTHER        -> ExpectsD(m)

\* No order of messages reaches an ASSERTX of CacheL1, CacheL2 or Directory
\* (process_event): a directory read finds its line modified, an answer of an L1 is
\* awaited, a command meets a state the protocol has for it.
AssertsAlwaysHold ==
  \A p \in Links : \A i \in 1..Len(net[p]) : Arrives(p[1], p[2], i) => Expected(p, net[p][i])

\* The same, unless an answer or an eviction has been overtaken, or a line that an L1 is
\* giving up has been replaced: no other order of messages, on any network, no refusal,
\* eviction or prefetch in between, reaches an ASSERTX.
AssertsHold ==
  mishaps = {} => \A p \in Links : \A i \in 1..Len(net[p]) :
    Arrives(p[1], p[2], i) /\ ~Overtakes(p[1], p[2], i) => Expected(p, net[p][i])

\* Short of such a mishap, at no time do two L2s have a line modified (the data of one
\* would be lost), whatever the cores have under way and however invalidations, fills and
\* requests cross.
OneWriter ==
  mishaps = {} => \A x \in Lines : Cardinality({c \in L2s : Way(c, x).st = "M"}) <= 1

-----------------------------------------------------------------------------
\* No message is under way and no request waits.
Settled ==
  /\ \A p \in Links : net[p] = <<>>
  /\ mem = {}
  /\ \A c \in L1s : \A a \in Access : reqs[c][a] = 0

\* At most one access at a time below each L2: an in-order core of its own
\* (mimick_inorder) that does not prefetch.
OneAtATime ==
  /\ ~load.prefetch
  /\ \A c \in L1s : load.window[c] <= 1
  /\ \A c, d \in L1s : c # d /\ L2Of[c] = L2Of[d] => load.window[c] + load.window[d] <= 1

\* When traffic has settled without a mishap every access has been answered, and neither a
\* cache nor the directory is left in a transient state or with a request that waits:
\* nothing would ever move it on (every later request for the line is refused).
NothingPending == mishaps = {} /\ Settled =>
  /\ \A c \in L1s : out[c] = 0
  /\ \A x \in Lines : dir[x].st \notin TransientD /\ dir[x].pending = NoMsg
  /\ \A c \in L2s, x \in Lines : /\ Way(c, x).st \notin Transient
                                 /\ Way(c, x).st1 \notin {"tr_to_s", "tr_to_m", "tr_to_i"}

\* When traffic has settled without a mishap, the three levels agree on who has what: an L2
\* that has a line modified is alone, the directory lists every L2 that has the line, and
\* an L2 lists every L1 that has it.  (With more than one access at a time they need not.)
LevelsAgree == mishaps = {} /\ OneAtATime /\ Settled =>
  /\ \A x \in Lines : \A c, d \in L2s : c # d /\ Way(c, x).st = "M" => Way(d, x) = Empty
  /\ \A c \in L2s, x \in Lines : Way(c, x) # Empty => c \in dir[x].l2s
  /\ \A c \in L1s, x \in Lines : StateOf(c, x) # "I" => c \in Way(L2Of[c], x).l1s
  /\ \A c \in L1s, x \in Lines : StateOf(c, x) = "M" => Way(L2Of[c], x).st = "M"

\* An access is answered, however often it is refused (et_nack) first, unless a mishap
\* stops the program or the protocol.
Answered == OneAtATime /\ [](mishaps = {}) => \A c \in L1s : []<>(out[c] = 0)

=============================================================================
