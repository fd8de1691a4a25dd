---------------------------------- MODULE PtsTurn ----------------------------------
(* What the front-ends and the timing simulator promise each other: one program     *)
(* runs at a time, each of its requests gets exactly one answer and that answer is   *)
(* of the kind it asked for, and the turn passes only through a resume request, to   *)
(* a program that is itself waiting for one to be answered.                          *)
CONSTANTS Program,
          Plain,       \* requests that keep the turn
          Waiting,     \* requests that give it away and may get it back
          Leaving,     \* requests that give it away for good
          None

Switching == Waiting \cup Leaving

VARIABLES turn,      \* the program the simulator serves
          asked,     \* asked[p]: the request p waits on, None while it computes
          answer     \* answer[p]: the request an answer p has not read yet is for
vars == <<turn, asked, answer>>

Init ==
    /\ turn \in Program
    /\ asked \in [Program -> {None} \cup Waiting]
    /\ \A p \in Program : asked[p] = None <=> p = turn
    /\ answer = [p \in Program |-> None]

Ask(p) ==
    /\ turn = p /\ asked[p] = None
    /\ \E k \in Plain \cup Switching : asked' = [asked EXCEPT ![p] = k]
    /\ UNCHANGED <<turn, answer>>

Answer(p) ==
    /\ turn = p /\ asked[p] \in Plain /\ answer[p] = None
    /\ answer' = [answer EXCEPT ![p] = asked[p]]
    /\ UNCHANGED <<turn, asked>>

Switch(p, q) ==
    /\ turn = p /\ asked[p] \in Switching /\ answer[p] = None
    /\ asked[q] \in Waiting
    /\ turn' = q
    /\ answer' = [answer EXCEPT ![q] = asked[q]]
    /\ UNCHANGED asked

Receive(p) ==
    /\ answer[p] # None /\ answer[p] = asked[p]
    /\ asked' = [asked EXCEPT ![p] = None]
    /\ answer' = [answer EXCEPT ![p] = None]
    /\ UNCHANGED turn

Next == \E p \in Program : Ask(p) \/ Answer(p) \/ Receive(p) \/ \E q \in Program : Switch(p, q)

Spec == Init /\ [][Next]_vars
=====================================================================================
