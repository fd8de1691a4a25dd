------------------------------ MODULE MCPthreadSim ------------------------------
(* Small instances of PthreadSim for TLC: three threads that run one of five         *)
(* programs, each with the calls that interact.                                      *)
EXTENDS PthreadSim
CONSTANTS m1, m2, c1, b1, h1, o1, d1
MCKind == [m \in {m1, m2} |-> IF m = m1 THEN "recursive" ELSE "errorcheck"]
ThreeParticipants == [b \in {b1} |-> 3]
MCPrograms ==
    {[does |-> {"mutex", "cond", "join", "cancel"}, mutexes |-> {m1}],
     [does |-> {"mutex", "barrier", "join", "yield"}, mutexes |-> {m2}],
     [does |-> {"join", "cancel", "cancelstate"}, mutexes |-> {}],
     [does |-> {"keys", "join"}, mutexes |-> {}],
     [does |-> {"cleanup", "malloc", "cancel"}, mutexes |-> {}]}
=====================================================================================
