------------------------------------ MODULE MCO3Core ------------------------------------
(* Two cores that meet twice at one barrier: the first with accesses that depend on one  *)
(* another through registers, words and a branch, the second with instructions of other  *)
(* kinds.  The first thread blocks on the way.                                            *)
EXTENDS O3Core

CONSTANTS c1, c2

Ins(l, reads, write, type, rr, rw) ==
    [line |-> l, reads |-> reads, write |-> write, type |-> type, rr |-> rr, rw |-> rw,
     ip |-> 0, n |-> 0]
Meet(l) == [Ins(l, <<>>, NoAddr, "barrier", {}, {}) EXCEPT !.ip = 1, !.n = 2]

MCCore == {c1, c2}
Loads == <<Ins(1, <<"x">>, NoAddr, "alu", {}, {1}),
           Ins(1, <<"y", "x">>, "w", "branch", {1}, {1, 2}),
           Ins(2, <<>>, NoAddr, "alu", {2}, {1}),
           Meet(2), Meet(2),
           Ins(2, <<>>, NoAddr, "waitfor", {}, {3})>>
Others == <<Ins(1, <<"z">>, NoAddr, "prefetch", {}, {}),
            Meet(1), Meet(1),
            Ins(2, <<>>, NoAddr, "notify", {}, {3})>>
MCProgram == [c \in MCCore |-> IF c = c1 THEN Loads ELSE Others]
MCBlocks == [c \in MCCore |-> IF c = c1 THEN {5} ELSE {}]
=========================================================================================
