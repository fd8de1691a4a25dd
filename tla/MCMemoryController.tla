------------------------------ MODULE MCMemoryController ------------------------------
(* A small instance of MemoryController for TLC: requests of two threads that miss each  *)
(* other's rows in one bank, and a write to a bank of the other rank; the ranks are      *)
(* refreshed in turn.                                                                    *)
EXTENDS MemoryController

CONSTANTS q1, q2, q3

MCThread == {0, 1}
MCPage == {0, 1}
MCRequest == {q1, q2, q3}
Fetch(th, p) == [th_id |-> th, bank |-> <<0, 0>>, page |-> p, write |-> FALSE]
Store == [th_id |-> 0, bank |-> <<1, 1>>, page |-> 0, write |-> TRUE]
TwoRanks == [q \in MCRequest |->
               CASE q = q1 -> Fetch(0, 0) [] q = q2 -> Fetch(1, 1) [] q = q3 -> Store]

\* An auto-refresh takes five intervals and comes every eight, to a rank every sixteen.
\* A swap takes longer than that, as in the machine descriptions, so that the next
\* auto-refresh of its rank cuts it short, and the mitigations of a bank may be cut short;
\* an RFM is shorter than an auto-refresh, and cuts it short.
MCService == [bank |-> 8, rank |-> 17, rfm |-> 1]

EachMode == {<<"bank", "m_open">>, <<"rank", "closed">>, <<"rfm", "open">>}
=====================================================================================
