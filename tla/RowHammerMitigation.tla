---------------------------- MODULE RowHammerMitigation ----------------------------
(* What a RowHammer tracker of the memory controller promises, whatever its         *)
(* tables: a row is never activated more than Limit times between two moments at    *)
(* which the tracker asked for a mitigation of that row or forgot it on purpose (a  *)
(* reset that goes with the periodic refresh).  Graphene, Hydra and ABACuS are each *)
(* shown to implement this specification, with the Limit their own counters give.   *)
EXTENDS Naturals

CONSTANTS Row,      \* the rows (or bank/row pairs) the tracker watches
          Limit     \* activations a row may get without a mitigation

VARIABLE unmitigated    \* unmitigated[r]: activations of r since its last mitigation

Init == unmitigated = [r \in Row |-> 0]

\* An activation of r, which may make the tracker mitigate the rows of S.
Activate(r) ==
    \E S \in SUBSET Row :
        /\ unmitigated' = [x \in Row |-> IF x \in S THEN 0
                                         ELSE IF x = r THEN unmitigated[x] + 1
                                         ELSE unmitigated[x]]
        /\ unmitigated'[r] <= Limit

\* A periodic refresh, which may clear the history of the rows of S.
Refresh ==
    \E S \in SUBSET Row :
        unmitigated' = [x \in Row |-> IF x \in S THEN 0 ELSE unmitigated[x]]

Next == Refresh \/ \E r \in Row : Activate(r)

Spec == Init /\ [][Next]_unmitigated

Bounded == \A r \in Row : unmitigated[r] \in 0..Limit
=====================================================================================
