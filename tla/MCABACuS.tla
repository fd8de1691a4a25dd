----------------------------------- MODULE MCABACuS -----------------------------------
(* ABACuS on a rank of two banks with rows 0, r1, r2, r3 and, in one run, enough rows *)
(* to fill a table of six entries one by one.                                            *)
EXTENDS ABACuS, TLC

CONSTANTS r0, r1, r2, r3, r4, r5, r6, b1, b2

MCRow == {r0, r1, r2, r3}
MCManyRows == {r0, r1, r2, r3, r4, r5, r6}
MCBank == {b1, b2}
MCOneBank == {b1}
MCRefreshOf == (r0 :> 0) @@ (r1 :> 1) @@ (r2 :> 0) @@ (r3 :> 0)
MCAllAtOnce == [r \in MCManyRows |-> 0]
MCSymmetry == Permutations(MCBank) \cup Permutations({r2, r3})
MCRowSymmetry == Permutations(MCManyRows \ {r0})
MCWatched == {r1}
MCWatchedZero == {r0}
=======================================================================================
