---------------------------------- MODULE MCGraphene ----------------------------------
(* Graphene on one bank of four rows: a table of three entries, so that rows are       *)
(* evicted, and a refresh window of four auto-refresh commands with two flushes.       *)
EXTENDS Graphene, TLC

CONSTANTS r1, r2, r3, r4

MCRow == {r1, r2, r3, r4}
MCFlushTime == {0, 2}
MCGroupOf == (r1 :> 0) @@ (r2 :> 1) @@ (r3 :> 3) @@ (r4 :> 3)
=======================================================================================
