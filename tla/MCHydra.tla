------------------------------------ MODULE MCHydra ------------------------------------
(* Hydra on two ranks: r1 and r2 share a group counter but not a rank, r3 has a group   *)
(* of its own, and the cache holds one row, so that r1 and r2 evict one another.        *)
EXTENDS Hydra, TLC

CONSTANTS r1, r2, r3

MCRow == {r1, r2, r3}
MCGctIdx == {0, 1}
MCIdxOf == (r1 :> 0) @@ (r2 :> 0) @@ (r3 :> 1)
MCRankOf == (r1 :> 0) @@ (r2 :> 1) @@ (r3 :> 0)
MCRefreshOf == (r1 :> 0) @@ (r2 :> 1) @@ (r3 :> 2)
=========================================================================================
