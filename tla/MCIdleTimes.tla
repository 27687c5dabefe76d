---------------------------- MODULE MCIdleTimes ----------------------------
EXTENDS IdleTimes, TLC

CONSTANTS e, n, d, c1, c2

(* Packets from a destination behind a neighbour to another neighbour.     *)
MCFlows == {<<d, e>>}
MCOrder == <<d, e, n>>
MCNextHop == (n :> n) @@ (d :> n) @@ (e :> e)
Symmetry == Permutations(Cpus)

=============================================================================
