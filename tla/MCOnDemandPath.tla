--------------------------- MODULE MCOnDemandPath ---------------------------
EXTENDS OnDemandPath, TLC

CONSTANTS p1, p2, d1, d2

MCDst == (p1 :> d1) @@ (p2 :> d2)
MCDstOne == (p1 :> d1) @@ (p2 :> d1)

=============================================================================
