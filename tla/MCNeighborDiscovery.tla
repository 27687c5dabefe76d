------------------------ MODULE MCNeighborDiscovery ------------------------
EXTENDS NeighborDiscovery, TLC

CONSTANTS n1, n2, i1, i2

(* Two neighbours share the first interface; nobody is on the second.      *)
MCInterfaces == <<i1, i2>>
MCLink == (n1 :> i1) @@ (n2 :> i1)

=============================================================================
