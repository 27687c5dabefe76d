----------------------------- MODULE MCOdsKernel -----------------------------
(* Two packets for one destination and one for another.                    *)
EXTENDS OdsKernel, TLC

CONSTANTS p1, p2, p3, d1, d2

MCDst == (p1 :> d1) @@ (p2 :> d1) @@ (p3 :> d2)

(* Contexts are interchangeable, and so are the two packets for d1.        *)
MCSymmetry == Permutations(Contexts) \cup Permutations({p1, p2})
=============================================================================
