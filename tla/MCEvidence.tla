----------------------------- MODULE MCEvidence -----------------------------
(* Both communities of the source, two submissions to the first of them. *)
EXTENDS Evidence, TLC

CONSTANTS gaminglaptops, minipcs, p1, p2, p3

AfterMC == gaminglaptops :> minipcs @@ minipcs :> gaminglaptops
HomeMC == p1 :> gaminglaptops @@ p2 :> gaminglaptops @@ p3 :> minipcs
=============================================================================
