----------------------------- MODULE MCStories ------------------------------
(* Instance of Stories for TLC: two manufacturers, one with two products.   *)
EXTENDS Stories, TLC

CONSTANTS o1, o2, p1, p2, p3, part1, memory1

Makes == p1 :> o1 @@ p2 :> o1 @@ p3 :> o2
=============================================================================
