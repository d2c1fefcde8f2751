------------------------------ MODULE MCHandoff ------------------------------
(* Small clusters for Handoff: three places on the ring, of which the first *)
(* owns one timer and the second the other.                                 *)
EXTENDS HandoffInv

CONSTANTS n1, n2, n3, t1, t2

Clockwise ==
  [t \in Timer |->
    [n \in Node |->
      IF t = t1 THEN CASE n = n1 -> 1 [] n = n2 -> 2 [] n = n3 -> 3
                ELSE CASE n = n1 -> 3 [] n = n2 -> 1 [] n = n3 -> 2]]
=============================================================================
