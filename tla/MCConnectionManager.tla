------------------------- MODULE MCConnectionManager -------------------------
(* Instances of ConnectionManager for TLC: two bootstrap peers, two peers   *)
(* found otherwise, and for each a call of the constructor's scan (s), of a *)
(* discovery (d) or of the application (x).                                 *)
EXTENDS ConnectionManager

CONSTANTS b1, b2, p1, p2,
          sb1, sp1, db1, db2, dp1, dp2, xp1

\* The peer of each call, by the call's name.
TargetOf(r) ==
    CASE r \in {sb1, db1}      -> b1
      [] r = db2               -> b2
      [] r \in {sp1, dp1, xp1} -> p1
      [] r = dp2               -> p2

MCTarget == [r \in Request |-> TargetOf(r)]
=============================================================================
