------------------------- MODULE MCFilterSubscription -------------------------
(* Peers, topics and messages for TLC.                                     *)
EXTENDS FilterSubscription, TLC

CONSTANTS a, b, t1, t2, u1, u2, m1

\* The peers a and b are alike, as are the calls u1 and u2, and no property has
\* fairness.
PeerSymmetry == Permutations({a, b})
CallSymmetry == Permutations({u1, u2})

MCTopicOf == [m \in Message |-> t1]
=============================================================================
