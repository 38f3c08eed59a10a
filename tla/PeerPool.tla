------------------------------- MODULE PeerPool -------------------------------
(***************************************************************************)
(* What the peer manager promises to Filter, Light Push and Store: a pool  *)
(* of at most Size open connections.  A connection stays in the pool until *)
(* it closes; others join it as connections open, as connections close, or *)
(* when a user of the pool asks for more.                                  *)
(***************************************************************************)
EXTENDS Naturals, FiniteSets

CONSTANTS Conn, Size

VARIABLES open, pool

Init == open = {} /\ pool = {}

\* new joins the members that are still open, if there is room.
Join(kept, new) ==
    /\ pool' = kept \cup new
    /\ Cardinality(pool') <= Size

Opens(c) ==
    /\ c \notin open
    /\ open' = open \cup {c}
    /\ \E new \in SUBSET {c} : Join(pool, new)

Closes(c) ==
    /\ c \in open
    /\ open' = open \ {c}
    /\ \E new \in SUBSET open' : Join(pool \ {c}, new)

Renews == \E new \in SUBSET open : Join(pool, new) /\ UNCHANGED open

Next == Renews \/ \E c \in Conn : Opens(c) \/ Closes(c)

Spec == Init /\ [][Next]_<<open, pool>>
=============================================================================
