-------------------------- MODULE PeerManager_proofs --------------------------
(* Theorems about PeerManager, for every finite set of connections and every *)
(* value of numPeersToUse; and about LightPush, which works with its pool:   *)
(* its retries go round the pool of the moment they began, whatever its size *)
(* and however the pool changes meanwhile, and the pool is what the peer     *)
(* manager makes of it.                                                      *)
EXTENDS LightPush, FiniteSetTheorems, SequenceTheorems, TLAPS

LEMMA FiniteConns ==
    \A S : S \subseteq Conn => IsFiniteSet(S) /\ Cardinality(S) \in Nat
  BY ConnAssumption, FS_Subset, FS_CardinalityType

\* A smaller set of connections has no more members.
LEMMA Smaller ==
    ASSUME NEW S, NEW T, T \subseteq Conn, S \subseteq T
    PROVE  Cardinality(S) <= Cardinality(T)
  BY FiniteConns, FS_Subset

\* The abstract pool counts as this module does.
LEMMA SameCardinality == \A S : AbstractPool!Cardinality(S) = Cardinality(S)
  BY DEF AbstractPool!Cardinality, Cardinality

-----------------------------------------------------------------------------
(***************************************************************************)
(* requestRenew.  With a pool within its budget it locks open connections  *)
(* of other peers, keeps what was locked, stays within the budget, and     *)
(* either fills the pool or leaves no connection of another peer unlocked. *)
(***************************************************************************)
LEMMA RenewLocks ==
    ASSUME NEW p, NEW open, NEW tagged,
           open \subseteq Conn,
           Cardinality(open \cap tagged) <= NumPeersToUse,
           Renew(p, open, tagged)
    PROVE  /\ tagged \subseteq locked' /\ locked' \subseteq tagged \cup open
           /\ Cardinality(open \cap locked') <= NumPeersToUse
           /\ \/ Cardinality(open \cap locked') = NumPeersToUse
              \/ \A c \in open : c \in locked' \/ PeerOf[c] = p
  <1> DEFINE pool == open \cap tagged
             needed == NumPeersToUse - Cardinality(pool)
             others == {c \in open \ tagged : PeerOf[c] # p}
  <1>1. /\ IsFiniteSet(pool) /\ Cardinality(pool) \in Nat
        /\ IsFiniteSet(others) /\ Cardinality(others) \in Nat
        /\ needed \in Nat
    BY FiniteConns, SizeAssumption
  <1>2. CASE needed = 0
    <2>1. locked' = tagged
      BY <1>2 DEF Renew
    <2>2. Cardinality(open \cap locked') = NumPeersToUse
      BY <1>1, <1>2, <2>1, SizeAssumption
    <2>3. QED BY <2>1, <2>2, SizeAssumption
  <1>3. CASE needed # 0
    <2>1. PICK new \in SUBSET others :
             /\ IF Cardinality(others) >= needed
                  THEN Cardinality(new) = needed ELSE new = others
             /\ locked' = tagged \cup new
      BY <1>3 DEF Renew
    <2>2. open \cap locked' = pool \cup new /\ pool \cap new = {}
      BY <2>1
    <2>3. IsFiniteSet(new) /\ Cardinality(new) \in Nat
      BY <2>1, FiniteConns
    <2>4. Cardinality(pool \cup new) = Cardinality(pool) + Cardinality(new)
      <3>1. Cardinality(pool \cup new)
              = Cardinality(pool) + Cardinality(new) - Cardinality(pool \cap new)
        BY <1>1, <2>3, FS_Union
      <3>2. Cardinality(pool \cap new) = 0
        BY <2>2, FS_EmptySet
      <3>3. QED BY <1>1, <2>3, <3>1, <3>2
    <2>c. Cardinality(open \cap locked') = Cardinality(pool) + Cardinality(new)
      BY <2>2, <2>4
    <2>n. needed = NumPeersToUse - Cardinality(pool)
      OBVIOUS
    <2>5. CASE Cardinality(others) >= needed
      <3>1. Cardinality(new) = needed
        BY <2>1, <2>5
      <3> HIDE DEF pool, needed, others
      <3>2. Cardinality(open \cap locked') = NumPeersToUse
        BY <1>1, <2>c, <2>n, <3>1, SizeAssumption
      <3> USE DEF pool, needed, others
      <3>3. QED BY <2>1, <3>2, SizeAssumption
    <2>6. CASE ~(Cardinality(others) >= needed)
      <3>1. new = others
        BY <2>1, <2>6
      <3> HIDE DEF pool, needed, others
      <3>2. Cardinality(open \cap locked') <= NumPeersToUse
        BY <1>1, <2>c, <2>n, <2>6, <3>1, SizeAssumption
      <3> USE DEF pool, needed, others
      <3>3. QED BY <2>1, <3>1, <3>2
    <2>7. QED BY <2>5, <2>6
  <1>4. QED BY <1>2, <1>3

-----------------------------------------------------------------------------
(***************************************************************************)
(* The budget.  LockedWithinBudget is inductive with TypeOK; each step of  *)
(* the proof also gives the step of PeerPool that the action implements.   *)
(***************************************************************************)
Inv == TypeOK /\ LockedWithinBudget

LEMMA OpenAfter ==
    ASSUME TypeOK, NEW c \in Conn
    PROVE  /\ state' = [state EXCEPT ![c] = "open"] => Open' = Open \cup {c}
           /\ state' = [state EXCEPT ![c] = "closing"] => Open' = Open \ {c}
           /\ state' = [state EXCEPT ![c] = "absent"] => Open' = Open \ {c}
  BY DEF TypeOK, Open

\* What a step must do: keep Inv, and be a step of the abstract pool.
Implements == Inv' /\ [AbstractPool!Next]_<<Open, Pool>>

LEMMA OpensStep ==
    ASSUME Inv, NEW c \in Conn, ConnectionOpens(c)
    PROVE  Implements
  <1>1. Open' = Open \cup {c} /\ c \notin Open /\ c \notin locked
    BY OpenAfter DEF Inv, TypeOK, ConnectionOpens, Open
  <1>2. TypeOK'
    BY DEF Inv, TypeOK, ConnectionOpens, LockIfNeeded
  <1>3. CASE locked' = locked
    <2>1. Pool' = Pool
      BY <1>1, <1>3 DEF Pool
    <2>2. LockedWithinBudget'
      BY <2>1 DEF Inv, LockedWithinBudget
    <2>3. AbstractPool!Opens(c)
      <3>1. {} \in SUBSET {c} /\ Pool' = Pool \cup {}
        BY <2>1
      <3>2. AbstractPool!Join(Pool, {})
        BY <2>2, <3>1, SameCardinality DEF AbstractPool!Join, LockedWithinBudget
      <3>3. QED BY <1>1, <3>1, <3>2 DEF AbstractPool!Opens
    <2>4. QED BY <1>2, <2>2, <2>3 DEF Implements, Inv, AbstractPool!Next
  <1>4. CASE locked' # locked
    <2>1. /\ locked' = locked \cup {c}
          /\ NumPeersToUse - Cardinality(Pool) # 0
      BY <1>4 DEF ConnectionOpens, LockIfNeeded
    <2>2. Pool' = Pool \cup {c}
      BY <1>1, <2>1 DEF Pool
    <2>3. /\ IsFiniteSet(Pool) /\ Cardinality(Pool) \in Nat
          /\ Cardinality(Pool) <= NumPeersToUse
      BY FiniteConns DEF Inv, LockedWithinBudget, Pool, Open
    <2>4. Cardinality(Pool \cup {c}) <= NumPeersToUse
      <3>1. c \notin Pool
        BY <1>1 DEF Pool
      <3>2. Cardinality(Pool \cup {c}) = Cardinality(Pool) + 1
        BY <2>3, <3>1, FS_AddElement
      <3>3. QED BY <2>1, <2>3, <3>2, SizeAssumption
    <2>5. LockedWithinBudget'
      BY <2>2, <2>4 DEF LockedWithinBudget
    <2>6. AbstractPool!Opens(c)
      BY <1>1, <2>2, <2>5, SameCardinality
         DEF AbstractPool!Opens, AbstractPool!Join, LockedWithinBudget
    <2>7. QED BY <1>2, <2>5, <2>6 DEF Implements, Inv, AbstractPool!Next
  <1>5. QED BY <1>3, <1>4

LEMMA ClosesStep ==
    ASSUME Inv, NEW c \in Conn, ConnectionCloses(c)
    PROVE  Implements
  <1>1. /\ Open' = Open \ {c} /\ c \in Open
        /\ locked' = locked
        /\ Pool' = (Pool \ {c}) \cup {}
    BY OpenAfter DEF Inv, TypeOK, ConnectionCloses, Open, Pool
  <1>2. TypeOK'
    BY DEF Inv, TypeOK, ConnectionCloses
  <1>3. Cardinality(Pool') <= NumPeersToUse
    <2>1. Cardinality(Pool') <= Cardinality(Pool)
      BY <1>1, Smaller DEF Pool, Open
    <2>2. Cardinality(Pool') \in Nat /\ Cardinality(Pool) \in Nat
      BY <1>1, FiniteConns DEF Pool, Open
    <2>3. QED BY <2>1, <2>2, SizeAssumption DEF Inv, LockedWithinBudget
  <1>4. AbstractPool!Closes(c)
    <2>1. AbstractPool!Join(Pool \ {c}, {})
      BY <1>1, <1>3, SameCardinality DEF AbstractPool!Join
    <2>2. {} \in SUBSET Open'
      OBVIOUS
    <2>3. QED BY <1>1, <2>1, <2>2 DEF AbstractPool!Closes
  <1>5. QED
    BY <1>2, <1>3, <1>4 DEF Implements, Inv, LockedWithinBudget, AbstractPool!Next

LEMMA GoneStep ==
    ASSUME Inv, NEW c \in Conn, ConnectionGone(c)
    PROVE  Implements
  <1>1. Open' = Open \ {c}
    BY OpenAfter DEF Inv, ConnectionGone
  <1>2. Cardinality((Open \ {c}) \cap (locked \ {c})) <= NumPeersToUse
    <2> DEFINE kept == (Open \ {c}) \cap (locked \ {c})
    <2>1. Cardinality(kept) <= Cardinality(Pool)
      BY Smaller DEF Pool, Open
    <2>2. Cardinality(kept) \in Nat /\ Cardinality(Pool) \in Nat
      BY FiniteConns DEF Pool, Open
    <2>3. QED BY <2>1, <2>2, SizeAssumption DEF Inv, LockedWithinBudget
  <1>3. /\ locked \ {c} \subseteq locked'
        /\ locked' \subseteq (locked \ {c}) \cup (Open \ {c})
        /\ Cardinality((Open \ {c}) \cap locked') <= NumPeersToUse
    <2>1. CASE listening /\ Listed(PeerOf[c]) = {c}
      <3>1. Renew(PeerOf[c], Open \ {c}, locked \ {c})
        BY <2>1 DEF ConnectionGone
      <3>2. Open \ {c} \subseteq Conn
        BY DEF Open
      <3>3. QED BY <1>2, <3>1, <3>2, RenewLocks
    <2>2. CASE ~(listening /\ Listed(PeerOf[c]) = {c})
      <3>1. locked' = locked \ {c}
        BY <2>2 DEF ConnectionGone
      <3>2. QED BY <1>2, <3>1
    <2>3. QED BY <2>1, <2>2
  <1>4. TypeOK'
    BY <1>3 DEF Inv, TypeOK, ConnectionGone, Open
  <1>5. Cardinality(Pool') <= NumPeersToUse
    BY <1>1, <1>3 DEF Pool
  <1>6. CASE c \in Open
    <2>1. PICK new \in SUBSET (Open \ {c}) : Pool' = (Pool \ {c}) \cup new
      <3>1. Pool' = (Pool \ {c}) \cup (Pool' \ (Pool \ {c}))
        BY <1>1, <1>3 DEF Pool
      <3>2. Pool' \ (Pool \ {c}) \in SUBSET (Open \ {c})
        BY <1>1 DEF Pool
      <3>3. QED BY <3>1, <3>2
    <2>2. AbstractPool!Closes(c)
      BY <1>1, <1>5, <1>6, <2>1, SameCardinality
         DEF AbstractPool!Closes, AbstractPool!Join
    <2>3. QED
      BY <1>4, <1>5, <2>2 DEF Implements, Inv, LockedWithinBudget, AbstractPool!Next
  <1>7. CASE c \notin Open
    <2>1. Open' = Open
      BY <1>1, <1>7
    <2>2. PICK new \in SUBSET Open : Pool' = Pool \cup new
      <3>1. Pool' = Pool \cup (Pool' \ Pool)
        BY <1>1, <1>3, <1>7 DEF Pool
      <3>2. Pool' \ Pool \in SUBSET Open
        BY <2>1 DEF Pool
      <3>3. QED BY <3>1, <3>2
    <2>3. AbstractPool!Renews
      BY <1>5, <2>1, <2>2, SameCardinality DEF AbstractPool!Renews, AbstractPool!Join
    <2>4. QED
      BY <1>4, <1>5, <2>3 DEF Implements, Inv, LockedWithinBudget, AbstractPool!Next
  <1>8. QED BY <1>6, <1>7

LEMMA RenewStep ==
    ASSUME Inv, NEW p \in Peer, RequestRenew(p)
    PROVE  Implements
  <1>1. Open' = Open /\ Open \subseteq Conn
    BY DEF RequestRenew, Open
  <1>2. /\ locked \subseteq locked' /\ locked' \subseteq locked \cup Open
        /\ Cardinality(Open \cap locked') <= NumPeersToUse
    BY <1>1, RenewLocks DEF RequestRenew, Inv, LockedWithinBudget, Pool
  <1>3. TypeOK'
    BY <1>2 DEF Inv, TypeOK, RequestRenew, Open
  <1>4. Cardinality(Pool') <= NumPeersToUse
    BY <1>1, <1>2 DEF Pool
  <1>5. PICK new \in SUBSET Open : Pool' = Pool \cup new
    <2>1. Pool' = Pool \cup (Pool' \ Pool)
      BY <1>1, <1>2 DEF Pool
    <2>2. Pool' \ Pool \in SUBSET Open
      BY <1>1 DEF Pool
    <2>3. QED BY <2>1, <2>2
  <1>6. AbstractPool!Renews
    BY <1>1, <1>4, <1>5, SameCardinality DEF AbstractPool!Renews, AbstractPool!Join
  <1>7. QED
    BY <1>3, <1>4, <1>6 DEF Implements, Inv, LockedWithinBudget, AbstractPool!Next

LEMMA Steps == Inv /\ [Next]_vars => Implements
  <1> SUFFICES ASSUME Inv, [Next]_vars PROVE Implements
    OBVIOUS
  <1>1. ASSUME NEW c \in Conn,
               ConnectionOpens(c) \/ ConnectionCloses(c) \/ ConnectionGone(c)
        PROVE  Implements
    BY <1>1, OpensStep, ClosesStep, GoneStep
  <1>2. ASSUME NEW p \in Peer, RequestRenew(p) PROVE Implements
    BY <1>2, RenewStep
  <1>3. CASE Stop \/ UNCHANGED vars
    <2>1. Open' = Open /\ Pool' = Pool
      BY <1>3 DEF Stop, vars, Open, Pool
    <2>2. TypeOK'
      BY <1>3 DEF Stop, vars, Inv, TypeOK
    <2>3. QED BY <2>1, <2>2 DEF Implements, Inv, LockedWithinBudget
  <1>4. QED BY <1>1, <1>2, <1>3 DEF Next

LEMMA InvInit == Init => Inv /\ AbstractPool!Init
  <1> SUFFICES ASSUME Init PROVE Inv /\ AbstractPool!Init
    OBVIOUS
  <1>1. Open = {} /\ Pool = {}
    BY DEF Init, Open, Pool
  <1>2. TypeOK
    BY DEF Init, TypeOK
  <1>3. LockedWithinBudget
    BY <1>1, FS_EmptySet, SizeAssumption DEF LockedWithinBudget
  <1>4. QED BY <1>1, <1>2, <1>3 DEF Inv, AbstractPool!Init

LEMMA InvCorrect == Spec => []Inv
  BY InvInit, Steps, PTL DEF Spec, Implements

\* Locks are only on connections that libp2p lists.
THEOREM TypeCorrect == Spec => []TypeOK
  BY InvCorrect, PTL DEF Inv

\* The pool never holds more than numPeersToUse connections.
THEOREM BudgetKept == Spec => []LockedWithinBudget
  BY InvCorrect, PTL DEF Inv

\* The peer manager implements the pool that it promises: every step is a
\* step of PeerPool, or leaves the pool and the open connections alone.
THEOREM PoolImplemented == Spec => ImplementsPool
  BY InvInit, InvCorrect, Steps, PTL
     DEF Spec, Implements, ImplementsPool, AbstractPool!Spec

-----------------------------------------------------------------------------
(***************************************************************************)
(* Saturation, when no peer has two connections: "peer:connect" and        *)
(* "peer:disconnect" then come for every connection, and after each of     *)
(* them either the pool is full or nothing is left to lock.                *)
(***************************************************************************)
LEMMA MoreLocked ==
    ASSUME NEW S, NEW T, T \subseteq Conn, S \subseteq T,
           Cardinality(S) >= NumPeersToUse
    PROVE  Cardinality(T) >= NumPeersToUse
  <1>1. /\ Cardinality(S) <= Cardinality(T)
        /\ Cardinality(S) \in Nat /\ Cardinality(T) \in Nat
    BY FiniteConns, Smaller
  <1>2. QED BY <1>1, SizeAssumption

LEMMA SaturatedStep ==
    ASSUME Inv, Inv', PoolSaturated, [Next]_vars
    PROVE  PoolSaturated'
  <1> SUFFICES ASSUME listening', \A c, d \in Conn : PeerOf[c] = PeerOf[d] => c = d
               PROVE  Open' \subseteq locked' \/ Cardinality(locked') >= NumPeersToUse
    BY DEF PoolSaturated
  <1>1. listening
    BY DEF Next, ConnectionOpens, ConnectionCloses, ConnectionGone,
           RequestRenew, Stop, vars
  <1>2. Open \subseteq locked \/ Cardinality(locked) >= NumPeersToUse
    BY <1>1 DEF PoolSaturated
  <1>3. locked \subseteq Conn /\ locked' \subseteq Conn
    BY DEF Inv, TypeOK
  <1>4. ASSUME Open' \subseteq Open, locked \subseteq locked'
        PROVE  Open' \subseteq locked' \/ Cardinality(locked') >= NumPeersToUse
    BY <1>2, <1>3, <1>4, MoreLocked
  <1>5. ASSUME NEW c \in Conn, ConnectionOpens(c)
        PROVE  Open' \subseteq locked' \/ Cardinality(locked') >= NumPeersToUse
    <2>1. Open' = Open \cup {c}
      BY <1>5, OpenAfter DEF Inv, ConnectionOpens
    <2>2. Listed(PeerOf[c]) = {}
      BY <1>5 DEF ConnectionOpens, Listed
    <2>3. LockIfNeeded(c)
      BY <1>1, <1>5, <2>2 DEF ConnectionOpens
    <2>4. CASE NumPeersToUse - Cardinality(Pool) = 0
      <3>1. locked' = locked /\ Pool \subseteq locked
        BY <2>3, <2>4 DEF LockIfNeeded, Pool
      <3>2. Cardinality(Pool) \in Nat
        BY FiniteConns DEF Pool, Open
      <3>3. Cardinality(Pool) >= NumPeersToUse
        BY <2>4, <3>2, SizeAssumption
      <3>4. QED BY <1>3, <3>1, <3>3, MoreLocked
    <2>5. CASE NumPeersToUse - Cardinality(Pool) # 0
      <3>1. locked' = locked \cup {c}
        BY <2>3, <2>5 DEF LockIfNeeded
      <3>2. QED BY <1>2, <1>3, <2>1, <3>1, MoreLocked
    <2>6. QED BY <2>4, <2>5
  <1>6. ASSUME NEW c \in Conn, ConnectionCloses(c)
        PROVE  Open' \subseteq locked' \/ Cardinality(locked') >= NumPeersToUse
    BY <1>4, <1>6, OpenAfter DEF Inv, ConnectionCloses
  <1>7. ASSUME NEW c \in Conn, ConnectionGone(c)
        PROVE  Open' \subseteq locked' \/ Cardinality(locked') >= NumPeersToUse
    <2>1. Open' = Open \ {c}
      BY <1>7, OpenAfter DEF Inv, ConnectionGone
    <2>2. Listed(PeerOf[c]) = {c}
      BY <1>7 DEF ConnectionGone, Listed
    <2>3. Renew(PeerOf[c], Open \ {c}, locked \ {c})
      BY <1>1, <1>7, <2>2 DEF ConnectionGone
    <2>4. Cardinality((Open \ {c}) \cap (locked \ {c})) <= NumPeersToUse
      <3>1. Cardinality((Open \ {c}) \cap (locked \ {c})) <= Cardinality(Pool)
        BY Smaller DEF Pool, Open
      <3>2. /\ Cardinality((Open \ {c}) \cap (locked \ {c})) \in Nat
            /\ Cardinality(Pool) \in Nat
        BY FiniteConns DEF Pool, Open
      <3>3. QED BY <3>1, <3>2, SizeAssumption DEF Inv, LockedWithinBudget
    <2>5. \/ Cardinality((Open \ {c}) \cap locked') = NumPeersToUse
          \/ \A d \in Open \ {c} : d \in locked' \/ PeerOf[d] = PeerOf[c]
      BY <2>3, <2>4, RenewLocks DEF Open
    <2>6. CASE Cardinality((Open \ {c}) \cap locked') = NumPeersToUse
      BY <1>3, <2>6, MoreLocked, SizeAssumption
    <2>7. CASE \A d \in Open \ {c} : d \in locked' \/ PeerOf[d] = PeerOf[c]
      BY <2>1, <2>7 DEF Open
    <2>8. QED BY <2>5, <2>6, <2>7
  <1>8. ASSUME NEW p \in Peer, RequestRenew(p)
        PROVE  Open' \subseteq locked' \/ Cardinality(locked') >= NumPeersToUse
    <2>1. Open' = Open
      BY <1>8 DEF RequestRenew, Open
    <2>2. locked \subseteq locked'
      BY <1>8 DEF RequestRenew, Renew
    <2>3. QED BY <1>4, <2>1, <2>2
  <1>9. CASE Stop \/ UNCHANGED vars
    BY <1>4, <1>9 DEF Stop, vars, Open
  <1>10. QED BY <1>5, <1>6, <1>7, <1>8, <1>9 DEF Next

\* While every peer has one connection, no open connection stays unused as
\* long as the pool is short.
THEOREM SaturationKept == Spec => []PoolSaturated
  <1>1. Init => PoolSaturated
    BY DEF Init, PoolSaturated, Open
  <1>2. QED BY <1>1, SaturatedStep, InvCorrect, PTL DEF Spec

-----------------------------------------------------------------------------
(* Light Push.                                                               *)
\* Division with a remainder, and the remainder of an attempt later.
LEMMA Multiples ==
    ASSUME NEW n \in Nat, n > 0, NEW a \in Int, NEW b \in Int, a < b
    PROVE  a * n + n <= b * n
<1>1. b - (a + 1) \in Nat
    OBVIOUS
<1>2. (b - (a + 1)) * n \in Nat
    BY <1>1
<1> QED
    BY <1>2

LEMMA UniqueRemainder ==
    ASSUME NEW n \in Nat, n > 0, NEW a \in Int, NEW b \in Int,
           NEW r \in 0 .. (n - 1), NEW s \in 0 .. (n - 1), a * n + r = b * n + s
    PROVE  a = b /\ r = s
<1>1. ~(a < b) /\ ~(b < a)
    BY Multiples
<1> QED
    BY <1>1

LEMMA Division ==
    ASSUME NEW i \in Nat, NEW n \in Nat, n > 0
    PROVE  i \div n \in Int /\ i % n \in 0 .. (n - 1) /\ i = (i \div n) * n + (i % n)
<1>1. i \div n \in Int /\ i % n \in 0 .. (n - 1)
    OBVIOUS
<1>2. i = (i \div n) * n + (i % n)
    BY Z3
<1> QED
    BY <1>1, <1>2

LEMMA NextRemainder ==
    ASSUME NEW i \in Nat, NEW n \in Nat, n > 0
    PROVE  (i + 1) % n = IF (i % n) + 1 < n THEN (i % n) + 1 ELSE 0
<1> DEFINE a == i \div n
           r == i % n
           b == (i + 1) \div n
           s == (i + 1) % n
<1>1. a \in Int /\ r \in 0 .. (n - 1) /\ i = a * n + r
    BY Division
<1>2. b \in Int /\ s \in 0 .. (n - 1) /\ i + 1 = b * n + s
    BY Division
<1> HIDE DEF a, b, r, s
<1>3. CASE r + 1 < n
    <2>1. a * n \in Int /\ a * n + (r + 1) = b * n + s /\ r + 1 \in 0 .. (n - 1)
        BY <1>1, <1>2, <1>3
    <2>2. s = r + 1
        BY <1>1, <1>2, <2>1, UniqueRemainder
    <2> QED
        BY <1>3, <2>2 DEF r, s
<1>4. CASE r + 1 = n
    <2>1. (a + 1) * n = a * n + n
        BY <1>1
    <2>2. (a + 1) * n + 0 = b * n + s /\ a + 1 \in Int /\ 0 \in 0 .. (n - 1)
        BY <1>1, <1>2, <1>4, <2>1
    <2>3. s = 0
        BY <1>2, <2>2, UniqueRemainder
    <2> QED
        BY <1>4, <2>3 DEF r, s
<1> QED
    BY <1>1, <1>3, <1>4

-----------------------------------------------------------------------------
(***************************************************************************)
(* A retry under way: its peers are different, and after i attempts each   *)
(* of them had q, those before the next target one more.                   *)
(***************************************************************************)
Counts == UNION {[S -> Nat] : S \in SUBSET Conn}

Attempt == [pc : {"attempt"}, peers : Seq(Conn), i : Nat, sent : Counts]

Turns(peers, i, sent, q) ==
    \A j \in 1 .. Len(peers) : sent[peers[j]] = q + (IF j <= i % Len(peers) THEN 1 ELSE 0)

AttemptOK(retry) ==
    /\ retry \in Attempt
    /\ Len(retry.peers) > 0
    /\ IsInjective(retry.peers)
    /\ DOMAIN retry.sent = Range(retry.peers)
    /\ \E q \in Nat : Turns(retry.peers, retry.i, retry.sent, q)

RetriesInv ==
    /\ retries \in [Retry -> Attempt \cup {NoRetry}]
    /\ \A r \in Retry : retries[r] = NoRetry \/ AttemptOK(retries[r])

-----------------------------------------------------------------------------
LEMMA CountsOf ==
    ASSUME NEW f
    PROVE  f \in Counts <=> DOMAIN f \in SUBSET Conn /\ f \in [DOMAIN f -> Nat]
BY DEF Counts

\* A retry begins with the peers of the pool in some order, none of them tried.
LEMMA BeginsOK ==
    ASSUME NEW S, S \subseteq Conn, S # {}, NEW order \in Orders(S)
    PROVE  AttemptOK(AttemptRetries(order))
<1> DEFINE n == Cardinality(S)
           sent == [c \in Range(order) |-> 0]
<1>1. n \in Nat /\ n > 0
    BY ConnAssumption, FS_Subset, FS_CardinalityType, FS_EmptySet
<1>2. order \in [1 .. n -> S] /\ IsInjective(order)
    BY DEF Orders
<1> HIDE DEF n
<1>3. order \in Seq(Conn) /\ Len(order) = n
    BY <1>1, <1>2
<1>4. Range(order) \subseteq Conn
    BY <1>2 DEF Range
<1>5. sent \in Counts /\ DOMAIN sent = Range(order)
    BY <1>4, CountsOf
<1>6. \A j \in 1 .. n : sent[order[j]] = 0
    BY <1>2 DEF Range
<1>7. 0 % n = 0
    <2>1. 0 % n \in 0 .. (n - 1) /\ 0 \div n \in Int /\ 0 = (0 \div n) * n + (0 % n)
        BY <1>1, Division
    <2>2. 0 * n + 0 = (0 \div n) * n + (0 % n) /\ 0 \in 0 .. (n - 1)
        BY <1>1, <2>1
    <2> QED
        BY <1>1, <2>1, <2>2, UniqueRemainder
<1>8. Turns(order, 0, sent, 0)
    BY <1>1, <1>3, <1>6, <1>7 DEF Turns
<1>9. AttemptRetries(order) = [pc |-> "attempt", peers |-> order, i |-> 0, sent |-> sent]
    BY DEF AttemptRetries
<1> HIDE DEF sent
<1> QED
    BY <1>1, <1>2, <1>3, <1>5, <1>8, <1>9 DEF AttemptOK, Attempt

\* The next attempt goes to the next peer.
LEMMA AttemptsGoOn ==
    ASSUME NEW retry, AttemptOK(retry)
    PROVE  AttemptOK([retry EXCEPT !.i = @ + 1, !.sent[Target(retry)] = @ + 1])
<1> DEFINE peers == retry.peers
           n == Len(peers)
           i == retry.i
           r == i % n
           target == peers[r + 1]
           sent == [retry.sent EXCEPT ![target] = @ + 1]
           next == [retry EXCEPT !.i = @ + 1, !.sent[Target(retry)] = @ + 1]
<1>1. retry \in Attempt /\ n \in Nat /\ n > 0 /\ i \in Nat /\ peers \in Seq(Conn)
    BY DEF AttemptOK, Attempt
<1>2. r \in 0 .. (n - 1) /\ r + 1 \in 1 .. n
    <2> HIDE DEF n, i
    <2>1. i % n \in 0 .. (n - 1)
        BY <1>1, Division
    <2> QED
        BY <1>1, <2>1
<1>3. retry.sent \in Counts /\ DOMAIN retry.sent = Range(peers)
    BY DEF AttemptOK, Attempt
<1>4. Range(peers) = {peers[j] : j \in 1 .. n}
    BY <1>1 DEF Range
<1>5. target \in Range(peers)
    BY <1>2, <1>4
<1>6. sent \in Counts /\ DOMAIN sent = Range(peers)
    BY <1>3, <1>5, CountsOf
<1>7. Target(retry) = target
    BY DEF Target
<1>8. next \in Attempt /\ next.peers = peers /\ next.i = i + 1 /\ next.sent = sent
    <2>1. next = [retry EXCEPT !.i = i + 1, !.sent = sent]
        BY <1>1, <1>7 DEF Attempt
    <2>2. i + 1 \in Nat
        BY <1>1
    <2>3. \A m \in Nat, counts \in Counts :
            LET after == [retry EXCEPT !.i = m, !.sent = counts]
            IN after \in Attempt /\ after.peers = retry.peers /\ after.i = m /\ after.sent = counts
        BY <1>1 DEF Attempt
    <2> HIDE DEF sent, next
    <2> QED
        BY <1>6, <2>1, <2>2, <2>3
<1>9. PICK q \in Nat : Turns(peers, i, retry.sent, q)
    BY DEF AttemptOK
<1>10. \A j \in 1 .. n : retry.sent[peers[j]] = q + (IF j <= r THEN 1 ELSE 0)
    BY <1>9 DEF Turns
<1>11. \A j \in 1 .. n : peers[j] = target <=> j = r + 1
    BY <1>1, <1>2 DEF AttemptOK, IsInjective
<1>12. \A j \in 1 .. n : sent[peers[j]] = q + (IF j <= r + 1 THEN 1 ELSE 0)
    <2>1. ASSUME NEW j \in 1 .. n
          PROVE  sent[peers[j]] = q + (IF j <= r + 1 THEN 1 ELSE 0)
        <3>1. peers[j] \in DOMAIN retry.sent
            BY <1>3, <1>4
        <3>2. CASE j = r + 1
            <4>1. sent[peers[j]] = retry.sent[peers[j]] + 1
                BY <1>11, <3>1, <3>2
            <4>2. retry.sent[peers[j]] = q
                BY <1>2, <1>10, <3>2
            <4> QED
                BY <3>2, <4>1, <4>2
        <3>3. CASE j # r + 1
            <4>1. sent[peers[j]] = retry.sent[peers[j]]
                BY <1>11, <3>1, <3>3
            <4> QED
                BY <1>2, <1>10, <3>3, <4>1
        <3> QED
            BY <3>2, <3>3
    <2> QED
        BY <2>1
<1>13. \E m \in Nat : Turns(peers, i + 1, sent, m)
    <2>1. (i + 1) % n = IF r + 1 < n THEN r + 1 ELSE 0
        BY <1>1, NextRemainder
    <2> HIDE DEF sent, r
    <2>2. CASE r + 1 < n
        <3>1. Turns(peers, i + 1, sent, q)
            BY <1>12, <2>1, <2>2 DEF Turns
        <3> QED
            BY <3>1
    <2>3. CASE r + 1 = n
        <3>1. \A j \in 1 .. n : sent[peers[j]] = q + 1
            BY <1>1, <1>12, <2>3
        <3>2. (i + 1) % n = 0
            BY <2>1, <2>3, <1>1
        <3>3. Turns(peers, i + 1, sent, q + 1)
            BY <1>1, <3>1, <3>2 DEF Turns
        <3> QED
            BY <3>3
    <2> QED
        BY <1>1, <1>2, <2>2, <2>3
<1>14. IsInjective(peers)
    BY DEF AttemptOK
<1> HIDE DEF next, sent, peers, i
<1>15. AttemptOK(next)
    BY <1>1, <1>6, <1>8, <1>13, <1>14 DEF AttemptOK
<1> QED
    BY <1>15 DEF next

-----------------------------------------------------------------------------
LEMMA AttemptIsNotIdle ==
    ASSUME NEW retry, AttemptOK(retry)
    PROVE  retry \in Attempt /\ retry.pc = "attempt"
BY DEF AttemptOK, Attempt

LEMMA InitRetries == PushInit => RetriesInv
BY DEF PushInit, RetriesInv

LEMMA StepSendReturns ==
    ASSUME RetriesInv, SendReturns
    PROVE  RetriesInv'
<1>1. CASE push.autoRetry /\ Pool # {}
    <2>1. PICK rs \in SUBSET (Retry \ Ongoing), order \in Orders(Pool) :
            retries' = [r \in Retry |-> IF r \in rs THEN AttemptRetries(order) ELSE retries[r]]
        BY <1>1 DEF SendReturns
    <2>2. AttemptOK(AttemptRetries(order)) /\ AttemptRetries(order) \in Attempt
        BY <1>1, BeginsOK, AttemptIsNotIdle DEF Pool, Open
    <2> QED
        BY <2>1, <2>2 DEF RetriesInv
<1>2. CASE ~(push.autoRetry /\ Pool # {})
    BY <1>2 DEF SendReturns, RetriesInv
<1> QED
    BY <1>1, <1>2

LEMMA StepRetryAnswered ==
    ASSUME RetriesInv, NEW r \in Retry, NEW success \in BOOLEAN, RetryAnswered(r, success)
    PROVE  RetriesInv'
<1> DEFINE retry == retries[r]
           next == [retry EXCEPT !.i = @ + 1, !.sent[Target(retry)] = @ + 1]
<1>1. retry.pc = "attempt"
    BY DEF RetryAnswered
<1>2. AttemptOK(retry)
    BY <1>1 DEF RetriesInv, NoRetry
<1>3. AttemptOK(next) /\ next \in Attempt
    BY <1>2, AttemptsGoOn, AttemptIsNotIdle
<1>4. retries' = [retries EXCEPT ![r] = NoRetry] \/ retries' = [retries EXCEPT ![r] = next]
    BY DEF RetryAnswered
<1> HIDE DEF next
<1> QED
    BY <1>3, <1>4 DEF RetriesInv

LEMMA StepRetries ==
    ASSUME RetriesInv, [AllNext]_allVars
    PROVE  RetriesInv'
<1>1. CASE UNCHANGED retries
    BY <1>1 DEF RetriesInv
<1>2. CASE PushNext
    BY <1>1, <1>2, StepSendReturns, StepRetryAnswered
       DEF PushNext, Send, SendStep, PushAnswered, RetryStep
<1> QED
    BY <1>1, <1>2 DEF AllNext, allVars, pushVars

-----------------------------------------------------------------------------
\* No peer of a retry is tried twice more than another, for any pool, any number of
\* retries under way and of attempts.
THEOREM RetriesGoRound == PushSpec => []RetriesSpread
<1>1. RetriesInv => RetriesSpread
    <2> SUFFICES ASSUME RetriesInv, NEW r \in Ongoing,
                        NEW c \in DOMAIN retries[r].sent, NEW d \in DOMAIN retries[r].sent
                 PROVE  retries[r].sent[c] <= retries[r].sent[d] + 1
        BY DEF RetriesSpread
    <2> DEFINE retry == retries[r]
    <2>1. AttemptOK(retry)
        BY DEF RetriesInv, Ongoing, NoRetry
    <2>2. PICK q \in Nat : Turns(retry.peers, retry.i, retry.sent, q)
        BY <2>1 DEF AttemptOK
    <2>3. retry.peers \in Seq(Conn) /\ DOMAIN retry.sent = {retry.peers[j] : j \in 1 .. Len(retry.peers)}
        BY <2>1 DEF AttemptOK, Attempt, Range
    <2>4. PICK j \in 1 .. Len(retry.peers), k \in 1 .. Len(retry.peers) :
            c = retry.peers[j] /\ d = retry.peers[k]
        BY <2>3
    <2>5. retry.sent[c] \in {q, q + 1} /\ retry.sent[d] \in {q, q + 1}
        BY <2>2, <2>4 DEF Turns
    <2> QED
        BY <2>5
<1> QED
    BY <1>1, InitRetries, StepRetries, PTL DEF PushSpec, AllInit

\* Light Push reads the pool and leaves it to the peer manager, so what is proved of
\* the peer manager holds beside it.
THEOREM PushUsesPeerManager == PushSpec => Spec
<1>1. AllInit => Init
    BY DEF AllInit
<1>2. [AllNext]_allVars => [Next]_vars
    BY DEF AllNext, allVars, vars
<1> QED
    BY <1>1, <1>2, PTL DEF PushSpec, Spec

\* So what is proved of the pool of PeerManager.tla holds of it under Light Push: the
\* locked peers stay within the budget, the pool is full while the peers suffice, and
\* its steps are those of PeerPool.tla (peer_manager.ts).
THEOREM PushPoolCorrect ==
    PushSpec => [](LockedWithinBudget /\ PoolSaturated) /\ ImplementsPool
BY PushUsesPeerManager, BudgetKept, SaturationKept, PoolImplemented, PTL
=============================================================================
