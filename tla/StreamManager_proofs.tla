------------------------- MODULE StreamManager_proofs -------------------------
(* Theorems about StreamManager, for any number of calls, of scheduled       *)
(* creations and of connections.  The first invariant uses nothing of what   *)
(* libp2p does to the streams; the second says what its lists hold.          *)
EXTENDS StreamManager, SequenceTheorems, TLAPS

Places == {"idle", "waiting", "creating", "created", "got", "released",
           "failed", "resolved"}

\* The part of TypeOK that the stream manager's own state needs.
Shape ==
    /\ pc \in [Task -> Places]
    /\ awaited \in [Caller -> Job \cup {None}]
    /\ held = [c \in Caller |-> held[c]]
    /\ pool \in Job \cup {None}
    /\ ongoing \in BOOLEAN

\* A promise that was scheduled or taken is that of a call that was made, so
\* a new one differs from all of them.
PromisesAreOld ==
    /\ pool # None => pc[pool] # "idle"
    /\ \A c \in Caller : awaited[c] # None => pc[awaited[c]] # "idle"
    /\ \A c \in Caller : pc[c] = "idle" => awaited[c] = None

Inv ==
    /\ Shape
    /\ PromisesAreOld
    /\ OneScheduledCreation
    /\ PromiseTakenOnce
    /\ FoundStreamIsExclusive

\* Everything but the promises and the streams is left alone.
TasksKept == UNCHANGED <<taskVars, locked>>

LEMMA InitInv == Init => Inv
  BY TaskAssumption
     DEF Init, Inv, Shape, Places, PromisesAreOld, OneScheduledCreation,
         PromiseTakenOnce, FoundStreamIsExclusive, Task

-----------------------------------------------------------------------------
(* getStream.                                                              *)

\* What TakeOrCreate does to the state of the tasks.
LEMMA TakeOrCreateOutcome ==
    ASSUME Inv, NEW c \in Caller, TakeOrCreate(c)
    PROVE  \/ /\ pc' = [pc EXCEPT ![c] = "creating"]
              /\ UNCHANGED <<held, locked>>
           \/ \E s : /\ s # None /\ s \notin locked
                     /\ held' = [held EXCEPT ![c] = s]
                     /\ locked' = locked \cup {s}
                     /\ pc' = [pc EXCEPT ![c] = "got"]
  <1>1. CASE OpenStream # None
    <2>1. OpenStream \notin locked
      <3>1. PICK i \in DOMAIN streams[Newest] : IsOpenStream(i) /\ OpenStream = streams[Newest][i]
        BY <1>1 DEF OpenStream
      <3> QED BY <3>1 DEF IsOpenStream
    <2>2. QED BY <1>1, <2>1 DEF TakeOrCreate
  <1>2. CASE OpenStream = None
    BY <1>2 DEF TakeOrCreate
  <1>3. QED BY <1>1, <1>2

\* A call of getStream that moves on, with its promise awaited or not, keeps
\* the streams exclusive and changes nothing that a job reads.
LEMMA TakeOrCreateKeeps ==
    ASSUME Inv, NEW c \in Caller, TakeOrCreate(c),
           UNCHANGED <<awaited, pool, ongoing>>
    PROVE  Inv'
  <1>1. /\ \E x \in {"creating", "got"} : pc' = [pc EXCEPT ![c] = x]
        /\ held' = [d \in Caller |-> held'[d]]
        /\ FoundStreamIsExclusive'
    <2>1. CASE pc' = [pc EXCEPT ![c] = "creating"] /\ UNCHANGED <<held, locked>>
      BY <2>1 DEF Inv, Shape, FoundStreamIsExclusive
    <2>2. CASE \E s : /\ s # None /\ s \notin locked
                      /\ held' = [held EXCEPT ![c] = s]
                      /\ locked' = locked \cup {s}
                      /\ pc' = [pc EXCEPT ![c] = "got"]
      BY <2>2 DEF Inv, Shape, FoundStreamIsExclusive
    <2>3. QED BY <2>1, <2>2, TakeOrCreateOutcome
  <1>2. PICK x \in {"creating", "got"} : pc' = [pc EXCEPT ![c] = x]
    BY <1>1
  <1>3. \A j \in Job : pc'[j] = pc[j]
    BY <1>2, TaskAssumption DEF Inv, Shape, Task
  <1>4. Shape'
    BY <1>1, <1>2 DEF Inv, Shape, Places, Task
  <1>5. PromisesAreOld'
    BY <1>2, <1>3 DEF Inv, Shape, PromisesAreOld, Task
  <1>6. OneScheduledCreation'
    BY <1>3 DEF Inv, OneScheduledCreation
  <1>7. PromiseTakenOnce'
    BY DEF Inv, PromiseTakenOnce
  <1>8. QED BY <1>1, <1>4, <1>5, <1>6, <1>7 DEF Inv

LEMMA GetStreamKeeps ==
    ASSUME Inv, NEW c \in Caller, GetStream(c)
    PROVE  Inv'
  <1>1. CASE pool = None
    BY <1>1, TakeOrCreateKeeps DEF GetStream
  <1>2. CASE pool # None
    <2>1. /\ pc[c] = "idle" /\ pc' = [pc EXCEPT ![c] = "waiting"]
          /\ awaited' = [awaited EXCEPT ![c] = pool]
          /\ pool' = None
          /\ UNCHANGED <<held, locked, ongoing>>
      BY <1>2 DEF GetStream
    <2>2. \A j \in Job : pc'[j] = pc[j]
      BY <2>1, TaskAssumption DEF Inv, Shape, Task
    <2>3. Shape'
      BY <2>1 DEF Inv, Shape, Places, Task
    <2>4. PromisesAreOld'
      BY <1>2, <2>1, <2>2 DEF Inv, Shape, PromisesAreOld, Task
    <2>5. OneScheduledCreation'
      BY <2>1, <2>2 DEF Inv, OneScheduledCreation
    <2>6. PromiseTakenOnce'
      BY <1>2, <2>1 DEF Inv, Shape, PromiseTakenOnce
    <2>7. FoundStreamIsExclusive'
      BY <2>1 DEF Inv, FoundStreamIsExclusive
    <2>8. QED BY <2>3, <2>4, <2>5, <2>6, <2>7 DEF Inv
  <1>3. QED BY <1>1, <1>2

LEMMA LockCreatedKeeps ==
    ASSUME Inv, NEW c \in Caller, LockCreated(c)
    PROVE  Inv'
  <1>1. /\ pc[c] = "created" /\ pc' = [pc EXCEPT ![c] = "got"]
        /\ held' = [held EXCEPT ![c] = c]
        /\ locked' = locked \cup {c}
        /\ UNCHANGED <<awaited, pool, ongoing>>
    BY DEF LockCreated
  <1>2. \A j \in Job : pc'[j] = pc[j]
    BY <1>1, TaskAssumption DEF Inv, Shape, Task
  <1>3. Shape'
    BY <1>1 DEF Inv, Shape, Places, Task
  <1>4. PromisesAreOld'
    BY <1>1, <1>2 DEF Inv, Shape, PromisesAreOld, Task
  <1>5. OneScheduledCreation'
    BY <1>1, <1>2 DEF Inv, OneScheduledCreation
  <1>6. PromiseTakenOnce'
    BY <1>1 DEF Inv, PromiseTakenOnce
  <1>7. FoundStreamIsExclusive'
    BY <1>1 DEF Inv, Shape, FoundStreamIsExclusive
  <1>8. QED BY <1>3, <1>4, <1>5, <1>6, <1>7 DEF Inv

LEMMA ReleaseKeeps ==
    ASSUME Inv, NEW c \in Caller, Release(c)
    PROVE  Inv'
  <1>1. /\ pc[c] = "got" /\ pc' = [pc EXCEPT ![c] = "released"]
        /\ UNCHANGED <<awaited, held, pool, ongoing, locked>>
    BY DEF Release
  <1>2. \A j \in Job : pc'[j] = pc[j]
    BY <1>1, TaskAssumption DEF Inv, Shape, Task
  <1>3. Shape'
    BY <1>1 DEF Inv, Shape, Places, Task
  <1>4. PromisesAreOld'
    BY <1>1, <1>2 DEF Inv, Shape, PromisesAreOld, Task
  <1>5. OneScheduledCreation'
    BY <1>1, <1>2 DEF Inv, OneScheduledCreation
  <1>6. PromiseTakenOnce' /\ FoundStreamIsExclusive'
    BY <1>1 DEF Inv, PromiseTakenOnce, FoundStreamIsExclusive
  <1>7. QED BY <1>3, <1>4, <1>5, <1>6 DEF Inv

-----------------------------------------------------------------------------
(* The scheduled creations.                                                *)

LEMMA PeerUpdateKeeps ==
    ASSUME Inv, NEW j \in Job, PeerUpdate(j)
    PROVE  Inv'
  <1>1. /\ pc[j] = "idle" /\ pool' = j
        /\ UNCHANGED <<awaited, held, locked>>
    BY DEF PeerUpdate
  <1>2. \/ ongoing /\ ongoing' /\ pc' = [pc EXCEPT ![j] = "resolved"]
        \/ ~ongoing /\ ongoing' /\ pc' = [pc EXCEPT ![j] = "creating"]
    BY DEF PeerUpdate, Inv, Shape
  <1>3. j # None /\ j \in Task
    BY TaskAssumption DEF Task
  <1>4. Shape'
    BY <1>1, <1>2, <1>3 DEF Inv, Shape, Places
  <1>5. PromisesAreOld'
    BY <1>1, <1>2, <1>3, TaskAssumption DEF Inv, Shape, PromisesAreOld, Task
  <1>6. OneScheduledCreation'
    BY <1>1, <1>2, <1>3 DEF Inv, Shape, OneScheduledCreation, Task
  <1>7. PromiseTakenOnce'
    BY <1>1 DEF Inv, PromisesAreOld, PromiseTakenOnce
  <1>8. FoundStreamIsExclusive'
    BY <1>1 DEF Inv, FoundStreamIsExclusive
  <1>9. QED BY <1>4, <1>5, <1>6, <1>7, <1>8 DEF Inv

\* A task that created its stream, or failed to, is not idle; a job that is
\* over has left ongoingCreation.
LEMMA JobEndsKeeps ==
    ASSUME Inv, NEW j \in Job, pc[j] \in {"creating", "created"},
           pc' = [pc EXCEPT ![j] = "resolved"], ongoing' = FALSE,
           UNCHANGED <<awaited, held, pool, locked>>
    PROVE  Inv'
  <1>1. j \in Task
    BY DEF Task
  <1>2. Shape'
    BY <1>1 DEF Inv, Shape, Places
  <1>3. PromisesAreOld'
    BY <1>1, TaskAssumption DEF Inv, Shape, PromisesAreOld, Task
  <1>4. OneScheduledCreation'
    BY <1>1 DEF Inv, Shape, OneScheduledCreation, Task
  <1>5. PromiseTakenOnce' /\ FoundStreamIsExclusive'
    BY DEF Inv, PromiseTakenOnce, FoundStreamIsExclusive
  <1>6. QED BY <1>2, <1>3, <1>4, <1>5 DEF Inv

LEMMA CreationFailsKeeps ==
    ASSUME Inv, NEW t \in Task, CreationFails(t)
    PROVE  Inv'
  <1>1. /\ pc[t] = "creating"
        /\ UNCHANGED <<awaited, held, pool, locked>>
    BY DEF CreationFails
  <1>2. CASE t \in Job
    <2>1. pc' = [pc EXCEPT ![t] = "resolved"] /\ ongoing' = FALSE
      BY <1>2 DEF CreationFails
    <2>2. QED BY <1>1, <1>2, <2>1, JobEndsKeeps
  <1>3. CASE t \notin Job
    <2>1. pc' = [pc EXCEPT ![t] = "failed"] /\ ongoing' = ongoing
      BY <1>3 DEF CreationFails, Inv, Shape
    <2>2. \A j \in Job : pc'[j] = pc[j]
      BY <1>3, <2>1 DEF Inv, Shape, Task
    <2>3. Shape'
      BY <1>1, <2>1 DEF Inv, Shape, Places
    <2>4. PromisesAreOld'
      BY <1>1, <2>1, <2>2 DEF Inv, Shape, PromisesAreOld, Task
    <2>5. OneScheduledCreation'
      BY <2>1, <2>2 DEF Inv, OneScheduledCreation
    <2>6. PromiseTakenOnce' /\ FoundStreamIsExclusive'
      BY <1>1 DEF Inv, PromiseTakenOnce, FoundStreamIsExclusive
    <2>7. QED BY <2>3, <2>4, <2>5, <2>6 DEF Inv
  <1>4. QED BY <1>2, <1>3

LEMMA StreamOpensKeeps ==
    ASSUME Inv, NEW t \in Task, StreamOpens(t)
    PROVE  Inv'
  <1>1. /\ pc[t] = "creating" /\ pc' = [pc EXCEPT ![t] = "created"]
        /\ UNCHANGED <<awaited, held, pool, ongoing, locked>>
    BY DEF StreamOpens
  <1>2. \A u \in Task : \/ pc'[u] = pc[u]
                        \/ pc[u] = "creating" /\ pc'[u] = "created"
    BY <1>1 DEF Inv, Shape
  <1>3. Shape'
    BY <1>1 DEF Inv, Shape, Places
  <1>4. PromisesAreOld'
    BY <1>1, <1>2 DEF Inv, Shape, PromisesAreOld, Task
  <1>5. OneScheduledCreation'
    <2>1. \A j \in Job : pc'[j] \in {"creating", "created"}
                           <=> pc[j] \in {"creating", "created"}
      BY <1>2 DEF Task
    <2>2. QED BY <1>1, <2>1 DEF Inv, OneScheduledCreation
  <1>6. PromiseTakenOnce' /\ FoundStreamIsExclusive'
    BY <1>1 DEF Inv, PromiseTakenOnce, FoundStreamIsExclusive
  <1>7. QED BY <1>3, <1>4, <1>5, <1>6 DEF Inv

-----------------------------------------------------------------------------
LEMMA TasksKeptKeeps == Inv /\ TasksKept => Inv'
  BY DEF Inv, Shape, PromisesAreOld, OneScheduledCreation, PromiseTakenOnce,
         FoundStreamIsExclusive, TasksKept, taskVars

LEMMA NextKeeps == Inv /\ [Next]_vars => Inv'
  <1> SUFFICES ASSUME Inv, [Next]_vars PROVE Inv'
    OBVIOUS
  <1>1. CASE UNCHANGED vars
    BY <1>1, TasksKeptKeeps DEF vars, TasksKept, taskVars
  <1>2. ASSUME NEW c \in Caller,
               GetStream(c) \/ AfterScheduled(c) \/ LockCreated(c) \/ Release(c)
        PROVE  Inv'
    BY <1>2, GetStreamKeeps, TakeOrCreateKeeps, LockCreatedKeeps, ReleaseKeeps
       DEF AfterScheduled
  <1>3. ASSUME NEW j \in Job, PeerUpdate(j) \/ FinishJob(j)
        PROVE  Inv'
    BY <1>3, PeerUpdateKeeps, JobEndsKeeps DEF FinishJob
  <1>4. ASSUME NEW t \in Task, Settles(t)
        PROVE  Inv'
    BY <1>4, StreamOpensKeeps, CreationFailsKeeps DEF Settles
  <1>5. ASSUME NEW t \in Task, StreamCloses(t) \/ StreamGone(t)
        PROVE  Inv'
    BY <1>5, TasksKeptKeeps DEF StreamCloses, StreamGone, TasksKept
  <1>6. ASSUME NEW k \in Conn, ConnectionOpens(k) \/ ConnectionDrops(k)
        PROVE  Inv'
    BY <1>6, TasksKeptKeeps DEF ConnectionOpens, ConnectionDrops, TasksKept
  <1>7. QED BY <1>1, <1>2, <1>3, <1>4, <1>5, <1>6 DEF Next

LEMMA InvCorrect == Spec => []Inv
  BY InitInv, NextKeeps, PTL DEF Spec

\* createStreamWithLock: at most one scheduled creation of the peer is under
\* way, and ongoingCreation says whether one is.
THEOREM CreationCorrect == Spec => []OneScheduledCreation
  BY InvCorrect, PTL DEF Inv

\* getStream: a promise of streamPool is awaited by one call, and is not in
\* streamPool any more.
THEOREM PromiseCorrect == Spec => []PromiseTakenOnce
  BY InvCorrect, PTL DEF Inv

\* getOpenStreamForCodec: a stream that was found, not created, has one user.
THEOREM StreamCorrect == Spec => []FoundStreamIsExclusive
  BY InvCorrect, PTL DEF Inv
-----------------------------------------------------------------------------
(* The lists of libp2p.                                                    *)

NoRepeats(list) == \A i, j \in DOMAIN list : list[i] = list[j] => i = j

\* A list without one of its members.
LEMMA RemoveAtOf ==
    ASSUME NEW S, NEW list \in Seq(S), NEW place \in DOMAIN list
    PROVE  /\ RemoveAt(list, place) \in Seq(S)
           /\ Len(RemoveAt(list, place)) = Len(list) - 1
           /\ \A i \in 1 .. Len(list) - 1 :
                RemoveAt(list, place)[i] = IF i < place THEN list[i] ELSE list[i + 1]
<1> DEFINE n     == Len(list)
           left  == SubSeq(list, 1, place - 1)
           right == SubSeq(list, place + 1, n)
           all   == left \o right
<1>1. n \in Nat /\ DOMAIN list = 1 .. n /\ place \in 1 .. n
    BY LenProperties
<1>2. \A i \in 1 .. n : list[i] \in S
    BY ElementOfSeq
<1>3. /\ left \in Seq(S) /\ Len(left) = place - 1
      /\ \A i \in 1 .. place - 1 : left[i] = list[i]
    <2>1. \A i \in 1 .. place - 1 : list[i] \in S
        BY <1>1, <1>2
    <2>2. /\ left \in Seq(S)
          /\ Len(left) = IF 1 <= place - 1 THEN place - 1 - 1 + 1 ELSE 0
          /\ \A i \in 1 .. place - 1 - 1 + 1 : left[i] = list[1 + i - 1]
        BY <1>1, <2>1, SubSeqProperties
    <2> HIDE DEF left
    <2> QED
        BY <1>1, <2>2
<1>4. /\ right \in Seq(S) /\ Len(right) = n - place
      /\ \A i \in 1 .. n - place : right[i] = list[place + i]
    <2>1. \A i \in place + 1 .. n : list[i] \in S
        BY <1>1, <1>2
    <2>2. /\ right \in Seq(S)
          /\ Len(right) = IF place + 1 <= n THEN n - (place + 1) + 1 ELSE 0
          /\ \A i \in 1 .. n - (place + 1) + 1 : right[i] = list[place + 1 + i - 1]
        BY <1>1, <2>1, SubSeqProperties
    <2> HIDE DEF right, n
    <2>3. Len(right) = n - place
        BY <1>1, <2>2
    <2>4. ASSUME NEW i \in 1 .. n - place
          PROVE  right[i] = list[place + i]
        <3>1. i \in 1 .. n - (place + 1) + 1 /\ place + 1 + i - 1 = place + i
            BY <1>1
        <3> QED
            BY <2>2, <3>1
    <2> QED
        BY <2>2, <2>3, <2>4
<1> HIDE DEF left, right, n
<1>5. /\ all \in Seq(S) /\ Len(all) = Len(left) + Len(right)
      /\ \A i \in 1 .. Len(left) + Len(right) :
           all[i] = IF i <= Len(left) THEN left[i] ELSE right[i - Len(left)]
    BY <1>3, <1>4, ConcatProperties
<1> HIDE DEF all
<1>6. Len(all) = n - 1
    BY <1>1, <1>3, <1>4, <1>5
<1>7. ASSUME NEW i \in 1 .. n - 1
      PROVE  all[i] = IF i < place THEN list[i] ELSE list[i + 1]
    <2>1. CASE i < place
        BY <1>1, <1>3, <1>4, <1>5, <2>1
    <2>2. CASE i >= place
        <3>1. i - Len(left) \in 1 .. n - place /\ place + (i - Len(left)) = i + 1
            BY <1>1, <1>3, <2>2
        <3>2. all[i] = right[i - Len(left)]
            BY <1>1, <1>3, <1>4, <1>5, <2>2
        <3> QED
            BY <1>1, <1>4, <2>2, <3>1, <3>2
    <2> QED
        BY <1>1, <2>1, <2>2
<1> QED
    BY <1>5, <1>6, <1>7 DEF RemoveAt, all, left, right, n

LEMMA WithoutOf ==
    ASSUME NEW S, NEW list \in Seq(S), NEW x, NoRepeats(list)
    PROVE  /\ Without(list, x) \in Seq(S)
           /\ NoRepeats(Without(list, x))
           /\ ToSet(Without(list, x)) = ToSet(list) \ {x}
<1>1. CASE x \notin ToSet(list)
    BY <1>1 DEF Without
<1>2. CASE x \in ToSet(list)
    <2>1. PICK n : n = Len(list) /\ n \in Nat /\ DOMAIN list = 1 .. n
        BY LenProperties
    <2>2. PICK place \in 1 .. n : /\ list[place] = x
                                  /\ Without(list, x) = RemoveAt(list, place)
        <3> DEFINE p == CHOOSE i \in DOMAIN list : list[i] = x
        <3>1. p \in DOMAIN list /\ list[p] = x
            BY <1>2 DEF ToSet
        <3> QED
            BY <1>2, <2>1, <3>1 DEF Without
    <2> DEFINE left == RemoveAt(list, place)
    <2>3. /\ left \in Seq(S) /\ Len(left) = n - 1
          /\ \A i \in 1 .. n - 1 : left[i] = IF i < place THEN list[i] ELSE list[i + 1]
        BY <2>1, <2>2, RemoveAtOf
    <2> HIDE DEF left
    <2>4. DOMAIN left = 1 .. n - 1
        BY <2>3, LenProperties
    <2>5. \A i, j \in 1 .. n : list[i] = list[j] => i = j
        BY <2>1 DEF NoRepeats
    <2>6. NoRepeats(left)
        <3> SUFFICES ASSUME NEW i \in 1 .. n - 1, NEW j \in 1 .. n - 1, left[i] = left[j]
                     PROVE  i = j
            BY <2>4 DEF NoRepeats
        <3>1. /\ left[i] = IF i < place THEN list[i] ELSE list[i + 1]
              /\ left[j] = IF j < place THEN list[j] ELSE list[j + 1]
            BY <2>3
        <3>2. i \in 1 .. n /\ i + 1 \in 1 .. n /\ j \in 1 .. n /\ j + 1 \in 1 .. n
            BY <2>1
        <3>3. CASE i < place /\ j < place
            BY <2>5, <3>1, <3>2, <3>3
        <3>4. CASE ~(i < place) /\ ~(j < place)
            <4>1. i + 1 = j + 1
                BY <2>5, <3>1, <3>2, <3>4
            <4> QED
                BY <4>1
        <3>5. CASE i < place /\ ~(j < place)
            <4>1. i = j + 1
                BY <2>5, <3>1, <3>2, <3>5
            <4> QED
                BY <3>5, <4>1
        <3>6. CASE ~(i < place) /\ j < place
            <4>1. i + 1 = j
                BY <2>5, <3>1, <3>2, <3>6
            <4> QED
                BY <3>6, <4>1
        <3> QED
            BY <3>3, <3>4, <3>5, <3>6
    <2>7. ASSUME NEW y \in ToSet(left) PROVE y \in ToSet(list) \ {x}
        <3>1. PICK i \in 1 .. n - 1 : y = left[i]
            BY <2>4 DEF ToSet
        <3>2. PICK j \in 1 .. n : y = list[j] /\ j # place
            <4>1. i \in 1 .. n /\ i + 1 \in 1 .. n
                BY <2>1
            <4> QED
                BY <2>1, <2>2, <2>3, <3>1, <4>1
        <3> QED
            BY <2>1, <2>2, <2>5, <3>2 DEF ToSet
    <2>8. ASSUME NEW y \in ToSet(list) \ {x} PROVE y \in ToSet(left)
        <3>1. PICK j \in 1 .. n : y = list[j] /\ j # place
            BY <2>1, <2>2 DEF ToSet
        <3>2. \E i \in 1 .. n - 1 : y = left[i]
            <4>1. CASE j < place
                <5>1. j \in 1 .. n - 1
                    BY <2>1, <4>1
                <5> QED
                    BY <2>3, <3>1, <4>1, <5>1
            <4>2. CASE j > place
                <5>1. j - 1 \in 1 .. n - 1 /\ (j - 1) + 1 = j /\ ~(j - 1 < place)
                    BY <2>1, <4>2
                <5> QED
                    BY <2>3, <3>1, <5>1
            <4> QED
                BY <2>1, <3>1, <4>1, <4>2
        <3> QED
            BY <2>4, <3>2 DEF ToSet
    <2> QED
        BY <2>2, <2>3, <2>6, <2>7, <2>8 DEF left
<1> QED
    BY <1>1, <1>2

LEMMA AppendOf ==
    ASSUME NEW S, NEW list \in Seq(S), NEW x \in S, x \notin ToSet(list), NoRepeats(list)
    PROVE  /\ Append(list, x) \in Seq(S)
           /\ NoRepeats(Append(list, x))
           /\ ToSet(Append(list, x)) = ToSet(list) \cup {x}
<1> DEFINE all == Append(list, x)
<1>1. PICK n : n = Len(list) /\ n \in Nat /\ DOMAIN list = 1 .. n
    BY LenProperties
<1>2. /\ all \in Seq(S) /\ Len(all) = n + 1 /\ all[n + 1] = x
      /\ \A i \in 1 .. n : all[i] = list[i]
    BY <1>1, AppendProperties
<1> HIDE DEF all
<1>3. DOMAIN all = 1 .. n + 1
    BY <1>2, LenProperties
<1>4. \A i \in 1 .. n + 1 : i = n + 1 \/ i \in 1 .. n
    BY <1>1
<1>5. \A i \in 1 .. n : list[i] # x
    BY <1>1 DEF ToSet
<1>6. NoRepeats(all)
    BY <1>1, <1>2, <1>3, <1>4, <1>5 DEF NoRepeats
<1>7. ToSet(all) = ToSet(list) \cup {x}
    <2>1. n + 1 \in 1 .. n + 1 /\ 1 .. n \subseteq 1 .. n + 1
        BY <1>1
    <2> QED
        BY <1>1, <1>2, <1>3, <1>4, <2>1 DEF ToSet
<1> QED
    BY <1>2, <1>6, <1>7 DEF all

(***************************************************************************)
(* The second inductive invariant: a stream is listed once, by a           *)
(* connection that is open, exactly while it lives; it is negotiated while *)
(* its task waits for it; and a call that got a stream has one.            *)
(***************************************************************************)
NetTypes ==
    /\ conns \in Seq(Conn)
    /\ streams \in [Conn -> Seq(Task)]
    /\ status \in [Task -> {"none", "negotiating", "ready", "closing", "gone"}]

Live == {"negotiating", "ready", "closing"}

ListedOnce ==
    /\ NoRepeats(conns)
    /\ \A k \in Conn : NoRepeats(streams[k])
    /\ \A k, l \in Conn : ToSet(streams[k]) \cap ToSet(streams[l]) # {} => k = l
    /\ \A k \in Conn : ToSet(streams[k]) # {} => k \in ToSet(conns)

ListedWhileLive ==
    \A t \in Task : status[t] \in Live <=> \E k \in Conn : t \in ToSet(streams[k])

TasksTold ==
    /\ \A t \in Task : pc[t] \in {"idle", "waiting"} => status[t] = "none"
    /\ \A t \in Task : status[t] = "negotiating" => pc[t] = "creating"
    /\ \A c \in Caller : pc[c] = "got" => held[c] \in Task

ListInv == TypeOK /\ ListedOnce /\ ListedWhileLive /\ TasksTold

LEMMA ListInvInit == Init => ListInv
<1> SUFFICES ASSUME Init PROVE ListInv
    OBVIOUS
<1>1. <<>> \in Seq(Conn) /\ <<>> \in Seq(Task) /\ ToSet(<<>>) = {} /\ DOMAIN <<>> = {}
    BY EmptySeq DEF ToSet
<1>2. TypeOK
    BY <1>1 DEF Init, TypeOK
<1>3. ListedOnce /\ ListedWhileLive
    BY <1>1 DEF Init, ListedOnce, ListedWhileLive, NoRepeats, Live
<1>4. TasksTold
    BY DEF Init, TasksTold, Task
<1> QED
    BY <1>2, <1>3, <1>4 DEF ListInv

LEMMA NewestOf ==
    ASSUME NEW S, conns \in Seq(S), conns # <<>>
    PROVE  Newest \in S /\ Newest \in ToSet(conns)
<1>1. PICK n : n = Len(conns) /\ n \in Nat /\ DOMAIN conns = 1 .. n
    BY LenProperties
<1>2. n # 0
    BY <1>1, EmptySeq, SeqEqual
<1>3. n \in 1 .. Len(conns)
    BY <1>1, <1>2
<1> QED
    BY <1>1, <1>3, ElementOfSeq DEF Newest, ToSet

\* What getOpenStreamForCodec finds: a stream that is open, on an open connection.
LEMMA OpenStreamOf ==
    ASSUME ListInv
    PROVE  \/ OpenStream = None
           \/ /\ OpenStream \in Task /\ status[OpenStream] = "ready"
              /\ OpenStream \notin locked
              /\ Newest \in ToSet(conns) /\ OpenStream \in ToSet(streams[Newest])
<1> SUFFICES ASSUME OpenStream # None
             PROVE  /\ OpenStream \in Task /\ status[OpenStream] = "ready"
                    /\ OpenStream \notin locked
                    /\ Newest \in ToSet(conns) /\ OpenStream \in ToSet(streams[Newest])
    OBVIOUS
<1>1. PICK i \in DOMAIN streams[Newest] : IsOpenStream(i) /\ OpenStream = streams[Newest][i]
    BY DEF OpenStream
<1>2. Newest \in Conn /\ Newest \in ToSet(conns)
    BY NewestOf DEF OpenStream, Connected, ListInv, TypeOK
<1>3. OpenStream \in ToSet(streams[Newest])
    BY <1>1 DEF ToSet
<1>4. OpenStream \in Task
    BY <1>1, <1>2, ElementOfSeq, LenProperties DEF ListInv, TypeOK
<1> QED
    BY <1>1, <1>2, <1>3, <1>4 DEF IsOpenStream

\* Streams and connections stay as they are, but for what becomes of a live stream.
LEMMA ListsStay ==
    ASSUME ListInv, NetTypes', UNCHANGED <<conns, streams>>,
           \A t \in Task : status'[t] \in Live <=> status[t] \in Live
    PROVE  ListedOnce' /\ ListedWhileLive'
BY DEF ListInv, ListedOnce, ListedWhileLive, NoRepeats, Live

\* createStream asks for a stream, or there is no connection.
LEMMA RequestKeeps ==
    ASSUME ListInv, NEW t \in Task, pc[t] \in {"idle", "waiting"}, RequestStream(t),
           pc' = [pc EXCEPT ![t] = "creating"], held' = held
    PROVE  NetTypes' /\ ListedOnce' /\ ListedWhileLive' /\ TasksTold'
<1> USE DEF ListInv, TypeOK
<1>1. /\ status[t] = "none" /\ pc'[t] = "creating"
      /\ \A u \in Task \ {t} : pc'[u] = pc[u]
    BY DEF TasksTold
<1>2. CASE ~Connected
    <2>1. UNCHANGED netVars
        BY <1>2 DEF RequestStream
    <2>2. NetTypes' /\ TasksTold'
        BY <1>1, <2>1 DEF NetTypes, netVars, TasksTold, Task
    <2> QED
        BY <2>1, <2>2, ListsStay DEF netVars
<1>3. CASE Connected
    <2> DEFINE k == Newest
    <2>1. /\ streams' = [streams EXCEPT ![k] = Append(@, t)]
          /\ status' = [status EXCEPT ![t] = "negotiating"]
          /\ conns' = conns
        BY <1>3 DEF RequestStream
    <2>2. k \in Conn /\ k \in ToSet(conns)
        BY <1>3, NewestOf DEF Connected
    <2> HIDE DEF k
    <2>3. \A l \in Conn : t \notin ToSet(streams[l])
        BY <1>1 DEF ListedWhileLive, Live
    <2>4. /\ streams'[k] \in Seq(Task) /\ NoRepeats(streams'[k])
          /\ ToSet(streams'[k]) = ToSet(streams[k]) \cup {t}
        <3>1. streams'[k] = Append(streams[k], t)
            BY <2>1, <2>2
        <3>2. streams[k] \in Seq(Task) /\ NoRepeats(streams[k])
            BY <2>2 DEF ListedOnce
        <3> QED
            BY <2>2, <2>3, <3>1, <3>2, AppendOf
    <2>5. \A l \in Conn \ {k} : streams'[l] = streams[l]
        BY <2>1
    <2>6. /\ status'[t] = "negotiating"
          /\ \A u \in Task \ {t} : status'[u] = status[u]
        BY <2>1
    <2>7. NetTypes'
        BY <2>1, <2>2, <2>4 DEF NetTypes
    <2>8. NoRepeats(conns') /\ \A l \in Conn : NoRepeats(streams'[l])
        BY <2>1, <2>4, <2>5 DEF ListedOnce
    <2>9. \A l, m \in Conn : ToSet(streams'[l]) \cap ToSet(streams'[m]) # {} => l = m
        <3> SUFFICES ASSUME NEW l \in Conn, NEW m \in Conn, NEW u,
                            u \in ToSet(streams'[l]), u \in ToSet(streams'[m])
                     PROVE  l = m
            OBVIOUS
        <3>1. CASE u = t
            BY <2>3, <2>5, <3>1
        <3>2. CASE u # t
            <4>1. u \in ToSet(streams[l]) /\ u \in ToSet(streams[m])
                BY <2>4, <2>5, <3>2
            <4> QED
                BY <4>1 DEF ListedOnce
        <3> QED
            BY <3>1, <3>2
    <2>10. \A l \in Conn : ToSet(streams'[l]) # {} => l \in ToSet(conns')
        BY <2>1, <2>2, <2>5 DEF ListedOnce
    <2>11. ListedWhileLive'
        <3> SUFFICES ASSUME NEW u \in Task
                     PROVE  status'[u] \in Live <=> \E l \in Conn : u \in ToSet(streams'[l])
            BY DEF ListedWhileLive, Live
        <3>1. CASE u = t
            BY <2>2, <2>4, <2>6, <3>1 DEF Live
        <3>2. CASE u # t
            <4>1. \A l \in Conn : u \in ToSet(streams'[l]) <=> u \in ToSet(streams[l])
                BY <2>4, <2>5, <3>2
            <4> QED
                BY <2>6, <3>2, <4>1 DEF ListedWhileLive
        <3> QED
            BY <3>1, <3>2
    <2>12. TasksTold'
        BY <1>1, <2>6 DEF TasksTold, Task
    <2> QED
        BY <2>7, <2>8, <2>9, <2>10, <2>11, <2>12 DEF ListedOnce
<1> QED
    BY <1>2, <1>3

\* A call of getStream that moves on.
LEMMA TakeOrCreateLists ==
    ASSUME ListInv, NEW c \in Caller, pc[c] \in {"idle", "waiting"}, TakeOrCreate(c),
           UNCHANGED <<awaited, pool, ongoing>>
    PROVE  ListInv'
<1>1. c \in Task
    BY DEF Task
<1>2. CASE OpenStream # None
    <2>1. /\ OpenStream \in Task /\ held' = [held EXCEPT ![c] = OpenStream]
          /\ locked' = locked \cup {OpenStream} /\ pc' = [pc EXCEPT ![c] = "got"]
          /\ UNCHANGED netVars
        BY <1>2, OpenStreamOf DEF TakeOrCreate
    <2>2. TypeOK' /\ NetTypes'
        BY <1>1, <2>1 DEF ListInv, TypeOK, NetTypes, netVars
    <2>3. TasksTold'
        BY <1>1, <2>1 DEF ListInv, TypeOK, TasksTold, Task, netVars
    <2> QED
        BY <2>1, <2>2, <2>3, ListsStay DEF ListInv, netVars
<1>3. CASE OpenStream = None
    <2>1. /\ pc' = [pc EXCEPT ![c] = "creating"] /\ RequestStream(c)
          /\ UNCHANGED <<held, locked>>
        BY <1>3 DEF TakeOrCreate
    <2>2. NetTypes' /\ ListedOnce' /\ ListedWhileLive' /\ TasksTold'
        BY <1>1, <2>1, RequestKeeps
    <2>3. TypeOK'
        BY <1>1, <2>1, <2>2 DEF ListInv, TypeOK, NetTypes
    <2> QED
        BY <2>2, <2>3 DEF ListInv
<1> QED
    BY <1>2, <1>3

\* A task moves on without asking for a stream, and libp2p does nothing.
LEMMA TaskMoves ==
    ASSUME ListInv, NEW t \in Task, UNCHANGED netVars, TypeOK',
           \A u \in Task \ {t} : pc'[u] = pc[u],
           pc[t] # "creating" \/ status[t] # "negotiating",
           pc'[t] \in {"idle", "waiting"} => status[t] = "none",
           \A c \in Caller : pc'[c] = "got" => held'[c] \in Task
    PROVE  ListInv'
<1>1. NetTypes'
    BY DEF TypeOK, NetTypes
<1>2. TasksTold'
    BY DEF ListInv, TasksTold, netVars, Task
<1> QED
    BY <1>1, <1>2, ListsStay DEF ListInv, netVars

LEMMA CallerMovesLists ==
    ASSUME ListInv, NEW c \in Caller,
           GetStream(c) \/ AfterScheduled(c) \/ LockCreated(c)
    PROVE  ListInv'
<1> USE DEF ListInv, TypeOK
<1>1. c \in Task
    BY DEF Task
<1>2. CASE GetStream(c) /\ pool # None
    <2>1. /\ pc[c] = "idle" /\ pc' = [pc EXCEPT ![c] = "waiting"]
          /\ awaited' = [awaited EXCEPT ![c] = pool] /\ pool' = None
          /\ UNCHANGED <<held, locked, netVars, ongoing>>
        BY <1>2 DEF GetStream
    <2>2. TypeOK'
        BY <1>1, <1>2, <2>1 DEF netVars
    <2>3. status[c] = "none" /\ \A d \in Caller : pc'[d] = "got" => held'[d] \in Task
        BY <1>1, <2>1 DEF TasksTold
    <2> QED
        BY <1>1, <2>1, <2>2, <2>3, TaskMoves
<1>3. CASE GetStream(c) /\ pool = None
    BY <1>3, TakeOrCreateLists DEF GetStream
<1>4. CASE AfterScheduled(c)
    BY <1>4, TakeOrCreateLists DEF AfterScheduled
<1>5. CASE LockCreated(c)
    <2>1. /\ pc[c] = "created" /\ pc' = [pc EXCEPT ![c] = "got"]
          /\ held' = [held EXCEPT ![c] = c] /\ locked' = locked \cup {c}
          /\ UNCHANGED <<awaited, pool, ongoing, netVars>>
        BY <1>5 DEF LockCreated
    <2>2. TypeOK'
        BY <1>1, <2>1 DEF netVars
    <2>3. \A d \in Caller : pc'[d] = "got" => held'[d] \in Task
        BY <1>1, <2>1 DEF TasksTold, Task
    <2> QED
        BY <1>1, <2>1, <2>2, <2>3, TaskMoves
<1> QED
    BY <1>2, <1>3, <1>4, <1>5

LEMMA JobMovesLists ==
    ASSUME ListInv, NEW j \in Job, PeerUpdate(j) \/ FinishJob(j)
    PROVE  ListInv'
<1> USE DEF ListInv, TypeOK
<1>1. j \in Task /\ j \notin Caller
    BY TaskAssumption DEF Task
<1>2. CASE PeerUpdate(j) /\ ongoing
    <2>1. /\ pc[j] = "idle" /\ pc' = [pc EXCEPT ![j] = "resolved"] /\ pool' = j
          /\ UNCHANGED <<awaited, held, locked, ongoing, netVars>>
        BY <1>2 DEF PeerUpdate
    <2>2. TypeOK'
        BY <1>1, <2>1 DEF netVars
    <2>3. \A d \in Caller : pc'[d] = "got" => held'[d] \in Task
        BY <1>1, <2>1 DEF TasksTold, Task
    <2>4. pc'[j] = "resolved" /\ \A u \in Task \ {j} : pc'[u] = pc[u]
        BY <1>1, <2>1
    <2> QED
        BY <1>1, <2>1, <2>2, <2>3, <2>4, TaskMoves
<1>3. CASE PeerUpdate(j) /\ ~ongoing
    <2>1. /\ pc[j] = "idle" /\ pc' = [pc EXCEPT ![j] = "creating"] /\ pool' = j
          /\ ongoing' = TRUE /\ RequestStream(j)
          /\ UNCHANGED <<awaited, held, locked>>
        BY <1>3 DEF PeerUpdate
    <2>2. NetTypes' /\ ListedOnce' /\ ListedWhileLive' /\ TasksTold'
        BY <1>1, <2>1, RequestKeeps
    <2>3. TypeOK'
        BY <1>1, <2>1, <2>2 DEF NetTypes
    <2> QED
        BY <2>2, <2>3
<1>4. CASE FinishJob(j)
    <2>1. /\ pc[j] = "created" /\ pc' = [pc EXCEPT ![j] = "resolved"] /\ ongoing' = FALSE
          /\ UNCHANGED <<awaited, held, pool, locked, netVars>>
        BY <1>4 DEF FinishJob
    <2>2. TypeOK'
        BY <1>1, <2>1 DEF netVars
    <2>3. \A d \in Caller : pc'[d] = "got" => held'[d] \in Task
        BY <1>1, <2>1 DEF TasksTold, Task
    <2> QED
        BY <1>1, <2>1, <2>2, <2>3, TaskMoves
<1> QED
    BY <1>2, <1>3, <1>4

\* A stream changes its state and is still listed, or was not.
LEMMA StatusMoves ==
    ASSUME ListInv, TypeOK', NEW s \in Task, UNCHANGED <<conns, streams, held>>,
           \A t \in Task \ {s} : status'[t] = status[t],
           status'[s] \in Live <=> status[s] \in Live, status'[s] # "negotiating",
           status'[s] = status[s] \/ status[s] \in Live,
           \A t \in Task : \/ pc'[t] = pc[t]
                           \/ t = s /\ pc'[t] = "created"
                           \/ pc[t] = "got" /\ pc'[t] = "released"
    PROVE  ListInv'
<1>1. NetTypes'
    BY DEF TypeOK, NetTypes
<1>2. TasksTold'
    BY DEF ListInv, TasksTold, Task, Live
<1> QED
    BY <1>1, <1>2, ListsStay DEF ListInv

LEMMA StreamMovesLists ==
    ASSUME ListInv,
           \/ \E t \in Task : StreamOpens(t) \/ StreamCloses(t)
           \/ \E c \in Caller : Release(c)
    PROVE  ListInv'
<1> USE DEF ListInv, TypeOK
<1>1. ASSUME NEW t \in Task, StreamOpens(t)
      PROVE  ListInv'
    <2>1. /\ status[t] = "negotiating" /\ status' = [status EXCEPT ![t] = "ready"]
          /\ pc' = [pc EXCEPT ![t] = "created"]
          /\ UNCHANGED <<conns, streams, awaited, held, pool, ongoing, locked>>
        BY <1>1 DEF StreamOpens
    <2>2. TypeOK'
        BY <2>1
    <2> QED
        BY <2>1, <2>2, StatusMoves DEF Live
<1>2. ASSUME NEW t \in Task, StreamCloses(t)
      PROVE  ListInv'
    <2>1. /\ status[t] = "ready" /\ status' = [status EXCEPT ![t] = "closing"]
          /\ UNCHANGED <<conns, streams, pc, awaited, held, pool, ongoing, locked>>
        BY <1>2 DEF StreamCloses, taskVars
    <2>2. TypeOK'
        BY <2>1
    <2> QED
        BY <2>1, <2>2, StatusMoves DEF Live
<1>3. ASSUME NEW c \in Caller, Release(c)
      PROVE  ListInv'
    <2> DEFINE s == held[c]
    <2>1. /\ pc[c] = "got" /\ pc' = [pc EXCEPT ![c] = "released"]
          /\ status' = [status EXCEPT ![s] = IF @ = "ready" THEN "closing" ELSE @]
          /\ UNCHANGED <<conns, streams, awaited, held, pool, ongoing, locked>>
        BY <1>3 DEF Release
    <2>2. c \in Task /\ s \in Task
        BY <2>1 DEF TasksTold, Task
    <2> HIDE DEF s
    <2>3. status'[s] = IF status[s] = "ready" THEN "closing" ELSE status[s]
        BY <2>1, <2>2
    <2>4. TypeOK'
        <3>1. status' \in [Task -> {"none", "negotiating", "ready", "closing", "gone"}]
            BY <2>1, <2>2, <2>3
        <3> QED
            BY <2>1, <2>2, <3>1
    <2>5. CASE status[s] = "negotiating"
        <3>1. status' = status
            BY <2>1, <2>2, <2>3, <2>5
        <3>2. NetTypes' /\ \A t \in Task : status'[t] \in Live <=> status[t] \in Live
            BY <2>4, <3>1 DEF NetTypes
        <3>3. TasksTold'
            BY <2>1, <2>2, <3>1 DEF TasksTold, Task
        <3> QED
            BY <2>1, <2>4, <3>2, <3>3, ListsStay
    <2>6. CASE status[s] # "negotiating"
        <3>1. /\ status'[s] \in Live <=> status[s] \in Live
              /\ status'[s] # "negotiating"
              /\ status'[s] = status[s] \/ status[s] \in Live
            BY <2>3, <2>6 DEF Live
        <3>2. \A t \in Task \ {s} : status'[t] = status[t]
            BY <2>1
        <3>3. \A t \in Task : pc'[t] = pc[t] \/ (pc[t] = "got" /\ pc'[t] = "released")
            <4>1. pc \in [Task -> Places]
                BY DEF Places
            <4>2. pc'[c] = "released" /\ \A t \in Task \ {c} : pc'[t] = pc[t]
                BY <2>1, <2>2, <4>1
            <4> QED
                BY <2>1, <4>2
        <3> QED
            BY <2>1, <2>2, <2>4, <3>1, <3>2, <3>3, StatusMoves
    <2> QED
        BY <2>5, <2>6
<1> QED
    BY <1>1, <1>2, <1>3

\* A stream leaves the lists.
LEMMA UnlistedKeeps ==
    ASSUME ListInv, NEW s \in Task, streams' = Unlisted(s), conns' = conns,
           status' = [status EXCEPT ![s] = "gone"]
    PROVE  NetTypes' /\ ListedOnce' /\ ListedWhileLive'
<1> USE DEF ListInv, TypeOK
<1>1. ASSUME NEW k \in Conn
      PROVE  /\ streams'[k] \in Seq(Task) /\ NoRepeats(streams'[k])
             /\ ToSet(streams'[k]) = ToSet(streams[k]) \ {s}
    <2>1. streams'[k] = Without(streams[k], s)
        BY DEF Unlisted
    <2>2. streams[k] \in Seq(Task) /\ NoRepeats(streams[k])
        BY DEF ListedOnce
    <2> QED
        BY <2>1, <2>2, WithoutOf
<1>2. NetTypes'
    <2>1. streams' = [k \in Conn |-> streams'[k]]
        BY DEF Unlisted
    <2> QED
        BY <1>1, <2>1 DEF NetTypes
<1>3. ListedOnce'
    BY <1>1 DEF ListedOnce
<1>4. ListedWhileLive'
    <2> SUFFICES ASSUME NEW u \in Task
                 PROVE  status'[u] \in Live <=> \E k \in Conn : u \in ToSet(streams'[k])
        BY DEF ListedWhileLive, Live
    <2>1. CASE u = s
        BY <1>1, <2>1 DEF Live
    <2>2. CASE u # s
        <3>1. \A k \in Conn : u \in ToSet(streams'[k]) <=> u \in ToSet(streams[k])
            BY <1>1, <2>2
        <3> QED
            BY <2>2, <3>1 DEF ListedWhileLive
    <2> QED
        BY <2>1, <2>2
<1> QED
    BY <1>2, <1>3, <1>4

LEMMA StreamEndsLists ==
    ASSUME ListInv, NEW t \in Task, CreationFails(t) \/ StreamGone(t)
    PROVE  ListInv'
<1> USE DEF ListInv, TypeOK
<1>1. CASE CreationFails(t)
    <2> DEFINE end == IF t \in Job THEN "resolved" ELSE "failed"
    <2>1. /\ pc[t] = "creating" /\ pc' = [pc EXCEPT ![t] = end]
          /\ streams' = Unlisted(t) /\ status' = [status EXCEPT ![t] = "gone"]
          /\ ongoing' = (ongoing /\ t \notin Job)
          /\ UNCHANGED <<conns, awaited, held, pool, locked>>
        BY <1>1 DEF CreationFails
    <2>2. NetTypes' /\ ListedOnce' /\ ListedWhileLive'
        BY <2>1, UnlistedKeeps
    <2>3. TasksTold'
        BY <2>1 DEF TasksTold, Task
    <2>4. TypeOK'
        BY <2>1, <2>2 DEF NetTypes
    <2> QED
        BY <2>2, <2>3, <2>4
<1>2. CASE StreamGone(t)
    <2>1. /\ status[t] = "closing" /\ status' = [status EXCEPT ![t] = "gone"]
          /\ streams' = Unlisted(t)
          /\ UNCHANGED <<conns, pc, awaited, held, pool, ongoing, locked>>
        BY <1>2 DEF StreamGone, taskVars
    <2>2. NetTypes' /\ ListedOnce' /\ ListedWhileLive'
        BY <2>1, UnlistedKeeps
    <2>3. TasksTold'
        BY <2>1 DEF TasksTold, Task
    <2>4. TypeOK'
        BY <2>1, <2>2 DEF NetTypes
    <2> QED
        BY <2>2, <2>3, <2>4
<1> QED
    BY <1>1, <1>2

LEMMA ConnectionMovesLists ==
    ASSUME ListInv, NEW k \in Conn, ConnectionOpens(k) \/ ConnectionDrops(k)
    PROVE  ListInv'
<1> USE DEF ListInv, TypeOK
<1>1. UNCHANGED <<pc, awaited, held, pool, ongoing, locked>>
    BY DEF ConnectionOpens, ConnectionDrops, taskVars
<1>2. conns \in Seq(Conn) /\ NoRepeats(conns)
    BY DEF ListedOnce
<1>3. CASE ConnectionOpens(k)
    <2>1. k \notin ToSet(conns) /\ conns' = Append(conns, k) /\ UNCHANGED <<streams, status>>
        BY <1>3 DEF ConnectionOpens
    <2>2. /\ conns' \in Seq(Conn) /\ NoRepeats(conns')
          /\ ToSet(conns') = ToSet(conns) \cup {k}
        BY <1>2, <2>1, AppendOf
    <2>3. TypeOK'
        BY <1>1, <2>1, <2>2
    <2>4. ListedOnce'
        BY <2>1, <2>2 DEF ListedOnce
    <2>5. ListedWhileLive' /\ TasksTold'
        BY <1>1, <2>1 DEF ListedWhileLive, TasksTold
    <2> QED
        BY <2>3, <2>4, <2>5
<1>4. CASE ConnectionDrops(k)
    <2>1. /\ conns' = Without(conns, k) /\ streams' = [streams EXCEPT ![k] = <<>>]
          /\ status' = [s \in Task |-> IF s \in ToSet(streams[k]) THEN "gone" ELSE status[s]]
        BY <1>4 DEF ConnectionDrops
    <2>2. /\ conns' \in Seq(Conn) /\ NoRepeats(conns')
          /\ ToSet(conns') = ToSet(conns) \ {k}
        BY <1>2, <2>1, WithoutOf
    <2>3. /\ streams'[k] = <<>> /\ <<>> \in Seq(Task) /\ NoRepeats(<<>>) /\ ToSet(<<>>) = {}
          /\ \A l \in Conn \ {k} : streams'[l] = streams[l]
        BY <2>1, EmptySeq DEF NoRepeats, ToSet
    <2>4. TypeOK'
        BY <1>1, <2>1, <2>2, <2>3
    <2>5. ListedOnce'
        <3>1. \A l \in Conn : NoRepeats(streams'[l])
            BY <2>3 DEF ListedOnce
        <3>2. \A l \in Conn : ToSet(streams'[l]) # {} => l # k /\ ToSet(streams[l]) # {}
            BY <2>3
        <3>3. \A l, m \in Conn : ToSet(streams'[l]) \cap ToSet(streams'[m]) # {} => l = m
            BY <2>3 DEF ListedOnce
        <3> QED
            BY <2>2, <3>1, <3>2, <3>3 DEF ListedOnce
    <2>6. ListedWhileLive'
        <3> SUFFICES ASSUME NEW u \in Task
                     PROVE  status'[u] \in Live <=> \E l \in Conn : u \in ToSet(streams'[l])
            BY DEF ListedWhileLive, Live
        <3>1. CASE u \in ToSet(streams[k])
            <4>1. \A l \in Conn \ {k} : u \notin ToSet(streams[l])
                BY <3>1 DEF ListedOnce
            <4> QED
                BY <2>1, <2>3, <3>1, <4>1 DEF Live
        <3>2. CASE u \notin ToSet(streams[k])
            <4>1. \A l \in Conn : u \in ToSet(streams'[l]) <=> u \in ToSet(streams[l])
                BY <2>3, <3>2
            <4> QED
                BY <2>1, <3>2, <4>1 DEF ListedWhileLive
        <3> QED
            BY <3>1, <3>2
    <2>7. TasksTold'
        <3>1. \A u \in Task : /\ status'[u] = "negotiating" => status[u] = "negotiating"
                              /\ status[u] = "none" => status'[u] = "none"
            BY <2>1 DEF ListedWhileLive, Live
        <3> QED
            BY <1>1, <3>1 DEF TasksTold, Task
    <2> QED
        BY <2>4, <2>5, <2>6, <2>7
<1> QED
    BY <1>3, <1>4

LEMMA ListInvNext == ListInv /\ [Next]_vars => ListInv'
<1> SUFFICES ASSUME ListInv, [Next]_vars PROVE ListInv'
    OBVIOUS
<1>1. CASE UNCHANGED vars
    BY <1>1 DEF vars, taskVars, netVars, ListInv, TypeOK, ListedOnce, ListedWhileLive, TasksTold
<1>2. ASSUME NEW c \in Caller,
             GetStream(c) \/ AfterScheduled(c) \/ LockCreated(c) \/ Release(c)
      PROVE  ListInv'
    BY <1>2, CallerMovesLists, StreamMovesLists
<1>3. ASSUME NEW t \in Task, Settles(t) \/ StreamCloses(t) \/ StreamGone(t)
      PROVE  ListInv'
    BY <1>3, StreamMovesLists, StreamEndsLists DEF Settles
<1> QED
    BY <1>1, <1>2, <1>3, JobMovesLists, ConnectionMovesLists DEF Next

LEMMA ListInvCorrect == Spec => []ListInv
BY ListInvInit, ListInvNext, PTL DEF Spec

\* Every variable of the stream manager, and of libp2p's streams, stays in its type.
THEOREM TypeCorrect == Spec => []TypeOK
BY ListInvCorrect, PTL DEF ListInv

\* A stream that is found is open, on an open connection, and no call has it.
FindsLiveStream ==
    OpenStream # None =>
      /\ status[OpenStream] = "ready" /\ Newest \in ToSet(conns)
      /\ \A c \in Caller : held[c] # OpenStream

\* Whatever closed or dropped before, getOpenStreamForCodec, which looks at the newest
\* connection and there at the first stream of the codec only, finds no stream that is
\* gone or that a call of getStream was given.
THEOREM FoundStreamLives == Spec => []FindsLiveStream
<1>1. ListInv /\ Inv => FindsLiveStream
    BY OpenStreamOf DEF Inv, FoundStreamIsExclusive, FindsLiveStream
<1> QED
    BY <1>1, ListInvCorrect, InvCorrect, PTL

=============================================================================
