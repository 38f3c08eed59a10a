---------------------------- MODULE Messaging_proofs ----------------------------
(***************************************************************************)
(* What a message may count on, whatever the messages, subscriptions,      *)
(* decoders and times: the pages of a Store query join, the relay serves   *)
(* who stays subscribed, an iterator that was stopped drops nothing, the   *)
(* window of a query keeps its sides, and what is decoded is what was      *)
(* sent, whichever way it took.                                            *)
(*                                                                         *)
(* The proofs about the parts are of their own steps; the last theorems    *)
(* put them together, for every step of Messaging is one of a part.        *)
(***************************************************************************)
EXTENDS Messaging, Messages_proofs

-----------------------------------------------------------------------------
(* Store queries.                                                          *)

(***************************************************************************)
(* The inductive invariant.  What was yielded is told by the cursor: going *)
(* forward it is everything after the caller's cursor, up to the cursor,   *)
(* and going back everything from the cursor up to the message before the  *)
(* caller's cursor or, without one, the message the first page ended with. *)
(***************************************************************************)
SeenUpTo(from, cursor, seen) == from <= cursor /\ seen = (from + 1) .. cursor

SeenDownTo(from, cursor, seen) ==
    IF cursor = from THEN seen = {}
    ELSE /\ cursor > 0
         /\ \E top \in Nat :
              /\ top >= cursor /\ seen = cursor .. top
              /\ from # 0 => top = from - 1

SeenTo(cursor, seen) ==
    IF query.forward THEN SeenUpTo(query.from, cursor, seen)
    ELSE SeenDownTo(query.from, cursor, seen)

Query ==
    [pc : {"idle", "request", "page"}, forward : BOOLEAN, from : Nat, cursor : Nat,
     page : Seq(Nat), calls : SUBSET Nat, abort : BOOLEAN,
     seen : SUBSET Nat, twice : BOOLEAN]

QueryTypes == log \in Nat /\ query \in Query

AtRequest ==
    query.pc = "request" =>
      /\ query.cursor <= log
      /\ SeenTo(query.cursor, query.seen)

AtPage ==
    query.pc = "page" =>
      /\ query.page # <<>>
      /\ NextCursor(query) \in 1 .. log
      /\ SeenTo(NextCursor(query), query.seen)

QueryInv ==
    /\ QueryTypes
    /\ ~query.twice
    /\ query.pc = "idle" => query.seen = {}
    /\ AtRequest
    /\ AtPage

-----------------------------------------------------------------------------
\* A page is a run of messages: what it holds, and its two ends.
LEMMA PageIsARun ==
    ASSUME NEW first \in Nat, first >= 1, NEW n \in Nat, n >= 1,
           NEW page, page = [i \in 1 .. n |-> first + i - 1]
    PROVE  /\ page \in Seq(Nat) /\ Len(page) = n /\ page # <<>>
           /\ page[1] = first /\ page[Len(page)] = first + n - 1
           /\ ToSet(page) = first .. (first + n - 1)
<1>1. page \in Seq(Nat)
    <2>1. page \in [1 .. n -> Nat]
        OBVIOUS
    <2> QED
        BY <2>1
<1>2. Len(page) = n
    BY <1>1
<1>3. page # <<>>
    BY <1>2
<1>4. page[1] = first /\ page[Len(page)] = first + n - 1
    BY <1>2
<1>5. ASSUME NEW m \in first .. (first + n - 1)
      PROVE  m \in ToSet(page)
    <2>1. m - first + 1 \in 1 .. n /\ page[m - first + 1] = m
        OBVIOUS
    <2> QED
        BY <2>1 DEF ToSet
<1>6. ASSUME NEW m \in ToSet(page)
      PROVE  m \in first .. (first + n - 1)
    <2>1. PICK i \in DOMAIN page : m = page[i]
        BY <1>6 DEF ToSet
    <2>2. i \in 1 .. n /\ m = first + i - 1
        BY <2>1
    <2> QED
        BY <2>2
<1> QED
    BY <1>1, <1>2, <1>3, <1>4, <1>5, <1>6

\* A page that is not empty follows the cursor, or ends before it.
LEMMA PageAtCursor ==
    ASSUME QueryTypes, query.cursor <= log,
           NEW page \in Pages(query.forward, query.cursor), page # <<>>
    PROVE  \E first \in Nat, n \in Nat :
              /\ first >= 1 /\ n >= 1 /\ first + n - 1 <= log
              /\ page = [i \in 1 .. n |-> first + i - 1]
              /\ query.forward => first = query.cursor + 1
              /\ ~query.forward /\ query.cursor # 0 => first + n = query.cursor
<1> USE DEF QueryTypes, Query
<1> DEFINE left == IF query.forward THEN log - query.cursor
                   ELSE IF query.cursor = 0 THEN log ELSE query.cursor - 1
           start(n) == IF query.forward THEN query.cursor + 1 ELSE left - n + 1
<1>1. left \in Nat /\ left <= log
    OBVIOUS
<1>2. left # 0
    BY DEF Pages
<1>3. PICK n \in 1 .. left : page = [i \in 1 .. n |-> start(n) + i - 1]
    BY <1>2 DEF Pages
<1>4. PICK first \in Nat :
        /\ first = start(n) /\ first >= 1 /\ first + n - 1 <= log
        /\ query.forward => first = query.cursor + 1
        /\ ~query.forward /\ query.cursor # 0 => first + n = query.cursor
    <2>1. n \in Nat /\ n >= 1 /\ n <= left
        BY <1>1, <1>3
    <2>2. CASE query.forward
        <3>1. start(n) = query.cursor + 1 /\ left = log - query.cursor
            BY <2>2
        <3>2. query.cursor + 1 >= 1 /\ query.cursor + 1 + n - 1 <= log
            BY <2>1, <3>1
        <3> QED
            BY <2>2, <3>1, <3>2
    <2>3. CASE ~query.forward
        <3>1. /\ start(n) = left - n + 1
              /\ query.cursor # 0 => left = query.cursor - 1
            BY <2>3
        <3> HIDE DEF left
        <3>2. left - n + 1 \in Nat /\ left - n + 1 >= 1 /\ left - n + 1 + n - 1 <= log
            BY <1>1, <2>1
        <3>3. query.cursor # 0 => left - n + 1 + n = query.cursor
            BY <1>1, <2>1, <3>1
        <3> QED
            BY <2>3, <3>1, <3>2, <3>3
    <2> QED
        BY <2>2, <2>3
<1>5. page = [i \in 1 .. n |-> first + i - 1] /\ n \in Nat /\ n >= 1
    BY <1>1, <1>3, <1>4
<1> HIDE DEF start, left
<1> QED
    BY <1>4, <1>5

\* The page that is yielded takes the messages seen up to its own cursor, and none
\* of them was seen before: going forward,
LEMMA SeenGrowsUp ==
    ASSUME NEW from \in Nat, NEW cursor \in Nat, NEW seen, SeenUpTo(from, cursor, seen),
           NEW n \in Nat, n >= 1
    PROVE  /\ seen \cap ((cursor + 1) .. (cursor + n)) = {}
           /\ SeenUpTo(from, cursor + n, seen \cup ((cursor + 1) .. (cursor + n)))
BY DEF SeenUpTo

\* and going back.
LEMMA SeenGrowsDown ==
    ASSUME NEW from \in Nat, NEW cursor \in Nat, NEW seen, SeenDownTo(from, cursor, seen),
           NEW first \in Nat, NEW n \in Nat, first >= 1, n >= 1,
           cursor # 0 => first + n = cursor
    PROVE  /\ seen \cap (first .. (first + n - 1)) = {}
           /\ SeenDownTo(from, first, seen \cup (first .. (first + n - 1)))
<1>1. CASE cursor = from
    <2>1. seen = {}
        BY <1>1 DEF SeenDownTo
    <2>2. first + n - 1 \in Nat /\ first + n - 1 >= first /\ first > 0
        OBVIOUS
    <2>3. first # from /\ (from # 0 => first + n - 1 = from - 1)
        BY <1>1
    <2> QED
        BY <2>1, <2>2, <2>3 DEF SeenDownTo
<1>2. CASE cursor # from
    <2>1. PICK top \in Nat :
            top >= cursor /\ seen = cursor .. top /\ (from # 0 => top = from - 1)
        BY <1>2 DEF SeenDownTo
    <2>2. first + n = cursor /\ first > 0 /\ top >= first /\ first # from
        BY <1>2, <2>1 DEF SeenDownTo
    <2>3. seen \cup (first .. (first + n - 1)) = first .. top
        BY <2>1, <2>2
    <2>4. seen \cap (first .. (first + n - 1)) = {}
        BY <2>1, <2>2
    <2> QED
        BY <2>1, <2>2, <2>3, <2>4 DEF SeenDownTo
<1> QED
    BY <1>1, <1>2

\* What was seen is a run, which begins or ends at the caller's cursor.
LEMMA SeenHasNoGap ==
    ASSUME NEW cursor \in Nat, NEW seen, query.from \in Nat, SeenTo(cursor, seen)
    PROVE  /\ \A m, n \in seen : m .. n \subseteq seen
           /\ query.from \notin seen
           /\ query.forward /\ seen # {} => query.from + 1 \in seen
           /\ ~query.forward /\ query.from # 0 /\ seen # {} => query.from - 1 \in seen
<1>1. CASE query.forward
    BY <1>1 DEF SeenTo, SeenUpTo
<1>2. CASE ~query.forward
    BY <1>2 DEF SeenTo, SeenDownTo
<1> QED
    BY <1>1, <1>2

-----------------------------------------------------------------------------
LEMMA NoQueryTyped == NoQuery \in Query
BY DEF NoQuery, Query

LEMMA QueryInvInit == QueryInit => QueryInv
BY NoQueryTyped DEF QueryInit, QueryInv, QueryTypes, AtRequest, AtPage, NoQuery

\* A query that ends, in whichever way.
LEMMA QueryEndKeeps == QueryInv /\ query' = NoQuery /\ log' = log => QueryInv'
<1>1. query' = NoQuery => query'.pc = "idle" /\ query'.seen = {} /\ ~query'.twice
    BY DEF NoQuery
<1> QED
    BY <1>1, NoQueryTyped DEF QueryInv, QueryTypes, AtRequest, AtPage

LEMMA AnsweredKeeps == QueryInv /\ Answered => QueryInv'
<1> SUFFICES ASSUME QueryInv, Answered PROVE QueryInv'
    OBVIOUS
<1> USE DEF QueryInv, QueryTypes, Query
<1>1. /\ query.pc = "request" /\ log' = log
      /\ query.cursor <= log /\ SeenTo(query.cursor, query.seen)
    BY DEF Answered, AtRequest
<1>2. PICK page \in Pages(query.forward, query.cursor) :
        query' = IF page = <<>> THEN NoQuery
                 ELSE [query EXCEPT !.pc = "page", !.page = page, !.abort = FALSE,
                         !.calls = 1 .. Len(page), !.seen = @ \cup ToSet(page),
                         !.twice = @ \/ query.seen \cap ToSet(page) # {}]
    BY DEF Answered
<1>3. CASE page = <<>>
    BY <1>1, <1>2, <1>3, QueryEndKeeps
<1>4. CASE page # <<>>
    <2>1. PICK first \in Nat, n \in Nat :
            /\ first >= 1 /\ n >= 1 /\ first + n - 1 <= log
            /\ page = [i \in 1 .. n |-> first + i - 1]
            /\ query.forward => first = query.cursor + 1
            /\ ~query.forward /\ query.cursor # 0 => first + n = query.cursor
        BY <1>1, <1>2, <1>4, PageAtCursor
    <2>2. /\ page \in Seq(Nat) /\ page[1] = first /\ page[Len(page)] = first + n - 1
          /\ ToSet(page) = first .. (first + n - 1)
        BY <2>1, PageIsARun
    <2> DEFINE next == IF query.forward THEN first + n - 1 ELSE first
    <2>3. /\ query.seen \cap ToSet(page) = {}
          /\ SeenTo(next, query.seen \cup ToSet(page))
        <3>1. CASE query.forward
            <4>1. SeenUpTo(query.from, query.cursor, query.seen)
                BY <1>1, <3>1 DEF SeenTo
            <4>2. next = query.cursor + n /\ ToSet(page) = (query.cursor + 1) .. (query.cursor + n)
                BY <2>1, <2>2, <3>1
            <4> QED
                BY <2>1, <3>1, <4>1, <4>2, SeenGrowsUp DEF SeenTo
        <3>2. CASE ~query.forward
            <4>1. SeenDownTo(query.from, query.cursor, query.seen)
                BY <1>1, <3>2 DEF SeenTo
            <4>2. next = first /\ ToSet(page) = first .. (first + n - 1)
                BY <2>2, <3>2
            <4>3. query.cursor # 0 => first + n = query.cursor
                BY <2>1, <3>2
            <4>4. /\ query.seen \cap (first .. (first + n - 1)) = {}
                  /\ SeenDownTo(query.from, first, query.seen \cup (first .. (first + n - 1)))
                BY <2>1, <4>1, <4>3, SeenGrowsDown
            <4> QED
                BY <3>2, <4>2, <4>4 DEF SeenTo
        <3> QED
            BY <3>1, <3>2
    <2>4. next \in 1 .. log
        BY <2>1
    <2>5. query' = [query EXCEPT !.pc = "page", !.page = page, !.abort = FALSE,
                      !.calls = 1 .. Len(page), !.seen = @ \cup ToSet(page),
                      !.twice = @ \/ query.seen \cap ToSet(page) # {}]
        BY <1>2, <1>4
    <2>6. /\ query'.pc = "page" /\ query'.forward = query.forward /\ query'.from = query.from
          /\ query'.cursor = query.cursor /\ query'.page = page
          /\ query'.seen = query.seen \cup ToSet(page)
          /\ query'.twice = (query.twice \/ query.seen \cap ToSet(page) # {})
        BY <2>5
    <2>7. NextCursor(query') = next
        BY <2>2, <2>6 DEF NextCursor
    <2>8. QueryTypes'
        <3>1. ToSet(page) \subseteq Nat /\ 1 .. Len(page) \subseteq Nat
            <4>1. first .. (first + n - 1) \subseteq Nat /\ Len(page) \in Nat
                BY <2>2
            <4> QED
                BY <2>2, <4>1
        <3>2. (query.twice \/ query.seen \cap ToSet(page) # {}) \in BOOLEAN
            OBVIOUS
        <3>3. query.seen \cup ToSet(page) \in SUBSET Nat /\ 1 .. Len(page) \in SUBSET Nat
            BY <3>1
        <3>4. query' \in Query
            BY <2>2, <2>5, <3>2, <3>3
        <3> QED
            BY <1>1, <3>4
    <2>9. ~query'.twice
        BY <2>3, <2>6
    <2>10. AtRequest'
        BY <2>6 DEF AtRequest
    <2>11. AtPage'
        BY <1>1, <1>4, <2>3, <2>4, <2>6, <2>7 DEF AtPage, SeenTo
    <2> QED
        BY <2>6, <2>8, <2>9, <2>10, <2>11
<1> QED
    BY <1>3, <1>4

LEMMA NextPageKeeps == QueryInv /\ NextPage => QueryInv'
<1> SUFFICES ASSUME QueryInv, NextPage PROVE QueryInv'
    OBVIOUS
<1> USE DEF QueryInv, QueryTypes, Query
<1>1. /\ query.pc = "page" /\ log' = log
      /\ NextCursor(query) \in 1 .. log
      /\ SeenTo(NextCursor(query), query.seen)
    BY DEF NextPage, AtPage
<1>2. CASE query.abort
    BY <1>1, <1>2, QueryEndKeeps DEF NextPage
<1>3. CASE ~query.abort
    <2>1. query' = [query EXCEPT !.pc = "request", !.page = <<>>, !.cursor = NextCursor(query)]
        BY <1>3 DEF NextPage
    <2>2. /\ query'.pc = "request" /\ query'.forward = query.forward /\ query'.from = query.from
          /\ query'.cursor = NextCursor(query) /\ query'.page = <<>>
          /\ query'.seen = query.seen /\ query'.twice = query.twice
        BY <2>1
    <2>3. QueryTypes'
        <3>1. <<>> \in Seq(Nat) /\ NextCursor(query) \in Nat
            BY <1>1
        <3>2. query' \in Query
            BY <2>1, <3>1
        <3> QED
            BY <1>1, <3>2
    <2>4. AtRequest' /\ AtPage'
        BY <1>1, <2>2 DEF AtRequest, AtPage, SeenTo
    <2> QED
        BY <2>2, <2>3, <2>4
<1> QED
    BY <1>2, <1>3

LEMMA QueryInvNext == QueryInv /\ [QueryNext]_queryVars => QueryInv'
<1> SUFFICES ASSUME QueryInv, [QueryNext]_queryVars PROVE QueryInv'
    OBVIOUS
<1> USE DEF QueryInv, QueryTypes, Query
<1>1. CASE Answered
    BY <1>1, AnsweredKeeps
<1>2. CASE NextPage
    BY <1>2, NextPageKeeps
<1>3. CASE QueryBreaks
    BY <1>3, QueryEndKeeps DEF QueryBreaks
<1>4. ASSUME NEW i \in 1 .. PageSize, NEW result \in BOOLEAN, CallbackEnds(i, result)
      PROVE  QueryInv'
    <2>1. /\ log' = log /\ query'.pc = query.pc
          /\ query'.forward = query.forward /\ query'.from = query.from
          /\ query'.cursor = query.cursor /\ query'.page = query.page
          /\ query'.seen = query.seen /\ query'.twice = query.twice
        BY <1>4 DEF CallbackEnds
    <2>2. QueryTypes'
        BY <1>4, <2>1 DEF CallbackEnds
    <2> QED
        BY <2>1, <2>2 DEF AtRequest, AtPage, NextCursor, SeenTo
<1>5. CASE Stored
    <2>1. query' = query /\ log' = log + 1
        BY <1>5 DEF Stored
    <2>2. AtRequest'
        BY <2>1 DEF AtRequest, SeenTo
    <2>3. AtPage'
        <3>1. NextCursor(query) \in 1 .. log => NextCursor(query) \in 1 .. (log + 1)
            OBVIOUS
        <3> QED
            BY <2>1, <3>1 DEF AtPage, NextCursor, SeenTo
    <2> QED
        BY <2>1, <2>2, <2>3
<1>6. ASSUME NEW forward \in BOOLEAN, NEW from \in 0 .. log, StartQuery(forward, from)
      PROVE  QueryInv'
    <2>1. /\ log' = log
          /\ query' = [NoQuery EXCEPT !.pc = "request", !.forward = forward,
                         !.from = from, !.cursor = from]
        BY <1>6 DEF StartQuery
    <2>2. /\ query'.pc = "request" /\ query'.forward = forward
          /\ query'.from = from /\ query'.cursor = from
          /\ query'.page = <<>> /\ query'.seen = {} /\ query'.twice = FALSE
        BY <2>1 DEF NoQuery
    <2>3. QueryTypes'
        <3>1. from \in Nat
            OBVIOUS
        <3>2. query' \in Query
            BY <2>1, <3>1, NoQueryTyped
        <3> QED
            BY <2>1, <3>2
    <2>4. AtRequest'
        <3>1. {} = (from + 1) .. from
            OBVIOUS
        <3>2. SeenUpTo(from, from, {}) /\ SeenDownTo(from, from, {})
            BY <3>1 DEF SeenUpTo, SeenDownTo
        <3>3. SeenTo(from, {})'
            BY <2>2, <3>2 DEF SeenTo
        <3>4. query'.cursor <= log'
            BY <2>1, <2>2
        <3> QED
            BY <2>2, <3>3, <3>4 DEF AtRequest, SeenTo
    <2>5. AtPage'
        BY <2>2 DEF AtPage
    <2> QED
        BY <2>2, <2>3, <2>4, <2>5
<1>7. CASE CallbackThrows
    BY <1>7, QueryEndKeeps DEF CallbackThrows
<1>8. CASE UNCHANGED queryVars
    BY <1>8 DEF queryVars, AtRequest, AtPage, NextCursor, SeenTo
<1> QED
    BY <1>1, <1>2, <1>3, <1>4, <1>5, <1>6, <1>7, <1>8 DEF QueryNext, QueryStep

LEMMA QueryInvImpliesPagesJoin == QueryInv => PagesJoin
<1> SUFFICES ASSUME QueryInv PROVE PagesJoin
    OBVIOUS
<1>1. query \in Query /\ ~query.twice
    BY DEF QueryInv, QueryTypes
<1>2. query.from \in Nat /\ query.cursor \in Nat /\ query.pc \in {"idle", "request", "page"}
    BY <1>1 DEF Query
<1>3. CASE query.pc = "idle"
    BY <1>1, <1>3 DEF QueryInv, PagesJoin
<1>4. CASE query.pc # "idle"
    <2>1. PICK cursor \in Nat : SeenTo(cursor, query.seen)
        BY <1>2, <1>4 DEF QueryInv, AtRequest, AtPage
    <2>2. /\ \A m, n \in query.seen : m .. n \subseteq query.seen
          /\ query.from \notin query.seen
          /\ query.forward /\ query.seen # {} => query.from + 1 \in query.seen
          /\ ~query.forward /\ query.from # 0 /\ query.seen # {}
               => query.from - 1 \in query.seen
        BY <1>2, <2>1, SeenHasNoGap
    <2> QED
        BY <1>1, <2>2 DEF PagesJoin
<1> QED
    BY <1>3, <1>4

-----------------------------------------------------------------------------
(* The relay.                                                              *)

(***************************************************************************)
(* The inductive invariant: while a message is decoded there are observers *)
(* to whom it was given already, apart from those that wait; their readers *)
(* account for every call of a callback with it, and they and those that   *)
(* wait are, at least, everybody to whom it is owed.                       *)
(***************************************************************************)
AllObservers == UNION {ObserversOf(s) : s \in Subscription}

Processing == [pc : {"none", "reading", "decoding"}, waiting : SUBSET AllObservers]

RelayTypes ==
    /\ observers \subseteq AllObservers
    /\ incoming \in [DOMAIN Wire -> Processing]
    /\ calls \in [Subscription -> Seq(DOMAIN Wire)]
    /\ owed \in [DOMAIN Wire -> SUBSET AllObservers]

ReadersOf(s, n, given) == {o \in Readers[n] \cap given : o[1] = s}

GivenTo(n, given) ==
    /\ incoming[n].waiting \subseteq Matching[n]
    /\ given \cap incoming[n].waiting = {}
    /\ owed[n] \subseteq given \cup incoming[n].waiting
    /\ \A s \in Subscription : TimesCalled(s, n) = Cardinality(ReadersOf(s, n, given))

Accounted(n) ==
    IF incoming[n].pc = "decoding" THEN \E given \in SUBSET Matching[n] : GivenTo(n, given)
    ELSE /\ \A s \in Subscription : TimesCalled(s, n) = 0
         /\ incoming[n].waiting = {}
         /\ owed[n] \subseteq IF incoming[n].pc = "none" THEN {} ELSE observers \cap Matching[n]

RelayInv == RelayTypes /\ \A n \in DOMAIN Wire : Accounted(n)

\* The calls with a message.
Hits(seq, n) == {i \in DOMAIN seq : seq[i] = n}

LEMMA HitsAppend ==
    ASSUME NEW S, NEW seq \in Seq(S), NEW m \in S, NEW n
    PROVE  /\ Cardinality(Hits(seq, n)) \in Nat
           /\ Cardinality(Hits(Append(seq, m), n))
                = Cardinality(Hits(seq, n)) + (IF m = n THEN 1 ELSE 0)
<1>1. Len(seq) \in Nat /\ DOMAIN seq = 1 .. Len(seq)
    OBVIOUS
<1>2. IsFiniteSet(Hits(seq, n))
    <2>1. IsFiniteSet(1 .. Len(seq)) /\ Hits(seq, n) \in SUBSET (1 .. Len(seq))
        BY <1>1, FS_Interval DEF Hits
    <2> QED
        BY <2>1, FS_Subset
<1>3. Cardinality(Hits(seq, n)) \in Nat
    BY <1>2, FS_CardinalityType
<1>4. /\ DOMAIN Append(seq, m) = 1 .. (Len(seq) + 1)
      /\ Append(seq, m)[Len(seq) + 1] = m
      /\ \A i \in 1 .. Len(seq) : Append(seq, m)[i] = seq[i]
    BY <1>1
<1>5. CASE m = n
    <2>1. Hits(Append(seq, m), n) = Hits(seq, n) \cup {Len(seq) + 1}
        BY <1>1, <1>4, <1>5 DEF Hits
    <2>2. Len(seq) + 1 \notin Hits(seq, n)
        BY <1>1 DEF Hits
    <2> QED
        BY <1>2, <1>3, <1>5, <2>1, <2>2, FS_AddElement
<1>6. CASE m # n
    <2>1. Hits(Append(seq, m), n) = Hits(seq, n)
        BY <1>1, <1>4, <1>6 DEF Hits
    <2> QED
        BY <1>3, <1>6, <2>1
<1> QED
    BY <1>3, <1>5, <1>6

LEMMA MatchingTyped ==
    ASSUME NEW n \in DOMAIN Wire
    PROVE  Matching[n] \subseteq AllObservers /\ Readers[n] \subseteq Matching[n]
BY DEF Matching, Readers, AllObservers

LEMMA ObserverTyped ==
    ASSUME NEW o \in AllObservers
    PROVE  \E s \in Subscription : \E d \in Decoders[s] : o = <<s, d>>
BY DEF AllObservers, ObserversOf

\* The observers of a subscription are as few as its decoders.
LEMMA ReadersFinite ==
    ASSUME NEW s \in Subscription, NEW n \in DOMAIN Wire, NEW given
    PROVE  /\ IsFiniteSet({o \in Readers[n] : o[1] = s})
           /\ IsFiniteSet(ReadersOf(s, n, given))
<1> DEFINE pair == [d \in Decoders[s] |-> <<s, d>>]
           range == {<<s, d>> : d \in Decoders[s]}
<1>1. IsFiniteSet(range)
    <2>1. pair \in Surjection(Decoders[s], range)
        BY DEF Surjection
    <2> QED
        BY <2>1, RelayAssumption, FS_Surjection
<1>2. \A o \in Readers[n] : o[1] = s => o \in range
    <2>1. SUFFICES ASSUME NEW o \in Readers[n], o[1] = s
                   PROVE  o \in range
        OBVIOUS
    <2>2. PICK t \in Subscription : \E d \in Decoders[t] : o = <<t, d>>
        BY MatchingTyped, ObserverTyped
    <2> QED
        BY <2>1, <2>2
<1> HIDE DEF pair, range
<1>3. {o \in Readers[n] : o[1] = s} \in SUBSET range
    BY <1>2
<1>4. ReadersOf(s, n, given) \in SUBSET range
    BY <1>2 DEF ReadersOf
<1> QED
    BY <1>1, <1>3, <1>4, FS_Subset

-----------------------------------------------------------------------------
LEMMA RelayInvInit == RelayInit => RelayInv
<1> SUFFICES ASSUME RelayInit PROVE RelayInv
    OBVIOUS
<1> USE DEF RelayInit
<1>1. RelayTypes
    <2>1. NotYet \in Processing
        BY DEF NotYet, Processing
    <2>2. <<>> \in Seq(DOMAIN Wire)
        OBVIOUS
    <2> QED
        BY <2>1, <2>2 DEF RelayTypes
<1>2. ASSUME NEW n \in DOMAIN Wire
      PROVE  Accounted(n)
    <2>1. incoming[n].pc = "none" /\ incoming[n].waiting = {} /\ owed[n] = {}
        BY DEF NotYet
    <2>2. \A s \in Subscription : TimesCalled(s, n) = 0
        <3>1. \A s \in Subscription : {i \in DOMAIN calls[s] : calls[s][i] = n} = {}
            OBVIOUS
        <3> QED
            BY <3>1, FS_EmptySet DEF TimesCalled
    <2> QED
        BY <2>1, <2>2 DEF Accounted
<1> QED
    BY <1>1, <1>2 DEF RelayInv

\* Who is owed less, or still observes, is accounted for as before.
LEMMA LessOwed ==
    ASSUME NEW n \in DOMAIN Wire, Accounted(n), incoming' = incoming, calls' = calls,
           owed'[n] \subseteq owed[n],
           owed'[n] \cap observers \subseteq observers'
    PROVE  Accounted(n)'
<1>1. \A s \in Subscription : TimesCalled(s, n)' = TimesCalled(s, n)
    BY DEF TimesCalled
<1>2. CASE incoming[n].pc = "decoding"
    <2>1. PICK given \in SUBSET Matching[n] : GivenTo(n, given)
        BY <1>2 DEF Accounted
    <2>2. GivenTo(n, given)'
        BY <1>1, <2>1 DEF GivenTo
    <2> QED
        BY <1>2, <2>2 DEF Accounted
<1>3. CASE incoming[n].pc # "decoding"
    BY <1>1, <1>3 DEF Accounted
<1> QED
    BY <1>2, <1>3

\* Observers come and go; who goes is owed nothing any more.
LEMMA AddKeeps ==
    ASSUME RelayInv, NEW s \in Subscription, AddObservers(s), UNCHANGED <<incoming, calls, owed>>
    PROVE  RelayInv'
<1> USE DEF RelayInv, AddObservers
<1>1. RelayTypes'
    BY DEF RelayTypes, AllObservers
<1>2. ASSUME NEW n \in DOMAIN Wire
      PROVE  Accounted(n)'
    BY LessOwed
<1> QED
    BY <1>1, <1>2

LEMMA RemoveKeeps ==
    ASSUME RelayInv, NEW s \in Subscription, RemoveObservers(s), UNCHANGED <<incoming, calls>>
    PROVE  RelayInv'
<1> USE DEF RelayInv, RemoveObservers
<1>1. RelayTypes'
    BY DEF RelayTypes
<1>2. ASSUME NEW n \in DOMAIN Wire
      PROVE  Accounted(n)'
    <2>1. owed'[n] = owed[n] \ ObserversOf(s)
        OBVIOUS
    <2>2. observers' = observers \ ObserversOf(s)
        OBVIOUS
    <2> QED
        BY <2>1, <2>2, LessOwed
<1> QED
    BY <1>1, <1>2

\* What is the same for a message is accounted for as before.
LEMMA OthersKept ==
    ASSUME NEW n \in DOMAIN Wire, Accounted(n), observers' = observers,
           incoming'[n] = incoming[n], owed'[n] = owed[n],
           \A s \in Subscription : TimesCalled(s, n)' = TimesCalled(s, n)
    PROVE  Accounted(n)'
BY DEF Accounted, GivenTo

LEMMA GossipKeeps ==
    ASSUME RelayInv, NEW n \in DOMAIN Wire, GossipMessage(n)
    PROVE  RelayInv'
<1> USE DEF RelayInv, GossipMessage
<1>1. incoming[n] \in Processing /\ incoming[n].waiting = {}
    BY DEF RelayTypes, Accounted
<1>2. incoming'[n].pc = "reading" /\ incoming'[n].waiting = {} /\ incoming'[n] \in Processing
    BY <1>1 DEF RelayTypes, Processing
<1>3. RelayTypes'
    BY <1>2, MatchingTyped DEF RelayTypes
<1>4. \A s \in Subscription, m \in DOMAIN Wire : TimesCalled(s, m)' = TimesCalled(s, m)
    BY DEF TimesCalled
<1>5. Accounted(n)'
    <2>1. owed'[n] = observers' \cap Matching[n]
        BY DEF RelayTypes
    <2>2. \A s \in Subscription : TimesCalled(s, n)' = 0
        BY <1>4 DEF Accounted
    <2> QED
        BY <1>2, <2>1, <2>2 DEF Accounted
<1>6. ASSUME NEW m \in DOMAIN Wire, m # n
      PROVE  Accounted(m)'
    <2>1. incoming'[m] = incoming[m] /\ owed'[m] = owed[m]
        BY <1>6 DEF RelayTypes
    <2> QED
        BY <1>4, <2>1, OthersKept
<1> QED
    BY <1>3, <1>5, <1>6

\* It waits for the observers of the moment, to whom all of the debt is.
LEMMA ReadTopicKeeps ==
    ASSUME RelayInv, NEW n \in DOMAIN Wire, ReadTopic(n)
    PROVE  RelayInv'
<1> USE DEF RelayInv, ReadTopic
<1> DEFINE waiting == observers \cap Matching[n]
<1>1. incoming' = [incoming EXCEPT ![n] = [pc |-> "decoding", waiting |-> waiting]]
    OBVIOUS
<1>2. waiting \subseteq AllObservers /\ waiting \subseteq Matching[n]
    BY MatchingTyped
<1> HIDE DEF waiting
<1>3. RelayTypes'
    <2>1. [pc |-> "decoding", waiting |-> waiting] \in Processing
        BY <1>2 DEF Processing
    <2> QED
        BY <1>1, <2>1 DEF RelayTypes
<1>4. \A s \in Subscription, m \in DOMAIN Wire : TimesCalled(s, m)' = TimesCalled(s, m)
    BY DEF TimesCalled
<1>5. Accounted(n)'
    <2>1. incoming'[n].pc = "decoding" /\ incoming'[n].waiting = waiting
        BY <1>1 DEF RelayTypes
    <2>2. \A s \in Subscription : TimesCalled(s, n)' = 0
        BY <1>4 DEF Accounted
    <2>3. owed'[n] \subseteq waiting
        BY DEF Accounted, waiting
    <2>4. \A s \in Subscription : ReadersOf(s, n, {}) = {}
        BY DEF ReadersOf
    <2>5. Cardinality({}) = 0
        BY FS_EmptySet
    <2>6. GivenTo(n, {})'
        BY <1>2, <2>1, <2>2, <2>3, <2>4, <2>5 DEF GivenTo
    <2> QED
        BY <2>1, <2>6 DEF Accounted
<1>6. ASSUME NEW m \in DOMAIN Wire, m # n
      PROVE  Accounted(m)'
    <2>1. incoming'[m] = incoming[m]
        BY <1>1, <1>6 DEF RelayTypes
    <2> QED
        BY <1>4, <2>1, OthersKept
<1> QED
    BY <1>3, <1>5, <1>6

\* A callback is one more call for one more reader, and for nobody else.
LEMMA CallbackCounts ==
    ASSUME RelayInv, NEW n \in DOMAIN Wire, NEW o \in incoming[n].waiting, Callback(n, o),
           NEW s \in Subscription, NEW m \in DOMAIN Wire
    PROVE  /\ TimesCalled(s, m) \in Nat
           /\ TimesCalled(s, m)' = TimesCalled(s, m)
                + (IF m = n /\ o \in Readers[n] /\ s = o[1] THEN 1 ELSE 0)
<1> USE DEF RelayInv, RelayTypes, Callback
<1>1. calls[s] \in Seq(DOMAIN Wire)
    OBVIOUS
<1>2. TimesCalled(s, m) = Cardinality(Hits(calls[s], m))
    BY DEF TimesCalled, Hits
<1>3. TimesCalled(s, m)' = Cardinality(Hits(calls'[s], m))
    BY DEF TimesCalled, Hits
<1>4. TimesCalled(s, m) \in Nat
    BY <1>1, <1>2, HitsAppend
<1>5. CASE o \in Readers[n] /\ s = o[1]
    <2>1. calls'[s] = Append(calls[s], n)
        BY <1>5
    <2>2. Cardinality(Hits(calls'[s], m)) = Cardinality(Hits(calls[s], m)) + (IF n = m THEN 1 ELSE 0)
        BY <1>1, <2>1, HitsAppend
    <2> QED
        BY <1>2, <1>3, <1>4, <1>5, <2>2
<1>6. CASE ~(o \in Readers[n] /\ s = o[1])
    <2>1. calls'[s] = calls[s]
        BY <1>6
    <2> QED
        BY <1>2, <1>3, <1>4, <1>6, <2>1
<1> QED
    BY <1>5, <1>6

LEMMA CallbackKeeps ==
    ASSUME RelayInv, NEW n \in DOMAIN Wire, NEW o \in incoming[n].waiting, Callback(n, o)
    PROVE  RelayInv'
<1>0. \A s \in Subscription, m \in DOMAIN Wire :
        /\ TimesCalled(s, m) \in Nat
        /\ TimesCalled(s, m)' = TimesCalled(s, m)
             + (IF m = n /\ o \in Readers[n] /\ s = o[1] THEN 1 ELSE 0)
    BY CallbackCounts
<1> USE DEF RelayInv, Callback
<1>1. incoming[n] \in Processing /\ incoming[n].pc = "decoding" /\ o \in AllObservers
    BY DEF RelayTypes, Accounted, Processing
<1>2. PICK given \in SUBSET Matching[n] : GivenTo(n, given)
    BY <1>1 DEF Accounted
<1>3. /\ incoming'[n].pc = "decoding"
      /\ incoming'[n].waiting = incoming[n].waiting \ {o}
      /\ incoming'[n] \in Processing
    BY <1>1 DEF RelayTypes, Processing
<1>4. o[1] \in Subscription
    BY <1>1, ObserverTyped
<1>5. RelayTypes'
    <2>1. calls' \in [Subscription -> Seq(DOMAIN Wire)]
        <3>1. Append(calls[o[1]], n) \in Seq(DOMAIN Wire)
            BY <1>4 DEF RelayTypes
        <3> QED
            BY <3>1 DEF RelayTypes
    <2>2. incoming' \in [DOMAIN Wire -> Processing]
        BY <1>3 DEF RelayTypes
    <2> QED
        BY <2>1, <2>2 DEF RelayTypes
<1>6. Accounted(n)'
    <2>1. o \notin given /\ o \in Matching[n] /\ owed'[n] \subseteq given \cup incoming[n].waiting
        BY <1>2 DEF GivenTo
    <2>2. ASSUME NEW s \in Subscription
          PROVE  TimesCalled(s, n)' = Cardinality(ReadersOf(s, n, given \cup {o}))
        <3>1. TimesCalled(s, n) = Cardinality(ReadersOf(s, n, given))
            BY <1>2 DEF GivenTo
        <3>2. TimesCalled(s, n) \in Nat
            BY <1>0
        <3>3. CASE o \in Readers[n] /\ s = o[1]
            <4>1. ReadersOf(s, n, given \cup {o}) = ReadersOf(s, n, given) \cup {o}
                BY <3>3 DEF ReadersOf
            <4>2. o \notin ReadersOf(s, n, given)
                BY <2>1 DEF ReadersOf
            <4>3. IsFiniteSet(ReadersOf(s, n, given))
                BY ReadersFinite
            <4>4. Cardinality(ReadersOf(s, n, given) \cup {o}) = Cardinality(ReadersOf(s, n, given)) + 1
                BY <4>2, <4>3, FS_AddElement
            <4>5. TimesCalled(s, n)' = TimesCalled(s, n) + 1
                BY <3>3, <1>0
            <4> QED
                BY <3>1, <4>1, <4>4, <4>5
        <3>4. CASE ~(o \in Readers[n] /\ s = o[1])
            <4>1. ReadersOf(s, n, given \cup {o}) = ReadersOf(s, n, given)
                BY <3>4 DEF ReadersOf
            <4>2. TimesCalled(s, n)' = TimesCalled(s, n)
                BY <3>2, <3>4, <1>0
            <4> QED
                BY <3>1, <4>1, <4>2
        <3> QED
            BY <3>3, <3>4
    <2>3. GivenTo(n, given \cup {o})'
        BY <1>2, <1>3, <2>1, <2>2 DEF GivenTo
    <2>4. given \cup {o} \in SUBSET Matching[n]
        BY <2>1
    <2> QED
        BY <1>3, <2>3, <2>4 DEF Accounted
<1>7. ASSUME NEW m \in DOMAIN Wire, m # n
      PROVE  Accounted(m)'
    <2>1. incoming'[m] = incoming[m]
        BY <1>7 DEF RelayTypes
    <2>2. \A s \in Subscription : TimesCalled(s, m)' = TimesCalled(s, m)
        BY <1>0, <1>7
    <2> QED
        BY <2>1, <2>2, OthersKept
<1> QED
    BY <1>5, <1>6, <1>7

\* The relay takes a step, or the iterator subscribes, unsubscribes or does neither.
RelayMoves == RelayStep \/ (\E timeout \in BOOLEAN : ToAsyncIterator(timeout)) \/ Stop

LEMMA RelayInvNext == RelayInv /\ (RelayMoves \/ UNCHANGED relayVars) => RelayInv'
<1> SUFFICES ASSUME RelayInv, RelayMoves \/ UNCHANGED relayVars PROVE RelayInv'
    OBVIOUS
<1>1. ASSUME NEW n, GossipMessage(n)
      PROVE  RelayInv'
    BY <1>1, GossipKeeps DEF GossipMessage, Accepted
<1>2. ASSUME NEW n \in DOMAIN Wire, Process(n)
      PROVE  RelayInv'
    BY <1>2, ReadTopicKeeps, CallbackKeeps DEF Process
<1>3. ASSUME NEW s \in Subscription, Subscribe(s) \/ Unsubscribe(s)
      PROVE  RelayInv'
    <2>1. CASE Subscribe(s)
        BY <2>1, AddKeeps DEF Subscribe
    <2>2. CASE Unsubscribe(s)
        BY <2>2, RemoveKeeps DEF Unsubscribe
    <2> QED
        BY <1>3, <2>1, <2>2
<1>4. ASSUME NEW timeout \in BOOLEAN, ToAsyncIterator(timeout)
      PROVE  RelayInv'
    BY <1>4, AddKeeps, IteratorAssumption DEF ToAsyncIterator
<1>5. CASE Stop
    BY <1>5, RemoveKeeps, IteratorAssumption DEF Stop
<1>6. CASE UNCHANGED relayVars
    <2>1. \A n \in DOMAIN Wire, s \in Subscription : TimesCalled(s, n)' = TimesCalled(s, n)
        BY <1>6 DEF relayVars, TimesCalled
    <2>2. \A n \in DOMAIN Wire : Accounted(n)'
        BY <1>6, <2>1, OthersKept DEF relayVars, RelayInv
    <2> QED
        BY <1>6, <2>2 DEF relayVars, RelayInv, RelayTypes
<1> QED
    BY <1>1, <1>2, <1>3, <1>4, <1>5, <1>6 DEF RelayMoves, RelayStep

LEMMA RelayInvImpliesServed == RelayInv => ServedWhileSubscribed
<1> SUFFICES ASSUME RelayInv, NEW n \in DOMAIN Wire, NEW s \in Subscription
             PROVE  LET readers == {o \in Readers[n] : o[1] = s}
                    IN /\ TimesCalled(s, n) <= Cardinality(readers)
                       /\ Processed(n) => TimesCalled(s, n) >= Cardinality(readers \cap owed[n])
    BY DEF ServedWhileSubscribed
<1> DEFINE readers == {o \in Readers[n] : o[1] = s}
<1>1. IsFiniteSet(readers) /\ Cardinality(readers) \in Nat
    BY ReadersFinite, FS_CardinalityType
<1>2. CASE incoming[n].pc # "decoding"
    BY <1>1, <1>2 DEF RelayInv, Accounted, Processed
<1>3. CASE incoming[n].pc = "decoding"
    <2>1. PICK given \in SUBSET Matching[n] : GivenTo(n, given)
        BY <1>3 DEF RelayInv, Accounted
    <2>2. TimesCalled(s, n) = Cardinality(ReadersOf(s, n, given))
        BY <2>1 DEF GivenTo
    <2>3. IsFiniteSet(ReadersOf(s, n, given)) /\ ReadersOf(s, n, given) \in SUBSET readers
        BY ReadersFinite DEF ReadersOf
    <2>4. TimesCalled(s, n) <= Cardinality(readers)
        BY <1>1, <2>2, <2>3, FS_Subset
    <2>5. ASSUME Processed(n)
          PROVE  TimesCalled(s, n) >= Cardinality(readers \cap owed[n])
        <3>1. readers \cap owed[n] \in SUBSET ReadersOf(s, n, given)
            BY <2>1, <2>5 DEF GivenTo, Processed, ReadersOf
        <3>2. Cardinality(readers \cap owed[n]) <= Cardinality(ReadersOf(s, n, given))
            BY <2>3, <3>1, FS_Subset
        <3>3. Cardinality(readers \cap owed[n]) \in Nat /\ Cardinality(ReadersOf(s, n, given)) \in Nat
            BY <2>3, <3>1, FS_Subset, FS_CardinalityType
        <3> HIDE DEF readers
        <3> QED
            BY <2>2, <3>2, <3>3
    <2> QED
        BY <2>4, <2>5
<1> QED
    BY <1>2, <1>3

-----------------------------------------------------------------------------
(* The iterator.                                                           *)

(***************************************************************************)
(* The inductive invariant: what was given out is the beginning of what    *)
(* came, all of it yielded until the iterator ends, and without a timeout  *)
(* it ends only when it was unsubscribed and has taken what came before.   *)
(***************************************************************************)
Iterator ==
    [pc : {"off", "held", "waiting", "ended"}, timeout : BOOLEAN,
     unsubscribe : {"set", "called", "cleared"}, taken : Nat,
     yielded : Seq(DOMAIN Wire), returned : Seq(DOMAIN Wire), before : Nat]

IterTypes ==
    /\ iter \in Iterator
    /\ iter.taken <= Len(calls[Iterated])
    /\ iter.before <= Len(calls[Iterated])

GivenOut ==
    /\ iter.yielded \o iter.returned = SubSeq(calls[Iterated], 1, iter.taken)
    /\ iter.pc # "ended" => iter.returned = <<>>

EndsDrained ==
    iter.pc = "ended" /\ ~iter.timeout =>
      iter.unsubscribe = "cleared" /\ iter.before <= iter.taken

IterInv == IterTypes /\ GivenOut /\ EndsDrained

\* What has come stays, and more may come.
LEMMA CallsGrow ==
    ASSUME RelayInv, RelayMoves \/ UNCHANGED relayVars
    PROVE  \/ calls'[Iterated] = calls[Iterated]
           \/ \E n \in DOMAIN Wire : calls'[Iterated] = Append(calls[Iterated], n)
<1>1. ASSUME NEW n \in DOMAIN Wire, NEW o, Callback(n, o)
      PROVE  \/ calls'[Iterated] = calls[Iterated]
             \/ calls'[Iterated] = Append(calls[Iterated], n)
    BY <1>1, IteratorAssumption DEF Callback, RelayInv, RelayTypes
<1>2. ASSUME ~\E n \in DOMAIN Wire : \E o \in incoming[n].waiting : Callback(n, o)
      PROVE  calls' = calls
    BY <1>2 DEF RelayMoves, RelayStep, Process, GossipMessage, ReadTopic, Subscribe,
                Unsubscribe, ToAsyncIterator, Stop, relayVars
<1> QED
    BY <1>1, <1>2

\* A beginning of what has come is one of what comes later.
LEMMA BeginningKept ==
    ASSUME NEW S, NEW seq \in Seq(S), NEW m \in S, NEW k \in Nat, k <= Len(seq)
    PROVE  /\ Len(Append(seq, m)) = Len(seq) + 1
           /\ SubSeq(Append(seq, m), 1, k) = SubSeq(seq, 1, k)
<1>1. /\ Append(seq, m) \in Seq(S) /\ Len(Append(seq, m)) = Len(seq) + 1
      /\ \A i \in 1 .. Len(seq) : Append(seq, m)[i] = seq[i]
    BY AppendProperties
<1>2. \A i \in 1 .. k : seq[i] \in S /\ Append(seq, m)[i] = seq[i]
    <2>1. \A i \in 1 .. k : i \in 1 .. Len(seq)
        BY LenProperties
    <2> QED
        BY <1>1, <2>1, ElementOfSeq
<1>3. /\ SubSeq(seq, 1, k) \in Seq(S)
      /\ Len(SubSeq(seq, 1, k)) = IF 1 <= k THEN k - 1 + 1 ELSE 0
      /\ \A i \in 1 .. k - 1 + 1 : SubSeq(seq, 1, k)[i] = seq[1 + i - 1]
    BY <1>2, SubSeqProperties
<1>4. /\ SubSeq(Append(seq, m), 1, k) \in Seq(S)
      /\ Len(SubSeq(Append(seq, m), 1, k)) = IF 1 <= k THEN k - 1 + 1 ELSE 0
      /\ \A i \in 1 .. k - 1 + 1 : SubSeq(Append(seq, m), 1, k)[i] = Append(seq, m)[1 + i - 1]
    BY <1>2, SubSeqProperties
<1>5. \A i \in 1 .. Len(SubSeq(seq, 1, k)) :
        SubSeq(seq, 1, k)[i] = SubSeq(Append(seq, m), 1, k)[i]
    BY <1>2, <1>3, <1>4
<1>6. Len(SubSeq(seq, 1, k)) = Len(SubSeq(Append(seq, m), 1, k))
    BY <1>3, <1>4
<1> QED
    BY <1>1, <1>3, <1>4, <1>5, <1>6, SeqEqual

LEMMA IterInvInit == RelayInit /\ IterInit => IterInv
<1> SUFFICES ASSUME RelayInit, IterInit PROVE IterInv
    OBVIOUS
<1>1. calls[Iterated] = <<>>
    BY IteratorAssumption DEF RelayInit
<1>2. Len(<<>>) = 0 /\ <<>> \in Seq(DOMAIN Wire)
    BY EmptySeq
<1>3. SubSeq(<<>>, 1, 0) = <<>> /\ <<>> \o <<>> = <<>>
    BY <1>2, SubSeqEmpty, ConcatEmptySeq
<1> QED
    BY <1>1, <1>2, <1>3 DEF IterInit, NoIterator, IterInv, IterTypes, Iterator, GivenOut, EndsDrained

\* Messages come, and the iterator does nothing.
LEMMA IterInvRests ==
    ASSUME RelayInv, IterInv, RelayMoves \/ UNCHANGED relayVars, UNCHANGED iter
    PROVE  IterInv'
<1> USE DEF IterInv, IterTypes, Iterator
<1>1. calls[Iterated] \in Seq(DOMAIN Wire)
    BY IteratorAssumption DEF RelayInv, RelayTypes
<1>2. CASE calls'[Iterated] = calls[Iterated]
    BY <1>2 DEF GivenOut, EndsDrained
<1>3. ASSUME NEW n \in DOMAIN Wire, calls'[Iterated] = Append(calls[Iterated], n)
      PROVE  IterInv'
    <2>1. /\ Len(calls'[Iterated]) = Len(calls[Iterated]) + 1
          /\ SubSeq(calls'[Iterated], 1, iter.taken) = SubSeq(calls[Iterated], 1, iter.taken)
        BY <1>1, <1>3, BeginningKept
    <2>2. Len(calls[Iterated]) \in Nat
        BY <1>1, LenProperties
    <2>3. IterTypes'
        BY <2>1, <2>2
    <2>4. GivenOut'
        BY <2>1 DEF GivenOut
    <2>5. EndsDrained'
        BY DEF EndsDrained
    <2> QED
        BY <2>3, <2>4, <2>5
<1> QED
    BY <1>2, <1>3, CallsGrow

\* The iterator takes the next of what has come.
LEMMA NextTaken ==
    ASSUME NEW S, NEW seq \in Seq(S), NEW k \in Nat, k < Len(seq)
    PROVE  /\ k + 1 \in 1 .. Len(seq) /\ seq[k + 1] \in S
           /\ SubSeq(seq, 1, k) \o <<seq[k + 1]>> = SubSeq(seq, 1, k + 1)
<1>1. 1 \in 1 .. Len(seq) /\ k + 1 \in 1 .. Len(seq) /\ k + 1 - 1 = k
    BY LenProperties
<1> QED
    BY <1>1, ElementOfSeq, SubSeqRecursiveSecond

LEMMA WaitedKeeps ==
    ASSUME RelayInv, IterInv, Waited
    PROVE  IterInv'
<1> USE DEF IterInv, IterTypes, Iterator
<1> DEFINE came == calls[Iterated]
           isThere == Messages > 0
           message == IF Messages = 0 THEN <<>> ELSE <<NextMessage>>
           count == iter.taken + (IF Messages = 0 THEN 0 ELSE 1)
<1>1. came \in Seq(DOMAIN Wire) /\ Len(came) \in Nat
    BY IteratorAssumption, LenProperties DEF RelayInv, RelayTypes
<1>2. Messages = Len(came) - iter.taken /\ Messages \in Nat
    BY <1>1 DEF Messages
<1>3. /\ iter.pc = "waiting" /\ iter.returned = <<>>
      /\ iter.yielded = SubSeq(came, 1, iter.taken)
    <2>1. iter.yielded \in Seq(DOMAIN Wire)
        OBVIOUS
    <2>2. iter.yielded \o <<>> = iter.yielded
        BY <2>1, ConcatEmptySeq
    <2>3. iter.pc = "waiting"
        BY DEF Waited
    <2>4. iter.returned = <<>>
        BY <2>3 DEF GivenOut
    <2>5. iter.yielded \o iter.returned = SubSeq(came, 1, iter.taken)
        BY DEF GivenOut
    <2> HIDE DEF came
    <2> QED
        BY <2>2, <2>3, <2>4, <2>5
<1>4. /\ message \in Seq(DOMAIN Wire) /\ count \in Nat /\ count <= Len(came)
      /\ iter.yielded \o message \in Seq(DOMAIN Wire)
      /\ iter.yielded \o message = SubSeq(came, 1, count)
    <2>1. CASE Messages = 0
        <3>1. message = <<>> /\ count = iter.taken /\ count \in Nat
            BY <2>1
        <3>2. iter.yielded \in Seq(DOMAIN Wire) /\ <<>> \in Seq(DOMAIN Wire)
            BY EmptySeq
        <3>3. iter.yielded \o <<>> = iter.yielded
            BY <3>2, ConcatEmptySeq
        <3> HIDE DEF came, message, count
        <3> QED
            BY <1>2, <1>3, <3>1, <3>2, <3>3 DEF came
    <2>2. CASE Messages # 0
        <3>1. iter.taken < Len(came)
            BY <1>1, <1>2, <2>2
        <3>2. /\ NextMessage \in DOMAIN Wire
              /\ SubSeq(came, 1, iter.taken) \o <<NextMessage>> = SubSeq(came, 1, iter.taken + 1)
            BY <1>1, <3>1, NextTaken DEF NextMessage
        <3>3. <<NextMessage>> \in Seq(DOMAIN Wire)
            BY <3>2
        <3>4. iter.yielded \o <<NextMessage>> \in Seq(DOMAIN Wire)
            <4>1. iter.yielded \in Seq(DOMAIN Wire)
                OBVIOUS
            <4> QED
                BY <3>3, <4>1, ConcatProperties
        <3>5. message = <<NextMessage>> /\ count = iter.taken + 1
            BY <2>2
        <3>6. count \in Nat /\ count <= Len(came)
            BY <1>1, <3>1, <3>5
        <3> HIDE DEF came, message, count
        <3> QED
            BY <1>3, <3>2, <3>3, <3>4, <3>5, <3>6
    <2> QED
        BY <2>1, <2>2
<1>5. (iter.yielded \o message) \o <<>> = iter.yielded \o message
    BY <1>4, ConcatEmptySeq
<1>6. <<>> \in Seq(DOMAIN Wire)
    BY EmptySeq
<1>7. calls' = calls
    BY DEF Waited, relayVars
<1>8. /\ Drained => count = Len(came)
      /\ ~isThere => iter.yielded \o message = iter.yielded
    BY <1>1, <1>2, ConcatEmptySeq DEF Drained
<1>9. \/ Drained /\ iter' = [iter EXCEPT !.taken = count, !.pc = "ended", !.returned = message]
      \/ iter' = [iter EXCEPT !.taken = count, !.pc = "held", !.yielded = iter.yielded \o message]
      \/ iter.timeout /\ iter' = [iter EXCEPT !.pc = "ended"]
    BY DEF Waited
<1> HIDE DEF came, isThere, message, count
<1>10. CASE Drained /\ iter' = [iter EXCEPT !.taken = count, !.pc = "ended", !.returned = message]
    <2>1. IterTypes'
        BY <1>1, <1>4, <1>7, <1>10 DEF came
    <2>2. iter.unsubscribe = "cleared" /\ iter.before <= count
        BY <1>8, <1>10 DEF Drained, came
    <2> QED
        BY <1>4, <1>7, <1>10, <2>1, <2>2 DEF GivenOut, EndsDrained, came
<1>11. CASE iter' = [iter EXCEPT !.taken = count, !.pc = "held", !.yielded = iter.yielded \o message]
    <2>1. IterTypes'
        BY <1>1, <1>4, <1>7, <1>11 DEF came
    <2> QED
        BY <1>3, <1>4, <1>5, <1>7, <1>11, <2>1 DEF GivenOut, EndsDrained, came
<1>12. CASE iter.timeout /\ iter' = [iter EXCEPT !.pc = "ended"]
    BY <1>7, <1>12 DEF GivenOut, EndsDrained
<1> QED
    BY <1>9, <1>10, <1>11, <1>12

LEMMA IterInvMoves ==
    ASSUME RelayInv, IterInv,
           IterStep \/ Stop \/ \E timeout \in BOOLEAN : ToAsyncIterator(timeout)
    PROVE  IterInv'
<1> USE DEF IterInv, IterTypes, Iterator
<1>1. calls[Iterated] \in Seq(DOMAIN Wire) /\ Len(calls[Iterated]) \in Nat
    BY IteratorAssumption, LenProperties DEF RelayInv, RelayTypes
<1>2. CASE Waited
    BY <1>2, WaitedKeeps
<1>3. CASE NextCalled
    BY <1>3 DEF NextCalled, relayVars, GivenOut, EndsDrained
<1>4. CASE Unsubscribed
    BY <1>4 DEF Unsubscribed, relayVars, GivenOut, EndsDrained
<1>5. CASE Stop
    <2>1. /\ iter' = [iter EXCEPT !.unsubscribe = "called", !.before = Len(calls[Iterated])]
          /\ calls' = calls /\ iter.unsubscribe = "set"
        BY <1>5 DEF Stop
    <2>2. /\ iter'.pc = iter.pc /\ iter'.timeout = iter.timeout /\ iter'.taken = iter.taken
          /\ iter'.yielded = iter.yielded /\ iter'.returned = iter.returned
          /\ iter'.before = Len(calls[Iterated]) /\ iter' \in Iterator
        BY <1>1, <2>1
    <2>3. iter.pc # "ended" \/ iter.timeout
        BY <2>1 DEF EndsDrained
    <2>4. IterTypes'
        BY <1>1, <2>1, <2>2
    <2>5. GivenOut'
        BY <2>1, <2>2 DEF GivenOut
    <2>6. EndsDrained'
        BY <2>2, <2>3 DEF EndsDrained
    <2> QED
        BY <2>4, <2>5, <2>6
<1>6. ASSUME NEW timeout \in BOOLEAN, ToAsyncIterator(timeout)
      PROVE  IterInv'
    <2>1. /\ iter' = [NoIterator EXCEPT !.pc = "held", !.timeout = timeout]
          /\ calls' = calls
        BY <1>6 DEF ToAsyncIterator
    <2>2. <<>> \in Seq(DOMAIN Wire) /\ <<>> \o <<>> = <<>> /\ SubSeq(calls[Iterated], 1, 0) = <<>>
        BY EmptySeq, ConcatEmptySeq, SubSeqEmpty
    <2>3. iter' = [pc |-> "held", timeout |-> timeout, unsubscribe |-> "set", taken |-> 0,
                   yielded |-> <<>>, returned |-> <<>>, before |-> 0]
        BY <2>1 DEF NoIterator
    <2>4. /\ iter'.pc = "held" /\ iter'.taken = 0 /\ iter'.before = 0
          /\ iter'.yielded = <<>> /\ iter'.returned = <<>> /\ iter' \in Iterator
        BY <2>2, <2>3
    <2>5. IterTypes'
        BY <1>1, <2>1, <2>4
    <2>6. GivenOut'
        BY <2>1, <2>2, <2>4 DEF GivenOut
    <2>7. EndsDrained'
        BY <2>4 DEF EndsDrained
    <2> QED
        BY <2>5, <2>6, <2>7
<1> QED
    BY <1>2, <1>3, <1>4, <1>5, <1>6 DEF IterStep

-----------------------------------------------------------------------------
(* The window of a query.                                                  *)

\* There is a scale, and it is the right one.
LEMMA ScaleFits ==
    ASSUME NEW n \in Nat, NEW top \in Powers, n < Mantissa * top
    PROVE  /\ Scale(n) \in Powers
           /\ n < Mantissa * Scale(n)
           /\ Scale(n) = 1 \/ n >= Mantissa * (Scale(n) \div 2)
<1> DEFINE Fits(s) == n < Mantissa * s /\ (s = 1 \/ n >= Mantissa * (s \div 2))
<1>1. \E s \in Powers : Fits(s)
    BY MessagesAssumption DEF Powers
<1> QED
    BY <1>1 DEF Scale

\* It is no larger than any that has room.
LEMMA ScaleLeast ==
    ASSUME NEW n \in Nat, NEW top \in Powers, n < Mantissa * top
    PROVE  Scale(n) <= top
BY ScaleFits, MessagesAssumption DEF Powers

LEMMA Quotient ==
    ASSUME NEW n \in Nat, NEW s \in Nat, s > 0
    PROVE  /\ n \div s \in Nat /\ n % s \in 0 .. (s - 1)
           /\ n = (n \div s) * s + (n % s)
<1>1. n \div s \in Int /\ n % s \in 0 .. (s - 1)
    OBVIOUS
<1>2. n = (n \div s) * s + (n % s)
    BY Z3
<1>3. n \div s >= 0
    BY Z3
<1> QED
    BY <1>1, <1>2, <1>3

\* What is rounded is off by half of the scale at most.
LEMMA RoundedNear ==
    ASSUME NEW n \in Nat, NEW top \in Powers, n < Mantissa * top
    PROVE  /\ ToNumber(n) \in Nat
           /\ 2 * (ToNumber(n) - n) <= top
           /\ 2 * (n - ToNumber(n)) <= top
<1> DEFINE s == Scale(n)
           q == n \div s
           r == n % s
<1>1. s \in Nat /\ s > 0 /\ s <= top /\ top \in Nat
    BY ScaleFits, ScaleLeast DEF Powers
<1>2. q \in Nat /\ r \in 0 .. (s - 1) /\ n = q * s + r
    BY <1>1, Quotient
<1>3. ToNumber(n) = IF 2 * r > s \/ (2 * r = s /\ q % 2 = 1) THEN (q + 1) * s ELSE q * s
    BY DEF ToNumber
<1> HIDE DEF s, q, r
<1>4. (q + 1) * s = q * s + s /\ q * s \in Nat
    BY <1>1, <1>2
<1>5. CASE ToNumber(n) = q * s + s /\ 2 * r >= s
    BY <1>1, <1>2, <1>4, <1>5
<1>6. CASE ToNumber(n) = q * s /\ 2 * r <= s
    BY <1>1, <1>2, <1>4, <1>6
<1> QED
    BY <1>1, <1>2, <1>3, <1>4, <1>5, <1>6

LEMMA SideIsKept ==
    ASSUME NEW sent \in Times, NEW bound \in Times
    PROVE  SideKept(sent, bound)
<1> DEFINE n == bound * OneMillion
           m == sent * OneMillion
<1>1. sent \in Nat /\ bound \in Nat /\ OneMillion \in Nat /\ n \in Nat /\ m \in Nat
    BY TimesAssumption, MessagesAssumption
<1>2. PICK top \in Powers : top < 2 * OneMillion /\ n < Mantissa * top
    BY TimesAssumption
<1>3. /\ TimeBound(bound) \in Nat
      /\ 2 * (TimeBound(bound) - n) <= top
      /\ 2 * (n - TimeBound(bound)) <= top
    BY <1>1, <1>2, RoundedNear DEF TimeBound
<1>4. sent > bound => m >= n + OneMillion
    BY <1>1
<1>5. sent < bound => m + OneMillion <= n
    BY <1>1
<1>6. top \in Nat
    BY DEF Powers
<1> HIDE DEF n, m
<1>7. sent > bound => m > TimeBound(bound)
    BY <1>1, <1>2, <1>3, <1>4, <1>6
<1>8. sent < bound => m < TimeBound(bound)
    BY <1>1, <1>2, <1>3, <1>5, <1>6
<1> QED
    BY <1>7, <1>8 DEF SideKept, m

-----------------------------------------------------------------------------
(* The ways of a message.                                                  *)

\* What is gossiped is read as what the encoder made, pushed or relayed.
LEMMA GossipedReads ==
    ASSUME NEW sent, IsEncoder(sent.encoder), IsSentMessage(sent.message),
           NEW bytes \in Gossiped(sent)
    PROVE  /\ DecodeMessage(Waku, bytes) = ToProtoObj(sent.encoder, sent.message)
           /\ IsUnderCap(sent.message)
<1> DEFINE obj == ToProtoObj(sent.encoder, sent.message)
<1>1. DecodeMessage(Waku, EncodeMessage(Waku, obj)) = obj /\ IsProto(obj)
    BY ProtoOf, MessageCodec
<1>2. CASE sent.push
    <2>1. PICK pushed \in PreparePushMessage(sent.encoder, sent.pubsubTopic, sent.message) :
            bytes = EncodeMessage(Waku, PushedMessage(pushed))
        BY <1>2 DEF Gossiped
    <2>2. PushedMessage(pushed) = obj
        BY <1>1, PushArrives
    <2>3. IsUnderCap(sent.message)
        BY <2>1 DEF PreparePushMessage
    <2> HIDE DEF obj
    <2> QED
        BY <1>1, <2>1, <2>2, <2>3 DEF obj
<1>3. CASE ~sent.push
    <2>1. IsUnderCap(sent.message) /\ bytes = ToWire(sent.encoder, sent.message)
        BY <1>3 DEF Gossiped
    <2>2. ToWire(sent.encoder, sent.message) = EncodeMessage(Waku, obj)
        BY OneCodec DEF ToWire
    <2> HIDE DEF obj
    <2> QED
        BY <1>1, <2>1, <2>2 DEF obj
<1> QED
    BY <1>2, <1>3

\* What is passed on was sent, and gossiped.
LEMMA PublishedOf ==
    ASSUME NEW n \in DOMAIN Published
    PROVE  Published[n] \in ToSet(Sent) /\ Gossiped(Published[n]) # {}
<1> DEFINE places == {m \in DOMAIN Sent : \E bytes \in Gossiped(Sent[m]) : Accepts(bytes)}
<1>1. PICK last : last = Len(Sent) /\ last \in Nat /\ DOMAIN Sent = 1 .. last
    BY SentAssumption, LenProperties
<1>2. IsFiniteSet(places) /\ \A m \in places : m \in Nat
    <2>1. IsFiniteSet(1 .. last)
        BY <1>1, FS_Interval
    <2> QED
        BY <1>1, <2>1, FS_Subset
<1>3. Published = At(Sent, places)
    BY DEF Published
<1>4. \A m \in places : m \in DOMAIN Sent /\ Gossiped(Sent[m]) # {}
    OBVIOUS
<1> HIDE DEF places
<1>5. ToSet(Published) = {Sent[m] : m \in places}
    BY <1>2, <1>3, AtOf
<1>6. PICK m \in places : Published[n] = Sent[m]
    BY <1>5 DEF ToSet
<1> QED
    BY <1>4, <1>6 DEF ToSet

\* By every way comes what the encoder made.
LEMMA WaysOf ==
    ASSUME NEW n \in DOMAIN Published, NEW way \in Ways(n)
    PROVE  /\ way.pubsubTopic = Published[n].pubsubTopic
           /\ way.message = ToProtoObj(Published[n].encoder, Published[n].message)
           /\ IsUnderCap(Published[n].message)
<1> DEFINE sent  == Published[n]
           obj   == ToProtoObj(sent.encoder, sent.message)
           topic == sent.pubsubTopic
           pairs == PageMessages(StorePage(topic, MessageHash(topic, obj), obj))
<1>1. /\ topic # <<>> /\ Gossiped(sent) # {}
      /\ IsEncoder(sent.encoder) /\ IsSentMessage(sent.message)
    <2>1. sent.pubsubTopic \in ClusterId \X ShardId
        BY PublishedOf, SentAssumption
    <2>2. \A a, b : <<a, b>> # <<>>
        OBVIOUS
    <2>3. PICK a \in ClusterId, b \in ShardId : topic = <<a, b>>
        BY <2>1
    <2> QED
        BY <2>2, <2>3, PublishedOf, SentAssumption
<1>2. IsProto(obj)
    BY <1>1, ProtoOf
<1>3. PICK bytes \in Gossiped(sent) : Wire[n].pubsubTopic = topic /\ Wire[n].bytes = bytes
    <2>1. Wire[n] = Gossip(sent)
        BY WireAssumption DEF WireOf
    <2> QED
        BY <1>1, <2>1 DEF Gossip
<1>4. DecodeMessage(Waku, Wire[n].bytes) = obj /\ IsUnderCap(sent.message)
    BY <1>1, <1>3, GossipedReads
<1>5. \A i \in DOMAIN pairs : pairs[i].pubsubTopic = topic /\ pairs[i].message = obj
    BY <1>2, StoreArrives
<1>6. OnRequest(FilterPush(topic, obj)) = {[pubsubTopic |-> topic, message |-> obj]}
    BY <1>1, <1>2, FilterArrives
<1>7. Ways(n) = {[pubsubTopic |-> topic, message |-> obj]}
                  \cup OnRequest(FilterPush(topic, obj))
                  \cup {[pubsubTopic |-> pairs[i].pubsubTopic, message |-> pairs[i].message] :
                          i \in DOMAIN pairs}
    <2> HIDE DEF obj
    <2> QED
        BY <1>3, <1>4, Zenon DEF Ways
<1> HIDE DEF obj, topic, pairs
<1>8. way = [pubsubTopic |-> topic, message |-> obj]
    BY <1>5, <1>6, <1>7
<1> QED
    BY <1>4, <1>8 DEF obj, topic

LEMMA DecoderOf ==
    ASSUME NEW encoder, NEW topic
    PROVE  /\ IsEncrypted(DecoderFor(encoder, topic)) <=> IsEncrypted(encoder)
           /\ IsEncrypted(encoder) => DecoderFor(encoder, topic).key = encoder.key
<1> DEFINE names == {"pubsubTopic", "contentTopic"} \cup ({"key"} \cap DOMAIN encoder)
           all   == [pubsubTopic |-> topic, contentTopic |-> encoder.contentTopic,
                     key |-> Field(encoder, "key", NoKey)]
<1>1. DecoderFor(encoder, topic) = Only(names, all)
    BY DEF DecoderFor
<1>2. /\ "key" \in names \cap DOMAIN all <=> "key" \in DOMAIN encoder
      /\ "key" \in DOMAIN encoder => all.key = encoder.key
    BY DEF Field
<1> HIDE DEF names, all
<1>3. "key" \in DOMAIN Only(names, all) <=> "key" \in names \cap DOMAIN all
    BY OnlyOf
<1>4. "key" \in names \cap DOMAIN all => Only(names, all).key = all.key
    BY DEF Only
<1> QED
    BY <1>1, <1>2, <1>3, <1>4 DEF IsEncrypted

LEMMA EveryMessageArrives ==
    ASSUME NEW n \in DOMAIN Published
    PROVE  Arrived(n)
<1> DEFINE sent    == Published[n]
           message == sent.message
           topic   == sent.pubsubTopic
           signer  == Field(sent.encoder, "signer", NoKey)
           obj     == ToProtoObj(sent.encoder, message)
           hash    == MessageHash(topic, obj)
           decoder == DecoderFor(sent.encoder, topic)
           decoded == DecodedMessage(topic, obj, message.payload, signer)
<1>1. IsEncoder(sent.encoder) /\ IsSentMessage(message)
    BY PublishedOf, SentAssumption
<1>2. ASSUME NEW way \in Ways(n)
      PROVE  /\ way.pubsubTopic = topic /\ way.message = obj
             /\ FromProtoObj(decoder, topic, obj) = {decoded}
    <2>1. way.pubsubTopic = topic /\ way.message = obj /\ IsUnderCap(message)
        BY WaysOf
    <2>2. FromProtoObj(decoder, topic, obj) = {decoded}
        BY <1>1, <2>1, DecoderOf, DecoderOpens
    <2> QED
        BY <2>1, <2>2
<1>3. /\ decoded.payload = message.payload /\ decoded.signer = signer
      /\ Only({"timestamp", "rateLimitProof"}, decoded)
           = Only({"timestamp", "rateLimitProof"}, message)
      /\ message.payload = obj.payload => CreateCursor(decoded) = hash
    BY <1>1, DecodedHas
<1>4. ~IsEncrypted(sent.encoder) => message.payload = obj.payload
    BY <1>1, ProtoOf DEF Payload
<1> HIDE DEF obj, hash, decoder, decoded, signer
<1>5. ASSUME NEW way \in Ways(n)
      PROVE  /\ MessageHash(way.pubsubTopic, way.message) = hash
             /\ \E d \in FromProtoObj(decoder, way.pubsubTopic, way.message) :
                  /\ d.payload = message.payload /\ d.signer = signer
                  /\ Only({"timestamp", "rateLimitProof"}, d)
                       = Only({"timestamp", "rateLimitProof"}, message)
                  /\ ~IsEncrypted(sent.encoder) => CreateCursor(d) = hash
    <2>1. MessageHash(way.pubsubTopic, way.message) = hash
        BY <1>2 DEF hash
    <2>2. decoded \in FromProtoObj(decoder, way.pubsubTopic, way.message)
        BY <1>2
    <2> QED
        BY <1>3, <1>4, <2>1, <2>2
<1> QED
    BY <1>5 DEF Arrived, hash, obj, decoder, signer

-----------------------------------------------------------------------------
(* The whole.                                                              *)

\* Every step is one of a part, or leaves the parts alone.
LEMMA StepsOfParts ==
    ASSUME [MessagingNext]_messagingVars
    PROVE  /\ [QueryNext]_queryVars
           /\ \/ RelayMoves /\ UNCHANGED iter
              \/ UNCHANGED relayVars /\ (IterStep \/ UNCHANGED iter)
              \/ Stop \/ \E timeout \in BOOLEAN : ToAsyncIterator(timeout)
<1>1. CASE LookAway
    BY <1>1 DEF LookAway
<1>2. CASE MessageStep
    BY <1>2 DEF MessageStep, RelayMoves, IterStep, NextCalled, Waited, Unsubscribed
<1>3. CASE UNCHANGED messagingVars
    BY <1>3 DEF messagingVars
<1> QED
    BY <1>1, <1>2, <1>3 DEF MessagingNext

MessagingInv == QueryInv /\ RelayInv /\ IterInv

LEMMA MessagingInvInit == MessagingInit => MessagingInv
BY QueryInvInit, RelayInvInit, IterInvInit DEF MessagingInit, MessagingInv

LEMMA MessagingInvNext == MessagingInv /\ [MessagingNext]_messagingVars => MessagingInv'
<1> SUFFICES ASSUME MessagingInv, [MessagingNext]_messagingVars PROVE MessagingInv'
    OBVIOUS
<1> USE DEF MessagingInv
<1>1. QueryInv'
    BY StepsOfParts, QueryInvNext
<1>2. RelayInv'
    BY StepsOfParts, RelayInvNext DEF RelayMoves
<1>3. IterInv'
    BY StepsOfParts, IterInvRests, IterInvMoves
<1> QED
    BY <1>1, <1>2, <1>3

\* The inductive invariant of the queries, the observers of the relay, the iterators
\* over them and the clocks of the two sides.
THEOREM Invariant == MessagingSpec => []MessagingInv
BY MessagingInvInit, MessagingInvNext, PTL DEF MessagingSpec

-----------------------------------------------------------------------------
\* What a query yields is a run of the store, each message once: with the cursor of
\* the page before, a page of any size joins what was seen (store.ts, queryPerPage).
THEOREM PagesJoinCorrect == QuerySpec => []PagesJoin
<1>1. QuerySpec => []QueryInv
    BY QueryInvInit, QueryInvNext, PTL DEF QuerySpec
<1> QED
    BY <1>1, QueryInvImpliesPagesJoin, PTL

\* Relaying, iterating and the conversions leave a query alone: a behaviour of the whole
\* is one of the query by itself, whose state nothing else writes (store.ts,
\* queryPerPage keeps the cursor in a variable of its call).
THEOREM QueryImplemented == MessagingSpec => QuerySpec
<1>1. MessagingInit => QueryInit
    BY DEF MessagingInit
<1>2. [MessagingNext]_messagingVars => [QueryNext]_queryVars
    BY StepsOfParts
<1> QED
    BY <1>1, <1>2, PTL DEF MessagingSpec, QuerySpec

\* So do they while messages are relayed and iterated.
THEOREM PagesJoinThroughout == MessagingSpec => []PagesJoin
<1>1. MessagingInv => PagesJoin
    BY QueryInvImpliesPagesJoin DEF MessagingInv
<1> QED
    BY <1>1, Invariant, PTL

\* The relay calls the callback of who stays subscribed while a message is processed
\* once for each of its decoders that can decode it, and nobody's more often: any
\* number of messages at once, and whoever else comes and goes (relay.ts,
\* processIncomingMessage and its observers).
THEOREM WhoStaysIsServed == MessagingSpec => []ServedWhileSubscribed
<1>1. MessagingInv => ServedWhileSubscribed
    BY RelayInvImpliesServed DEF MessagingInv
<1> QED
    BY <1>1, Invariant, PTL

\* An iterator gives out, in their order, what came, and after stop() ends no earlier
\* than with the last message that had come (to_async_iterator.ts).
THEOREM StopDropsNothing == MessagingSpec => []StoppedAfterAll
<1>1. MessagingInv => StoppedAfterAll
    BY DEF MessagingInv, IterInv, IterTypes, Iterator, GivenOut, EndsDrained, StoppedAfterAll
<1> QED
    BY <1>1, Invariant, PTL

\* A message a millisecond or more outside the window of a query is not taken for one
\* within it, whatever the bits of a number: of doubles for every Date (store.ts).
THEOREM WindowIsKept == MessagingSpec => []WindowKept
<1>1. MessagingInit => WindowKept
    BY SideIsKept DEF MessagingInit, Look, WindowKept
<1>2. WindowKept /\ [MessagingNext]_messagingVars => WindowKept'
    BY DEF MessagingNext, LookAway, Looked, messagingVars, WindowKept
<1> QED
    BY <1>1, <1>2, PTL DEF MessagingSpec

\* Whatever fields of a message are set, of any type of the protocols, they are read
\* as they were written (the generated codecs of @waku/proto).
THEOREM WireIsFaithful == MessagingSpec => []WireFaithful
<1>1. MessagingInit => WireFaithful
    BY EveryMessageReadsAsWritten DEF MessagingInit, Look, WireFaithful
<1>2. WireFaithful /\ [MessagingNext]_messagingVars => WireFaithful'
    BY DEF MessagingNext, LookAway, Looked, messagingVars, WireFaithful
<1> QED
    BY <1>1, <1>2, PTL DEF MessagingSpec

\* Whatever the configuration, the topics that a node ensures, subscribes to and tells
\* its peers are the same (utils, common/sharding; metadata.ts; enr, relay_shard_codec.ts).
THEOREM ShardsAreAgreed == MessagingSpec => []ShardsAgree
<1>1. MessagingInit => ShardsAgree
    BY ConfigsAgree, ConfigsAssumption DEF MessagingInit, Look, ShardsAgree
<1>2. ShardsAgree /\ [MessagingNext]_messagingVars => ShardsAgree'
    BY DEF MessagingNext, LookAway, Looked, messagingVars, ShardsAgree
<1> QED
    BY <1>1, <1>2, PTL DEF MessagingSpec

\* Whatever is sent, encrypted or not, by every way what is decoded is what was sent,
\* and its hash is that of the sender (the encoders and decoders of core and
\* message-encryption, light push, filter, store and message_hash.ts).
THEOREM MessagesArriveAsSent == MessagingSpec => []ArrivesAsSent
<1>1. MessagingInit => ArrivesAsSent
    BY EveryMessageArrives DEF MessagingInit, Look, ArrivesAsSent
<1>2. ArrivesAsSent /\ [MessagingNext]_messagingVars => ArrivesAsSent'
    BY DEF MessagingNext, LookAway, Looked, messagingVars, ArrivesAsSent
<1> QED
    BY <1>1, <1>2, PTL DEF MessagingSpec
=============================================================================
