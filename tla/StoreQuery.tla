------------------------------- MODULE StoreQuery -------------------------------
(***************************************************************************)
(* Store queries: a peer of the pool is asked for page after page, each    *)
(* after the cursor of the one before, until a page is empty, no stream is *)
(* to be had, or the callbacks of a page abort.  The first page is after a *)
(* cursor of the caller, if there is one.                                  *)
(*                                                                         *)
(* Messages are numbered in the order of the store, which may grow.        *)
(***************************************************************************)
EXTENDS Integers, Sequences, SequencesExt

CONSTANTS
    MaxLog,     \* bound: messages
    PageSize    \* the largest page

ASSUME QueryAssumption == MaxLog \in Nat /\ PageSize \in Nat

VARIABLES
    log,     \* the number of messages stored
    query    \* the query under way

queryVars == <<log, query>>

(***************************************************************************)
(* "cursor" is 0 without one, and so is "from", the caller's; "calls" are  *)
(* the callbacks of the page that have not ended, "abort" the flag that    *)
(* they set; "seen" and "twice", histories, are what was yielded, and that *)
(* some of it came again.                                                  *)
(***************************************************************************)
NoQuery == [pc |-> "idle", forward |-> TRUE, from |-> 0, cursor |-> 0, page |-> <<>>,
            calls |-> {}, abort |-> FALSE, seen |-> {}, twice |-> FALSE]

QueryInit == log = 0 /\ query = NoQuery

Stored ==
    /\ log < MaxLog
    /\ log' = log + 1
    /\ UNCHANGED query

-----------------------------------------------------------------------------
\* A page of the store, oldest first: the next messages after the cursor, or those
\* before it.
Pages(forward, cursor) ==
    LET left     == IF forward THEN log - cursor ELSE IF cursor = 0 THEN log ELSE cursor - 1
        first(n) == IF forward THEN cursor + 1 ELSE left - n + 1
    IN IF left = 0 THEN {<<>>}
       ELSE {[i \in 1 .. n |-> first(n) + i - 1] : n \in {n \in 1 .. left : n <= PageSize}}

\* Without a peer in the pool it throws.
StartQuery(forward, from) ==
    /\ query.pc = "idle"
    /\ query' = [NoQuery EXCEPT !.pc = "request", !.forward = forward,
                   !.from = from, !.cursor = from]
    /\ UNCHANGED log

\* No stream ends the pages; a broken one, or a bad answer, is an exception.
QueryBreaks ==
    /\ query.pc = "request"
    /\ query' = NoQuery
    /\ UNCHANGED log

\* A message without a decoder is undefined and has no callback.
Answered ==
    /\ query.pc = "request"
    /\ \E page \in Pages(query.forward, query.cursor) :
         query' = IF page = <<>> THEN NoQuery
                  ELSE [query EXCEPT !.pc = "page", !.page = page, !.abort = FALSE,
                          !.calls = 1 .. Len(page), !.seen = @ \cup ToSet(page),
                          !.twice = @ \/ query.seen \cap ToSet(page) # {}]
    /\ UNCHANGED log

\* Every callback of a page is called before any of them has ended.
CallbackEnds(i, result) ==
    /\ i \in query.calls
    /\ query' = [query EXCEPT !.calls = @ \ {i}, !.abort = result]
    /\ UNCHANGED log

\* A callback throws, or a decoder, and with it the query; what the other callbacks
\* of the page do is of no account.
CallbackThrows ==
    /\ query.calls # {}
    /\ query' = NoQuery
    /\ UNCHANGED log

\* Mutant: the cursor is the same in both directions.
NextCursorForward(q) == q.page[Len(q.page)]

\* Mutant: the options of the query are not renewed.
NextCursorStuck(q) == q.cursor

NextCursor(q) == IF q.forward THEN q.page[Len(q.page)] ELSE q.page[1]

\* A page that is longer than the largest and shorter than the limit, which there
\* is not, would be the last one too.
NextPage ==
    /\ query.pc = "page" /\ query.calls = {}
    /\ query' = IF query.abort THEN NoQuery
                ELSE [query EXCEPT !.pc = "request", !.page = <<>>, !.cursor = NextCursor(query)]
    /\ UNCHANGED log

QueryStep ==
    \/ QueryBreaks \/ Answered \/ NextPage \/ CallbackThrows
    \/ \E i \in 1 .. PageSize, result \in BOOLEAN : CallbackEnds(i, result)

QueryNext ==
    \/ QueryStep
    \/ Stored
    \/ \E forward \in BOOLEAN, from \in 0 .. log : StartQuery(forward, from)

QuerySpec == QueryInit /\ [][QueryNext]_queryVars

-----------------------------------------------------------------------------
\* The pages join: what was yielded is a run of the store without a gap or a
\* repetition, while messages are stored.  It follows the caller's cursor, or ends
\* before it; without one it goes from the oldest message on, or down from a newest.
PagesJoin ==
    LET seen == query.seen
        from == query.from
    IN /\ ~query.twice
       /\ \A m, n \in seen : m .. n \subseteq seen
       /\ from \notin seen
       /\ query.forward /\ seen # {} => from + 1 \in seen
       /\ ~query.forward /\ from # 0 /\ seen # {} => from - 1 \in seen

(***************************************************************************)
(* What the end of a query takes, and the code does not see to: the pipe   *)
(* of a request has no timeout and a callback may take its time; and going *)
(* forward, a store that gains messages as fast as they are asked for has  *)
(* a page for ever.                                                        *)
(***************************************************************************)
RequestsAnswered == []<>(query.pc # "request")
CallbacksEnd     == []<>(query.calls = {})
StoreSettles     == <>[][FALSE]_log

\* If each request is answered or fails, the callbacks end and the store gains no more
\* messages, a query ends, though only an empty page tells that there is no more.
QueryEnds ==
    RequestsAnswered /\ CallbacksEnd /\ StoreSettles
      => (query.pc # "idle" ~> query.pc = "idle")
=============================================================================
