----------------------------- MODULE AsyncIterator -----------------------------
(***************************************************************************)
(* toAsyncIterator: an iterator over what the relay calls back.  The array *)
(* "messages" is what has come and was not taken.                          *)
(***************************************************************************)
EXTENDS Relay

CONSTANT
    Iterated  \* the subscription of the iterator

ASSUME IteratorAssumption == Iterated \in Subscription

VARIABLE
    iter  \* the iterator and its consumer, and a history of what it was given

(***************************************************************************)
(* "pc": the consumer has the generator ("held"), it waits ("waiting"), it *)
(* has returned ("ended").  "timeout": there is one.  "unsubscribe" is     *)
(* "set", "called" or "cleared".                                           *)
(***************************************************************************)
NoIterator == [pc |-> "off", timeout |-> FALSE, unsubscribe |-> "set", taken |-> 0, yielded |-> <<>>,
               returned |-> <<>>, before |-> 0]

IterInit == iter = NoIterator

Messages     == Len(calls[Iterated]) - iter.taken
NextMessage  == calls[Iterated][iter.taken + 1]

ToAsyncIterator(timeout) ==
    /\ iter.pc = "off"
    /\ AddObservers(Iterated)
    /\ iter' = [NoIterator EXCEPT !.pc = "held", !.timeout = timeout]
    /\ UNCHANGED <<incoming, calls, owed>>

\* The head of the loop.
NextCalled ==
    /\ iter.pc = "held"
    /\ \/ iter' = [iter EXCEPT !.pc = "waiting"]
       \/ iter.timeout /\ iter' = [iter EXCEPT !.pc = "ended"]
    /\ UNCHANGED relayVars

\* Mutant: what has come does not matter any more.
DrainedAtOnce == iter.unsubscribe = "cleared"

\* The last message is there, or none.
Drained == iter.unsubscribe = "cleared" /\ Messages <= 1

\* The wait is over.  The last message after stop() is returned, not yielded.
Waited ==
    /\ iter.pc = "waiting"
    /\ LET taken    == [iter EXCEPT !.taken = @ + (IF Messages = 0 THEN 0 ELSE 1)]
           message  == IF Messages = 0 THEN <<>> ELSE <<NextMessage>>
       IN \/ /\ Drained
             /\ iter' = [taken EXCEPT !.pc = "ended", !.returned = message]
          \/ /\ ~Drained /\ Messages > 0
             /\ iter' = [taken EXCEPT !.pc = "held", !.yielded = @ \o message]
          \/ /\ ~Drained /\ Messages = 0 /\ iter.timeout
             /\ iter' = [iter EXCEPT !.pc = "ended"]
    /\ UNCHANGED relayVars

\* "before", a history, counts what came before stop().
Stop ==
    /\ iter.pc # "off" /\ iter.unsubscribe = "set"
    /\ RemoveObservers(Iterated)
    /\ iter' = [iter EXCEPT !.unsubscribe = "called", !.before = Len(calls[Iterated])]
    /\ UNCHANGED <<incoming, calls>>

\* Mutant: it is not cleared.
UnsubscribedStays ==
    /\ iter.unsubscribe = "called"
    /\ UNCHANGED <<iter, relayVars>>

Unsubscribed ==
    /\ iter.unsubscribe = "called"
    /\ iter' = [iter EXCEPT !.unsubscribe = "cleared"]
    /\ UNCHANGED relayVars

IterStep == NextCalled \/ Waited \/ Unsubscribed

-----------------------------------------------------------------------------
\* An iterator without a timeout that was stopped gives out in their order all the
\* messages that had come, the last perhaps as the value that it returns.
StoppedAfterAll ==
    /\ iter.yielded \o iter.returned = SubSeq(calls[Iterated], 1, iter.taken)
    /\ iter.pc = "ended" /\ ~iter.timeout => iter.taken >= iter.before

\* An iterator that was stopped ends, if it is asked for messages.
StoppedIteratorEnds == iter.unsubscribe # "set" ~> iter.pc = "ended"
=============================================================================
