------------------------------- MODULE LightPush -------------------------------
(***************************************************************************)
(* Light Push: a message goes to every peer of the pool at once; with      *)
(* autoRetry each failure begins attempts of its own, one after the other, *)
(* over the pool of that moment.  A peer with two locked connections is    *)
(* there twice, so the targets are the connections.                        *)
(*                                                                         *)
(* One send at a time; those of an earlier one may still be attempting.    *)
(***************************************************************************)
EXTENDS PeerManager, Sequences, SequencesExt

CONSTANTS
    MaxAttempts,  \* maxAttempts
    Retry         \* bound: attemptRetries under way

VARIABLES
    push,     \* send
    retries   \* attemptRetries

pushVars == <<push, retries>>

NoPush  == [pc |-> "idle", autoRetry |-> FALSE, waiting |-> {}, failed |-> {}]
NoRetry == [pc |-> "idle", peers |-> <<>>, i |-> 0, sent |-> <<>>]

PushInit ==
    /\ push = NoPush
    /\ retries = [r \in Retry |-> NoRetry]

Ongoing == {r \in Retry : retries[r].pc # "idle"}

-----------------------------------------------------------------------------
\* Without a peer in the pool, or with another topic, it returns at once.
Send(autoRetry) ==
    /\ push.pc = "idle"
    /\ Pool # {}
    /\ push' = [pc |-> "sending", autoRetry |-> autoRetry, waiting |-> Pool, failed |-> {}]
    /\ UNCHANGED retries

\* LightPushCore.send always has a result: a success, or one of many failures (no
\* stream, no answer, a refusal, ...).
PushAnswered(c, success) ==
    /\ c \in push.waiting
    /\ push' = [push EXCEPT !.waiting = @ \ {c},
                            !.failed = IF success THEN @ ELSE @ \cup {c}]
    /\ UNCHANGED retries

\* The orders of getConnections.
Orders(S) == {f \in [1 .. Cardinality(S) -> S] : IsInjective(f)}

Least(m, n) == IF m < n THEN m ELSE n

\* Mutant: the retries are left to the first peer.
TargetFirst(retry) == retry.peers[1]

\* The peer of attempt i.
Target(retry) == retry.peers[(retry.i % Len(retry.peers)) + 1]

\* A call of attemptRetries; "sent" counts, a history.
AttemptRetries(order) ==
    [pc |-> "attempt", peers |-> order, i |-> 0, sent |-> [c \in Range(order) |-> 0]]

\* All have settled: a retry for each failure, if there are peers to retry with.
SendReturns ==
    /\ push.pc = "sending" /\ push.waiting = {}
    /\ push' = NoPush
    /\ IF push.autoRetry /\ Pool # {}
         THEN \E rs \in SUBSET (Retry \ Ongoing), order \in Orders(Pool) :
                /\ Cardinality(rs) = Least(Cardinality(push.failed), Cardinality(Retry \ Ongoing))
                /\ retries' = [r \in Retry |->
                                 IF r \in rs THEN AttemptRetries(order) ELSE retries[r]]
         ELSE UNCHANGED retries

\* Mutant: failures are not counted.
RetryAnsweredForever(r, success) ==
    /\ retries[r].pc = "attempt"
    /\ retries' = [retries EXCEPT
                     ![r] = IF success THEN NoRetry
                            ELSE [@ EXCEPT !.i = (@ + 1) % MaxAttempts]]
    /\ UNCHANGED push

RetryAnswered(r, success) ==
    LET retry == retries[r]
        next  == [retry EXCEPT !.i = @ + 1, !.sent[Target(retry)] = @ + 1]
    IN /\ retry.pc = "attempt"
       /\ retries' = [retries EXCEPT
                        ![r] = IF success \/ next.i >= MaxAttempts THEN NoRetry ELSE next]
       /\ UNCHANGED push

SendStep     == SendReturns \/ \E c \in Conn, success \in BOOLEAN : PushAnswered(c, success)
RetryStep(r) == \E success \in BOOLEAN : RetryAnswered(r, success)

PushNext ==
    \/ \E autoRetry \in BOOLEAN : Send(autoRetry)
    \/ SendStep
    \/ \E r \in Retry : RetryStep(r)

allVars == <<vars, pushVars>>

AllInit == Init /\ PushInit

AllNext ==
    \/ Next /\ UNCHANGED pushVars
    \/ PushNext /\ UNCHANGED vars

\* The pool changes as it does, and every request is answered or fails.
PushSpec ==
    /\ AllInit
    /\ [][AllNext]_allVars
    /\ WF_allVars(SendStep /\ UNCHANGED vars)
    /\ \A r \in Retry : WF_allVars(RetryStep(r) /\ UNCHANGED vars)

-----------------------------------------------------------------------------
\* The attempts of a retry go round the pool: no peer is tried twice more than
\* another.
RetriesSpread ==
    \A r \in Ongoing : \A c, d \in DOMAIN retries[r].sent :
      retries[r].sent[c] <= retries[r].sent[d] + 1

\* A send returns, and the attempts it has begun end.
PushSettles ==
    /\ push.pc = "sending" ~> push.pc = "idle"
    /\ \A r \in Retry : retries[r].pc = "attempt" ~> retries[r].pc = "idle"
=============================================================================
