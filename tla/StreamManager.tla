---------------------------- MODULE StreamManager ----------------------------
(***************************************************************************)
(* The stream manager of @waku/core, for one codec and one peer (its maps  *)
(* are keyed by peer and the peers do not meet).  Protocols call getStream *)
(* to have a stream of their own for a request; a "peer:update" event      *)
(* makes one in advance and keeps its promise in streamPool.               *)
(*                                                                         *)
(* A task is a call of getStream (Caller) or of createStreamWithLock (Job).*)
(* A task creates one stream at most, so the stream has the task's name.   *)
(* connection.streams lists the streams in the order in which they were    *)
(* asked for; a stream has its protocol once it is negotiated, and stays   *)
(* in the list while it closes.                                            *)
(***************************************************************************)
EXTENDS Naturals, Sequences, SequencesExt

CONSTANTS
    Caller,   \* the calls of getStream
    Job,      \* the calls of createStreamWithLock
    Conn,     \* the connections to the peer
    None      \* no job, no stream

ASSUME TaskAssumption ==
    /\ Caller \cap Job = {}
    /\ None \notin Caller \cup Job

Task == Caller \cup Job

VARIABLES
    conns,    \* the open connections, in the order in which they opened
    streams,  \* connection.streams of each connection
    status,   \* of each stream
    locked,   \* the streams with the "consumed" mark
    pc,       \* where each task is suspended, or how it ended
    awaited,  \* the job that a call of getStream waits for
    held,     \* the stream that a call of getStream returned
    pool,     \* the peer's entry in streamPool
    ongoing   \* the peer is in ongoingCreation

taskVars == <<pc, awaited, held, pool, ongoing>>
netVars  == <<conns, streams, status>>
vars     == <<taskVars, netVars, locked>>

TypeOK ==
    /\ conns \in Seq(Conn)
    /\ streams \in [Conn -> Seq(Task)]
    /\ status \in [Task -> {"none", "negotiating", "ready", "closing", "gone"}]
    /\ locked \subseteq Task
    /\ pc \in [Task -> {"idle", "waiting", "creating", "created", "got",
                        "released", "failed", "resolved"}]
    /\ awaited \in [Caller -> Job \cup {None}]
    /\ held \in [Caller -> Task \cup {None}]
    /\ pool \in Job \cup {None}
    /\ ongoing \in BOOLEAN

Init ==
    /\ conns = <<>>
    /\ streams = [k \in Conn |-> <<>>]
    /\ status = [t \in Task |-> "none"]
    /\ locked = {}
    /\ pc = [t \in Task |-> "idle"]
    /\ awaited = [c \in Caller |-> None]
    /\ held = [c \in Caller |-> None]
    /\ pool = None
    /\ ongoing = FALSE

-----------------------------------------------------------------------------
(* selectOpenConnection takes the newest open connection; in it,           *)
(* getOpenStreamForCodec looks at the first stream of the codec only.      *)

Connected == conns # <<>>
Newest    == conns[Len(conns)]

\* Mutant: the lock of the stream is not looked at.
IsOpenStreamUnlocked(i) ==
    /\ status[streams[Newest][i]] = "ready"
    /\ \A j \in 1 .. i - 1 : status[streams[Newest][j]] = "negotiating"

\* The stream at place i is the first with a protocol, and can be used.
IsOpenStream(i) ==
    /\ status[streams[Newest][i]] = "ready" /\ streams[Newest][i] \notin locked
    /\ \A j \in 1 .. i - 1 : status[streams[Newest][j]] = "negotiating"

OpenStream ==
    IF Connected /\ \E i \in DOMAIN streams[Newest] : IsOpenStream(i)
      THEN streams[Newest][CHOOSE i \in DOMAIN streams[Newest] : IsOpenStream(i)]
      ELSE None

\* createStream up to its await: newStream on the newest connection.  With no
\* connection the promise is rejected: the task resumes in CreationFails.
RequestStream(t) ==
    IF Connected
      THEN /\ streams' = [streams EXCEPT ![Newest] = Append(@, t)]
           /\ status' = [status EXCEPT ![t] = "negotiating"]
           /\ UNCHANGED conns
      ELSE UNCHANGED netVars

-----------------------------------------------------------------------------
(* getStream.                                                              *)

\* Mutant: the stream is returned without a look at whether there is one.
TakeUnchecked(c) ==
    /\ held' = [held EXCEPT ![c] = OpenStream]
    /\ locked' = locked \cup {OpenStream}
    /\ pc' = [pc EXCEPT ![c] = "got"]
    /\ UNCHANGED netVars

\* The part after the pooled promise, up to the next await: an open stream is
\* marked and returned, else one is created.
TakeOrCreate(c) ==
    IF OpenStream # None
      THEN /\ held' = [held EXCEPT ![c] = OpenStream]
           /\ locked' = locked \cup {OpenStream}
           /\ pc' = [pc EXCEPT ![c] = "got"]
           /\ UNCHANGED netVars
      ELSE /\ pc' = [pc EXCEPT ![c] = "creating"]
           /\ RequestStream(c)
           /\ UNCHANGED <<held, locked>>

\* Mutant: the promise stays in streamPool.
GetStreamKeepingPromise(c) ==
    /\ pc[c] = "idle"
    /\ IF pool # None
         THEN /\ pc' = [pc EXCEPT ![c] = "waiting"]
              /\ awaited' = [awaited EXCEPT ![c] = pool]
              /\ UNCHANGED <<pool, held, locked, netVars>>
         ELSE TakeOrCreate(c) /\ UNCHANGED <<awaited, pool>>
    /\ UNCHANGED ongoing

GetStream(c) ==
    /\ pc[c] = "idle"
    /\ IF pool # None
         THEN /\ pc' = [pc EXCEPT ![c] = "waiting"]
              /\ awaited' = [awaited EXCEPT ![c] = pool]
              /\ pool' = None
              /\ UNCHANGED <<held, locked, netVars>>
         ELSE TakeOrCreate(c) /\ UNCHANGED <<awaited, pool>>
    /\ UNCHANGED ongoing

\* The scheduled stream is there, or its creation failed or was skipped.
AfterScheduled(c) ==
    /\ pc[c] = "waiting"
    /\ pc[awaited[c]] = "resolved"
    /\ TakeOrCreate(c)
    /\ UNCHANGED <<awaited, pool, ongoing>>

\* getStream resumes with the stream it created, and marks it.
LockCreated(c) ==
    /\ pc[c] = "created"
    /\ pc' = [pc EXCEPT ![c] = "got"]
    /\ held' = [held EXCEPT ![c] = c]
    /\ locked' = locked \cup {c}
    /\ UNCHANGED <<awaited, pool, ongoing, netVars>>

-----------------------------------------------------------------------------
(* "peer:update": handlePeerUpdateStreamPool, scheduleNewStream and        *)
(* createStreamWithLock.                                                   *)

\* Mutant: the peer is not looked up in ongoingCreation.
PeerUpdateUnguarded(j) ==
    /\ pc[j] = "idle"
    /\ OpenStream = None
    /\ pool' = j
    /\ pc' = [pc EXCEPT ![j] = "creating"]
    /\ ongoing' = TRUE
    /\ RequestStream(j)
    /\ UNCHANGED <<awaited, held, locked>>

\* Mutant: the promise of a creation that was skipped is never resolved.
PeerUpdateUnsettled(j) ==
    /\ pc[j] = "idle"
    /\ OpenStream = None
    /\ pool' = j
    /\ IF ongoing
         THEN /\ pc' = [pc EXCEPT ![j] = "waiting"]
              /\ UNCHANGED <<ongoing, netVars>>
         ELSE /\ pc' = [pc EXCEPT ![j] = "creating"]
              /\ ongoing' = TRUE
              /\ RequestStream(j)
    /\ UNCHANGED <<awaited, held, locked>>

\* The promise replaces the one in streamPool; it is resolved at once if a
\* creation is under way.
PeerUpdate(j) ==
    /\ pc[j] = "idle"
    /\ OpenStream = None
    /\ pool' = j
    /\ IF ongoing
         THEN /\ pc' = [pc EXCEPT ![j] = "resolved"]
              /\ UNCHANGED <<ongoing, netVars>>
         ELSE /\ pc' = [pc EXCEPT ![j] = "creating"]
              /\ ongoing' = TRUE
              /\ RequestStream(j)
    /\ UNCHANGED <<awaited, held, locked>>

FinishJob(j) ==
    /\ pc[j] = "created"
    /\ pc' = [pc EXCEPT ![j] = "resolved"]
    /\ ongoing' = FALSE
    /\ UNCHANGED <<awaited, held, pool, locked, netVars>>

-----------------------------------------------------------------------------
(* libp2p: the streams and the connections.                                *)

\* A list has a stream, or a connection, once at most.
Without(list, x) ==
    IF x \in ToSet(list) THEN RemoveAt(list, CHOOSE i \in DOMAIN list : list[i] = x) ELSE list

Unlisted(s) == [k \in Conn |-> Without(streams[k], s)]

\* newStream resolves; the task that asked resumes later.
StreamOpens(t) ==
    /\ pc[t] = "creating"
    /\ status[t] = "negotiating"
    /\ status' = [status EXCEPT ![t] = "ready"]
    /\ pc' = [pc EXCEPT ![t] = "created"]
    /\ UNCHANGED <<conns, streams, awaited, held, pool, ongoing, locked>>

\* There was no connection, or newStream rejects: a call of getStream throws,
\* a job logs the error and leaves ongoingCreation.
CreationFails(t) ==
    /\ pc[t] = "creating"
    /\ streams' = Unlisted(t)
    /\ status' = [status EXCEPT ![t] = "gone"]
    /\ pc' = [pc EXCEPT ![t] = IF t \in Job THEN "resolved" ELSE "failed"]
    /\ ongoing' = (ongoing /\ t \notin Job)
    /\ UNCHANGED <<conns, awaited, held, pool, locked>>

\* The protocol is done with the stream and closes its side.
Release(c) ==
    /\ pc[c] = "got"
    /\ pc' = [pc EXCEPT ![c] = "released"]
    /\ status' = [status EXCEPT ![held[c]] = IF @ = "ready" THEN "closing" ELSE @]
    /\ UNCHANGED <<conns, streams, awaited, held, pool, ongoing, locked>>

\* The other side closes or resets a stream.
StreamCloses(s) ==
    /\ status[s] = "ready"
    /\ status' = [status EXCEPT ![s] = "closing"]
    /\ UNCHANGED <<taskVars, conns, streams, locked>>

StreamGone(s) ==
    /\ status[s] = "closing"
    /\ status' = [status EXCEPT ![s] = "gone"]
    /\ streams' = Unlisted(s)
    /\ UNCHANGED <<taskVars, conns, locked>>

ConnectionOpens(k) ==
    /\ k \notin ToSet(conns)
    /\ conns' = Append(conns, k)
    /\ UNCHANGED <<taskVars, streams, status, locked>>

\* The connection goes with its streams.
ConnectionDrops(k) ==
    /\ k \in ToSet(conns)
    /\ conns' = Without(conns, k)
    /\ streams' = [streams EXCEPT ![k] = <<>>]
    /\ status' = [s \in Task |->
                    IF s \in ToSet(streams[k]) THEN "gone" ELSE status[s]]
    /\ UNCHANGED <<taskVars, locked>>

-----------------------------------------------------------------------------
Settles(t) == StreamOpens(t) \/ CreationFails(t)

Next ==
    \/ \E c \in Caller :
         GetStream(c) \/ AfterScheduled(c) \/ LockCreated(c) \/ Release(c)
    \/ \E j \in Job : PeerUpdate(j) \/ FinishJob(j)
    \/ \E t \in Task : Settles(t) \/ StreamCloses(t) \/ StreamGone(t)
    \/ \E k \in Conn : ConnectionOpens(k) \/ ConnectionDrops(k)

Spec == Init /\ [][Next]_vars

\* libp2p settles every newStream (its negotiation has a timeout), and the
\* event loop resumes every task whose promise is settled.
Fairness ==
    /\ \A t \in Task : WF_vars(Settles(t))
    /\ \A c \in Caller : WF_vars(AfterScheduled(c)) /\ WF_vars(LockCreated(c))
    /\ \A j \in Job : WF_vars(FinishJob(j))

FairSpec == Spec /\ Fairness

-----------------------------------------------------------------------------
(* What the stream manager keeps true.                                     *)

\* ongoingCreation admits one scheduled creation at a time, and is left when
\* that creation ends, whatever updates, failures and drops come meanwhile.
OneScheduledCreation ==
    /\ \A i, j \in Job :
         {pc[i], pc[j]} \subseteq {"creating", "created"} => i = j
    /\ ongoing <=> \E j \in Job : pc[j] \in {"creating", "created"}

\* A promise of streamPool is handed to one call of getStream.
PromiseTakenOnce ==
    \A c, d \in Caller :
      /\ awaited[c] # None /\ awaited[c] = awaited[d] => c = d
      /\ awaited[c] # None => awaited[c] # pool

\* A stream that getStream finds open goes to one call: two calls hold the
\* same stream only if one of them created it.
FoundStreamIsExclusive ==
    /\ \A c, d \in Caller :
         held[c] # None /\ held[c] = held[d] => c = d \/ held[c] \in {c, d}
    /\ \A c \in Caller : held[c] # None => held[c] \in locked

\* Every call of getStream returns a stream or throws.
GetStreamSettles ==
    \A c \in Caller : (pc[c] # "idle") ~> (pc[c] \in {"got", "released", "failed"})

\* stream_manager.spec.ts: "should return different streams if requested
\* simultaniously".
DifferentStreams ==
    \A c, d \in Caller : held[c] # None /\ held[c] = held[d] => c = d
=============================================================================
