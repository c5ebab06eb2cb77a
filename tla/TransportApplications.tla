------------------------ MODULE TransportApplications ------------------------
(***************************************************************************)
(* The applications of examples/ that keep something beyond a callback:    *)
(* DispatchedReceive.cs hands received leases to a processor over a        *)
(* bounded queue, RetainedEchoApplication.cs lends a lease to the write    *)
(* that echoes it, ServerPushApplication.cs keeps a registry of peers that *)
(* any thread may write to.  An engine runs one of them.                   *)
(*                                                                         *)
(* The engine is external: callbacks of one connection are serialized,     *)
(* those of different connections run concurrently, a retained payload is  *)
(* the application's until it disposes the lease, accepted writes complete *)
(* in order and before OnClosed, and a command on a connection that is     *)
(* terminal throws ObjectDisposedException.                                *)
(***************************************************************************)
EXTENDS Integers, Sequences, FiniteSets

CONSTANTS
    Connections,
    Chunks,         \* bound on the payloads each connection receives
    RetainLimit,    \* retained payloads the engine allows at a time
    QueueCapacity,  \* the bound of the channel (128)
    Broadcasters,   \* the threads that call Broadcast, once each
    NONE            \* no callback, no request, no holder

\* What a receive becomes: n is its payload's number, 0 when it brings none.
ReceivedRequests == [c : Connections, n : Nat, leased : BOOLEAN, completed : BOOLEAN]

ASSUME ApplicationAssumption ==
    /\ Chunks \in [Connections -> Nat] /\ QueueCapacity \in Nat \ {0} /\ RetainLimit \in Nat
    /\ NONE \notin Connections \cup Broadcasters \cup ReceivedRequests
    /\ Broadcasters \cap Nat = {}   \* the command of a broadcast is no payload's number

VARIABLES
    application,   \* "dispatch", "echo" or "push"
    \* the engine
    phase,         \* "new", "ready", "terminal" or "closed" (OnClosed has returned)
    arrived,       \* payloads a connection has received
    ended,         \* its last receive callback has come
    aborted,       \* Abort was called
    held,          \* the leases that are retained and not disposed
    writes,        \* accepted writes that have not completed
    submitted,     \* every command a connection accepted, in order
    \* DispatchedReceive
    offer,         \* the request an OnReceive has built and not yet queued
    queue, channel,
    processor,     \* what ProcessRequestsAsync is about to do, and its request
    \* ServerPush
    peers,         \* the registry
    peer_closed,   \* _closed of each ServerPeer
    lock,          \* the thread in its lock (_sync)
    marking,       \* OnClosed has removed the peer and not yet marked it
    thread         \* each Broadcast: its state, its snapshot and what is left of it

engine == <<application, phase, arrived, ended, aborted, held, writes, submitted>>
dispatch == <<offer, queue, channel, processor>>
push == <<peers, peer_closed, lock, marking, thread>>
vars == <<application, phase, arrived, ended, aborted, held, writes, submitted,
          offer, queue, channel, processor, peers, peer_closed, lock, marking, thread>>

Init ==
    /\ application \in {"dispatch", "echo", "push"}
    /\ phase = [c \in Connections |-> "new"]
    /\ arrived = [c \in Connections |-> 0]
    /\ ended = [c \in Connections |-> FALSE] /\ aborted = [c \in Connections |-> FALSE]
    /\ held = {}
    /\ writes = [c \in Connections |-> <<>>] /\ submitted = [c \in Connections |-> <<>>]
    /\ offer = [c \in Connections |-> NONE]
    /\ queue = <<>> /\ channel = "open" /\ processor = [at |-> "waiting", request |-> NONE]
    /\ peers = {} /\ peer_closed = [c \in Connections |-> FALSE]
    /\ lock = [c \in Connections |-> NONE] /\ marking = {}
    /\ thread = [t \in Broadcasters |-> [at |-> "idle", snapshot |-> {}, left |-> {}, peer |-> NONE]]

-----------------------------------------------------------------------------
(* What the applications do with a receive.                                *)

\* A lease is named by the payload it covers.
Leases == UNION {{c} \X (1..Chunks[c]) : c \in Connections}

\* TryRetainPayload may refuse, and does so at its limit.
MayRetain == IF Cardinality(held) < RetainLimit THEN BOOLEAN ELSE {FALSE}

\* The engine calls OnReceive: with a payload, with the end, or with both.
Receives(c, payload, completed) ==
    /\ phase[c] = "ready" /\ ~ended[c] /\ offer[c] = NONE
    /\ payload \/ completed
    /\ payload => arrived[c] < Chunks[c]
    /\ arrived' = [arrived EXCEPT ![c] = IF payload THEN @ + 1 ELSE @]
    /\ ended' = [ended EXCEPT ![c] = completed]

\* ReceivedRequest: Completed, FromLease or FromCopy.
Request(c, payload, retained, completed) ==
    [c |-> c, n |-> IF payload THEN arrived[c] + 1 ELSE 0,
     leased |-> payload /\ retained, completed |-> completed]

LeaseOf(request) == IF request.leased THEN {<<request.c, request.n>>} ELSE {}

DispatchReceives(c) ==
    /\ application = "dispatch"
    /\ \E payload, completed \in BOOLEAN, retained \in MayRetain :
          /\ Receives(c, payload, completed)
          /\ LET request == Request(c, payload, retained, completed)
             IN /\ offer' = [offer EXCEPT ![c] = request]
                /\ held' = held \cup LeaseOf(request)
    /\ UNCHANGED <<application, phase, aborted, writes, submitted, queue, channel, processor, push>>

CanWrite == channel = "open" /\ Len(queue) < QueueCapacity

Offered(c) ==
    /\ offer[c] # NONE /\ CanWrite
    /\ queue' = Append(queue, offer[c])
    /\ offer' = [offer EXCEPT ![c] = NONE]
    /\ UNCHANGED <<engine, channel, processor, push>>

\* Mutant of Refused: the request is dropped without its lease.
RefusedKeepsLease(c) ==
    /\ offer[c] # NONE /\ ~CanWrite
    /\ aborted' = [aborted EXCEPT ![c] = TRUE]
    /\ offer' = [offer EXCEPT ![c] = NONE]
    /\ UNCHANGED <<application, phase, arrived, ended, held, writes, submitted, queue, channel, processor, push>>

\* The queue is full or completed: the request is disposed, the connection aborted.
Refused(c) ==
    /\ offer[c] # NONE /\ ~CanWrite
    /\ held' = held \ LeaseOf(offer[c])
    /\ aborted' = [aborted EXCEPT ![c] = TRUE]
    /\ offer' = [offer EXCEPT ![c] = NONE]
    /\ UNCHANGED <<application, phase, arrived, ended, writes, submitted, queue, channel, processor, push>>

\* DisposeAsync: TryComplete, and then it waits for the processor.
DisposeAsync ==
    /\ application = "dispatch" /\ channel = "open"
    /\ channel' = "completed"
    /\ UNCHANGED <<engine, offer, queue, processor, push>>

-----------------------------------------------------------------------------
(* ProcessRequestsAsync, on a thread of its own.                           *)

At(at, request) == processor' = [at |-> at, request |-> request]

\* Mutant of TakesRequest: the newest request comes first.
TakesNewestRequest ==
    /\ processor.at = "waiting" /\ queue # <<>>
    /\ At(IF queue[Len(queue)].n > 0 THEN "handling" ELSE "ending", queue[Len(queue)])
    /\ queue' = SubSeq(queue, 1, Len(queue) - 1)
    /\ UNCHANGED <<engine, offer, channel, push>>

\* ReadAllAsync yields the next request; the handler starts on its buffer.
TakesRequest ==
    /\ processor.at = "waiting" /\ queue # <<>>
    /\ At(IF Head(queue).n > 0 THEN "handling" ELSE "ending", Head(queue))
    /\ queue' = Tail(queue)
    /\ UNCHANGED <<engine, offer, channel, push>>

\* Mutant of ProcessorEnds: what is queued at completion is dropped.
ProcessorEndsAtCompletion ==
    /\ processor.at = "waiting" /\ channel = "completed"
    /\ At("finished", NONE)
    /\ UNCHANGED <<engine, offer, queue, channel, push>>

\* The channel is completed and drained: the processor ends.
ProcessorEnds ==
    /\ processor.at = "waiting" /\ queue = <<>> /\ channel = "completed"
    /\ At("finished", NONE)
    /\ UNCHANGED <<engine, offer, queue, channel, push>>

Accepts(c) == phase[c] = "ready"

Submits(c, command) == submitted' = [submitted EXCEPT ![c] = Append(@, command)]

\* ShutdownWrite, among the payloads' numbers.
Shutdown == 0

\* A copying write keeps no lease.
Write(n, lease) == [n |-> n, lease |-> lease]

\* The handler has read the buffer and returns; its response is sent.
Responds ==
    LET request == processor.request
        c == request.c
    IN /\ processor.at = "handling" /\ Accepts(c)
       /\ Submits(c, request.n)
       /\ writes' = [writes EXCEPT ![c] = Append(@, Write(request.n, {}))]
       /\ At("ending", request)
       /\ UNCHANGED <<application, phase, arrived, ended, aborted, held, offer, queue, channel, push>>

\* ShutdownWrite after the last request; the using block disposes the request.
EndsRequest ==
    LET request == processor.request
    IN /\ processor.at = "ending"
       /\ IF request.completed
          THEN Accepts(request.c) /\ Submits(request.c, Shutdown)
          ELSE UNCHANGED submitted
       /\ held' = held \ LeaseOf(request)
       /\ At("waiting", NONE)
       /\ UNCHANGED <<application, phase, arrived, ended, aborted, writes, offer, queue, channel, push>>

\* Send or ShutdownWrite throws: the using block disposes the request, and the
\* exception, which nothing catches, ends the processor.
ProcessorFaults ==
    LET request == processor.request
    IN /\ \/ processor.at = "handling"
          \/ processor.at = "ending" /\ request.completed
       /\ ~Accepts(request.c)
       /\ held' = held \ LeaseOf(request)
       /\ At("faulted", NONE)
       /\ UNCHANGED <<application, phase, arrived, ended, aborted, writes, submitted,
                      offer, queue, channel, push>>

-----------------------------------------------------------------------------
(* RetainedEchoApplication.                                                *)

\* A command throws: the connection has become terminal during the callback,
\* and the exception that leaves the callback fails it as an abort does.
FailsIf(c, throws) ==
    /\ aborted' = [aborted EXCEPT ![c] = @ \/ throws]
    /\ phase' = IF throws THEN [phase EXCEPT ![c] = "terminal"] ELSE phase

\* Mutant of EchoReceives: the catch does not dispose the lease.
EchoReceivesLeaking(c) ==
    /\ application = "echo"
    /\ \E payload, completed, sent, shut \in BOOLEAN, retained \in MayRetain :
          LET request == Request(c, payload, retained, completed)
          IN /\ Receives(c, payload, completed)
             /\ sent => payload
             /\ shut => completed /\ sent = payload
             /\ held' = held \cup LeaseOf(request)
             /\ writes' = [writes EXCEPT ![c] =
                   @ \o IF sent THEN <<Write(request.n, LeaseOf(request))>> ELSE <<>>]
             /\ submitted' = [submitted EXCEPT ![c] =
                   @ \o (IF sent THEN <<request.n>> ELSE <<>>) \o (IF shut THEN <<Shutdown>> ELSE <<>>)]
             /\ FailsIf(c, sent # payload \/ shut # completed)
    /\ UNCHANGED <<application, dispatch, push>>

\* The whole callback: a retained payload is lent to the write that echoes it
\* and any other is copied, then the end is answered; a command that throws
\* fails the connection, after the catch has disposed the lease.
EchoReceives(c) ==
    /\ application = "echo"
    /\ \E payload, completed, sent, shut \in BOOLEAN, retained \in MayRetain :
          LET request == Request(c, payload, retained, completed)
          IN /\ Receives(c, payload, completed)
             /\ sent => payload
             /\ shut => completed /\ sent = payload
             /\ held' = held \cup IF sent THEN LeaseOf(request) ELSE {}
             /\ writes' = [writes EXCEPT ![c] =
                   @ \o IF sent THEN <<Write(request.n, LeaseOf(request))>> ELSE <<>>]
             /\ submitted' = [submitted EXCEPT ![c] =
                   @ \o (IF sent THEN <<request.n>> ELSE <<>>) \o (IF shut THEN <<Shutdown>> ELSE <<>>)]
             /\ FailsIf(c, sent # payload \/ shut # completed)
    /\ UNCHANGED <<application, dispatch, push>>

\* OnWriteCompleted, of either application: the lease that was lent goes, an
\* error aborts the connection.
WriteCompleted(c) ==
    /\ writes[c] # <<>> /\ offer[c] = NONE
    /\ writes' = [writes EXCEPT ![c] = Tail(@)]
    /\ held' = held \ Head(writes[c]).lease
    /\ \E error \in BOOLEAN : aborted' = [aborted EXCEPT ![c] = @ \/ error]
    /\ UNCHANGED <<application, phase, arrived, ended, submitted, dispatch, push>>

-----------------------------------------------------------------------------
(* ServerPushApplication.                                                  *)

\* OnReady: a new ServerPeer enters the registry.
OnReady(c) ==
    /\ phase[c] = "new"
    /\ phase' = [phase EXCEPT ![c] = "ready"]
    /\ peers' = IF application = "push" THEN peers \cup {c} ELSE peers
    /\ UNCHANGED <<application, arrived, ended, aborted, held, writes, submitted, dispatch,
                   peer_closed, lock, marking, thread>>

\* The connection ends, for any reason: from here its commands throw.
Terminates(c) ==
    /\ phase[c] = "ready"
    /\ phase' = [phase EXCEPT ![c] = "terminal"]
    /\ UNCHANGED <<application, arrived, ended, aborted, held, writes, submitted, dispatch, push>>

MayClose(c) == phase[c] = "terminal" /\ writes[c] = <<>> /\ offer[c] = NONE

\* OnClosed of an application that does not override it.
Closes(c) ==
    /\ application # "push" /\ MayClose(c)
    /\ phase' = [phase EXCEPT ![c] = "closed"]
    /\ UNCHANGED <<application, arrived, ended, aborted, held, writes, submitted, dispatch, push>>

\* OnClosed: TryRemove takes the peer out of the registry ...
RemovesPeer(c) ==
    /\ application = "push" /\ MayClose(c) /\ c \notin marking
    /\ peers' = peers \ {c}
    /\ marking' = marking \cup {c}
    /\ UNCHANGED <<engine, dispatch, peer_closed, lock, thread>>

\* Mutant of MarkClosed: the peer is marked without its lock.
MarkClosedUnlocked(c) ==
    /\ c \in marking
    /\ peer_closed' = [peer_closed EXCEPT ![c] = TRUE]
    /\ phase' = [phase EXCEPT ![c] = "closed"]
    /\ marking' = marking \ {c}
    /\ UNCHANGED <<application, arrived, ended, aborted, held, writes, submitted, dispatch,
                   peers, lock, thread>>

\* ... and MarkClosed marks it under its lock; OnClosed returns.
MarkClosed(c) ==
    /\ c \in marking /\ lock[c] = NONE
    /\ peer_closed' = [peer_closed EXCEPT ![c] = TRUE]
    /\ phase' = [phase EXCEPT ![c] = "closed"]
    /\ marking' = marking \ {c}
    /\ UNCHANGED <<application, arrived, ended, aborted, held, writes, submitted, dispatch,
                   peers, lock, thread>>

\* Broadcast enumerates a snapshot of the registry's values.
Broadcasts(t) ==
    /\ application = "push" /\ thread[t].at = "idle"
    /\ thread' = [thread EXCEPT ![t] = [at |-> "next", snapshot |-> peers, left |-> peers, peer |-> NONE]]
    /\ UNCHANGED <<engine, dispatch, peers, peer_closed, lock, marking>>

\* ServerPeer.Send of the next peer takes its lock; a closed peer is skipped.
EntersPeer(t, c) ==
    /\ thread[t].at = "next" /\ c \in thread[t].left /\ lock[c] = NONE
    /\ IF peer_closed[c]
       THEN /\ thread' = [thread EXCEPT ![t].left = @ \ {c}]
            /\ UNCHANGED lock
       ELSE /\ thread' = [thread EXCEPT ![t].left = @ \ {c}, ![t].at = "sending", ![t].peer = c]
            /\ lock' = [lock EXCEPT ![c] = t]
    /\ UNCHANGED <<engine, dispatch, peers, peer_closed, marking>>

\* Mutant of LeavesPeer: an exception is not caught.
LeavesPeerThrowing(t) ==
    LET c == thread[t].peer
    IN /\ thread[t].at = "sending"
       /\ IF Accepts(c)
          THEN Submits(c, t) ELSE UNCHANGED submitted
       /\ UNCHANGED peer_closed
       /\ thread' = [thread EXCEPT ![t].at = IF Accepts(c) THEN "next" ELSE "failed", ![t].peer = NONE]
       /\ lock' = [lock EXCEPT ![c] = NONE]
       /\ UNCHANGED <<application, phase, arrived, ended, aborted, held, writes, dispatch, peers, marking>>

\* Connection.Send is accepted, or it throws and the peer is closed from now on;
\* the lock is released.
LeavesPeer(t) ==
    LET c == thread[t].peer
    IN /\ thread[t].at = "sending"
       /\ IF Accepts(c)
          THEN Submits(c, t) /\ UNCHANGED peer_closed
          ELSE peer_closed' = [peer_closed EXCEPT ![c] = TRUE] /\ UNCHANGED submitted
       /\ thread' = [thread EXCEPT ![t].at = "next", ![t].peer = NONE]
       /\ lock' = [lock EXCEPT ![c] = NONE]
       /\ UNCHANGED <<application, phase, arrived, ended, aborted, held, writes, dispatch, peers, marking>>

BroadcastEnds(t) ==
    /\ thread[t].at = "next" /\ thread[t].left = {}
    /\ thread' = [thread EXCEPT ![t].at = "done"]
    /\ UNCHANGED <<engine, dispatch, peers, peer_closed, lock, marking>>

-----------------------------------------------------------------------------
Processor == TakesRequest \/ ProcessorEnds \/ Responds \/ EndsRequest \/ ProcessorFaults

Callback(c) == DispatchReceives(c) \/ Offered(c) \/ Refused(c) \/ EchoReceives(c) \/ WriteCompleted(c)
                   \/ OnReady(c) \/ Closes(c) \/ RemovesPeer(c) \/ MarkClosed(c)

Broadcasting(t) == Broadcasts(t) \/ (\E c \in Connections : EntersPeer(t, c)) \/ LeavesPeer(t) \/ BroadcastEnds(t)

Next ==
    \/ DisposeAsync \/ Processor
    \/ \E c \in Connections : Callback(c) \/ Terminates(c)
    \/ \E t \in Broadcasters : Broadcasting(t)

Spec == Init /\ [][Next]_vars

(***************************************************************************)
(* Threads that can go on do, a handler returns, and the engine completes  *)
(* the writes it accepted.  No peer has to send or to close, and nobody to *)
(* dispose the application.                                                *)
(***************************************************************************)
Fairness ==
    /\ WF_vars(Processor)
    /\ \A c \in Connections : WF_vars(Offered(c) \/ Refused(c)) /\ WF_vars(WriteCompleted(c))

FairSpec == Spec /\ Fairness

-----------------------------------------------------------------------------
(* Properties.                                                             *)

\* Where a lease will be read or disposed from: a callback, the queue, the
\* processor or a write in flight.
Holders(l) ==
    {<<"offer", c>> : c \in {c \in Connections : offer[c] # NONE /\ l \in LeaseOf(offer[c])}}
        \cup {<<"queue", i>> : i \in {i \in DOMAIN queue : l \in LeaseOf(queue[i])}}
        \cup {<<"processor", 0>> : r \in {r \in {processor.request} \ {NONE} : l \in LeaseOf(r)}}
        \cup {<<"write", i>> : i \in {i \in DOMAIN writes[l[1]] : l \in writes[l[1]][i].lease}}

\* A retained payload has exactly one holder until it is disposed, and none
\* from then on: nothing reads or sends a lease that was returned, none is
\* lost in a queue that is full or completed, in a command that throws, or
\* with a connection that closes while its payload is queued or lent.
LeasesHeldOnce ==
    \A l \in Leases : Cardinality(Holders(l)) = IF l \in held THEN 1 ELSE 0

\* Replies are submitted in the order of the payloads they answer, each once,
\* with gaps only once the connection is aborted, and nothing after the end:
\* although receives, processing and writes progress independently.
RepliesInOrder ==
    \A c \in Connections : application # "push" =>
        \A i \in DOMAIN submitted[c] :
            IF submitted[c][i] = Shutdown
            THEN ended[c] /\ i = Len(submitted[c]) /\ (~aborted[c] => i = arrived[c] + 1)
            ELSE /\ submitted[c][i] >= i
                 /\ ~aborted[c] => submitted[c][i] = i
                 /\ i > 1 => submitted[c][i - 1] < submitted[c][i]

Times(c, t) == Cardinality({i \in DOMAIN submitted[c] : submitted[c][i] = t})

\* A broadcast reaches every peer of its snapshot once unless that peer
\* closed, throws for none of them, and writes to a connection neither while
\* another thread does nor once its OnClosed has returned.
BroadcastReachesPeers ==
    \A t \in Broadcasters :
        /\ thread[t].at # "failed"
        /\ \A c \in thread[t].snapshot \ thread[t].left :
              Times(c, t) = 1 \/ peer_closed[c] \/ thread[t].peer = c
        /\ thread[t].at = "sending" =>
              /\ phase[thread[t].peer] # "closed"
              /\ \A u \in Broadcasters \ {t} : thread[u].peer # thread[t].peer
        /\ \A c \in Connections : Times(c, t) <= 1

\* A lease is returned in the end, whatever happens to its connection, unless
\* the processor faulted: then nothing takes the queued requests any more.
LeasesReturned ==
    \A l \in Leases : (l \in held) ~> (l \notin held \/ processor.at = "faulted")
=============================================================================
