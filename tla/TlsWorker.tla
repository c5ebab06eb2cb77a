----------------------------- MODULE TlsWorker ------------------------------
(***************************************************************************)
(* What the TLS workers of experiments/io-uring-http have in common: the   *)
(* ring, the listener, connections and their references, the loop of       *)
(* drive() and the worker's end, with the kernel and the peers.  They      *)
(* differ in how a connection waits for its peer; TlsBio, TlsFd, TlsFdPoll *)
(* and TlsFdHybrid extend this module with that.                           *)
(*                                                                         *)
(* A worker is one thread.  Each completion is an action, and so is each   *)
(* iteration of the loop in drive(): between two calls of OpenSSL the      *)
(* kernel may do something and a signal may come.                          *)
(***************************************************************************)
EXTENDS TlsEngine

CONSTANTS
    Fds,           \* the descriptors accept can return
    QueueDepth,    \* entries of the submission queue
    SendBuffer,    \* units a socket holds that its peer has not read
    Scripts,       \* the records peers may send
    MaxArrivals,   \* bound on the connections accepted in a behaviour
    Environment    \* what may happen in a behaviour, beyond the usual

EnvironmentEvents ==
    {"signal",          \* SIGINT or SIGTERM
     "accept_error",
     "operation_error", \* a poll, receive or send fails
     "eof", "reset",    \* a peer leaves, wherever it is
     "fragments",       \* records arrive and leave in smaller pieces
     "multishot_ends"}  \* a multishot operation ends with a successful CQE

ASSUME WorkerAssumption ==
    /\ Environment \subseteq EnvironmentEvents
    /\ NULL \notin Fds /\ IsFiniteSet(Fds)
    /\ QueueDepth \in Nat \ {0} /\ SendBuffer \in Nat \ {0} /\ MaxArrivals \in Nat
    /\ Scripts \subseteq Seq(PeerRecord)

VARIABLES
    \* the worker
    pc,                 \* "loop", "wait", "reap", "drive", "events" or "exited"
    task,               \* the connection that is driven, and what follows
    stopping, shutdown_started, accept_active, accept_cancel_active,
    connections,        \* the list of connections, by descriptor
    conn,               \* what the connection of each descriptor holds
    ssl,                \* and its SSL
    sq,                 \* operations prepared and not yet submitted
    \* the kernel and the peers
    kernel,             \* operations submitted and not yet terminated
    doomed,             \* those of them a cancel has found
    cq,                 \* the completion queue
    open,               \* open connection descriptors
    arrivals,           \* connections accepted so far
    socket              \* both directions of the connection of each descriptor

listening == <<accept_active, accept_cancel_active>>
worker == <<pc, task, stopping, shutdown_started, accept_active, accept_cancel_active,
            connections, conn, ssl>>
vars == <<pc, task, stopping, shutdown_started, accept_active, accept_cancel_active,
          connections, conn, ssl, sq, kernel, doomed, cq, open, arrivals, socket>>

-----------------------------------------------------------------------------
(* Operations, completions, connections.                                   *)

Input(c)        == <<"input", c>>
Output(c)       == <<"output", c>>
CancelInput(c)  == <<"cancel_input", c>>
CancelOutput(c) == <<"cancel_output", c>>
AcceptOp     == <<"accept", NULL>>
CancelAccept == <<"cancel_accept", NULL>>
EpollOp      == <<"epoll", NULL>>
CancelEpoll  == <<"cancel_epoll", NULL>>

ConnectionOps(c) == {Input(c), Output(c), CancelInput(c), CancelOutput(c)}
Operations == (UNION {ConnectionOps(c) : c \in Fds})
                  \cup {AcceptOp, CancelAccept, EpollOp, CancelEpoll}

Target == [op \in {CancelInput(c) : c \in Fds} \cup {CancelOutput(c) : c \in Fds}
                     \cup {CancelAccept, CancelEpoll} |->
              CASE op[1] = "cancel_input"  -> Input(op[2])
                [] op[1] = "cancel_output" -> Output(op[2])
                [] op[1] = "cancel_accept" -> AcceptOp
                [] op[1] = "cancel_epoll"  -> EpollOp]
Cancels == DOMAIN Target

\* more is IORING_CQE_F_MORE; count is what was received or sent.
Cqe(op, res, more) == [op |-> op, res |-> res, more |-> more, fd |-> NULL, count |-> 0]
Cqes == [op : Operations, res : {"ok", "eof", "error", "canceled"}, more : BOOLEAN,
         fd : Fds \cup {NULL}, count : Nat]

Phases == {"handshake", "reading", "writing", "shutting_down", "draining"}

\* Fields of one variant only: waiting_write (tls-fd-poll), poll_registered
\* (tls-fd-hybrid), poll_events (fd variants), and of tls-bio: fed, the pieces
\* written to read_bio, staged, the units read from write_bio, and wire_length
\* and wire_offset, of the last of them, which are in wire_output.
Connection == [dead : BOOLEAN, references : Nat, input_active : BOOLEAN,
               output_active : BOOLEAN, input_cancelled : BOOLEAN, output_cancelled : BOOLEAN,
               close_after : BOOLEAN, read_eof : BOOLEAN, phase : Phases,
               input : Seq(Line), reply : Replies \cup {NULL},
               waiting_write : BOOLEAN, poll_registered : BOOLEAN,
               poll_events : {"in", "out"}, fed : Nat, staged : Nat,
               wire_length : Nat, wire_offset : Nat]

\* calloc, and what start_connection sets.
NewConnection == [dead |-> FALSE, references |-> 1, input_active |-> FALSE,
                  output_active |-> FALSE, input_cancelled |-> FALSE,
                  output_cancelled |-> FALSE, close_after |-> FALSE, read_eof |-> FALSE,
                  phase |-> "handshake", input |-> <<>>, reply |-> NULL,
                  waiting_write |-> FALSE, poll_registered |-> FALSE,
                  poll_events |-> "in", fed |-> 0, staged |-> 0,
                  wire_length |-> 0, wire_offset |-> 0]

\* What is left of a connection that was freed.
Freed == [NewConnection EXCEPT !.references = 0]

\* Both directions of a connection: what the peer sends, how many pieces of it
\* have arrived and what is behind them; how much of what it was sent it has read.
Socket == [script : Scripts \cup {<<>>}, arrived : Nat, behind : {"more", "eof", "reset"},
           read : Nat]
NoSocket == [script |-> <<>>, arrived |-> 0, behind |-> "more", read |-> 0]

\* What drive() was called for: then is "release" after the last CQE of an
\* operation, "keep" after another one (tls-fd-poll), "accept" after
\* start_connection, "events" after epoll_wait (tls-fd-hybrid).
Task(c, then) == [fd |-> c, then |-> then]
NoTask == Task(NULL, "none")
Tasks == [fd : Fds \cup {NULL}, then : {"none", "release", "keep", "accept", "events"}]

-----------------------------------------------------------------------------
(***************************************************************************)
(* The functions under complete().  d holds what they change: connection k *)
(* of descriptor fd with its SSL s, and the operations prepared (sq) and   *)
(* submitted (kernel).                                                     *)
(***************************************************************************)
Context(c) == [fd |-> c, k |-> conn[c], s |-> ssl[c], sq |-> sq, kernel |-> kernel]

\* get_sqe: a full submission queue is submitted first.
GetSqe(d, op) ==
    IF Cardinality(d.sq) < QueueDepth
    THEN [d EXCEPT !.sq = @ \cup {op}]
    ELSE [d EXCEPT !.sq = {op}, !.kernel = @ \cup d.sq]

\* An operation of the connection holds a reference.
Prepare(d, op) == [GetSqe(d, op) EXCEPT !.k.references = @ + 1]

SubmitInput(d, events) ==
    [Prepare(d, Input(d.fd)) EXCEPT !.k.input_active = TRUE, !.k.poll_events = events]

\* Mutant of SubmitOutput: no reference is taken.
SubmitOutputUnreferenced(d) == [GetSqe(d, Output(d.fd)) EXCEPT !.k.output_active = TRUE]

SubmitOutput(d) == [Prepare(d, Output(d.fd)) EXCEPT !.k.output_active = TRUE]

Release(d) == [d EXCEPT !.k.references = @ - 1]

FinishInput(d) ==
    IF d.k.input_active /\ ~d.k.input_cancelled
    THEN [Prepare(d, CancelInput(d.fd)) EXCEPT !.k.input_cancelled = TRUE] ELSE d

FinishOutput(d) ==
    IF d.k.output_active /\ ~d.k.output_cancelled
    THEN [Prepare(d, CancelOutput(d.fd)) EXCEPT !.k.output_cancelled = TRUE] ELSE d

\* Mutant of Finish: a dead connection is finished again.
FinishAgain(d) ==
    Release(FinishOutput(FinishInput([d EXCEPT !.k.dead = TRUE, !.k.poll_registered = FALSE])))

\* finish: shut the socket, which epoll forgets, cancel what is in flight, drop
\* the owner.
Finish(d) ==
    IF d.k.dead THEN d
    ELSE Release(FinishOutput(FinishInput(
             [d EXCEPT !.k.dead = TRUE, !.k.poll_registered = FALSE])))

\* The state after a function that ended with context d.  release() unlinks,
\* closes and frees the connection with its last reference.
Store(d) ==
    /\ sq' = d.sq /\ kernel' = d.kernel
    /\ conn' = [conn EXCEPT ![d.fd] = IF d.k.references = 0 THEN Freed ELSE d.k]
    /\ ssl' = [ssl EXCEPT ![d.fd] = IF d.k.references = 0 THEN NewSsl ELSE d.s]
    /\ connections' = IF d.k.references = 0 THEN connections \ {d.fd} ELSE connections
    /\ open' = IF d.k.references = 0 THEN open \ {d.fd} ELSE open

-----------------------------------------------------------------------------
(* One iteration of the loop in drive().                                   *)

\* The request in the input; nothing more comes after read_eof.
Parsed(k) == AtEndOfStream(ParseRequest(k.input), k.read_eof)

\* Mutant of StartReply: the request stays in the input.
StartReplyKeeping(k, parsed) ==
    LET rejected == parsed.verdict = "reject"
        rest     == IF rejected THEN <<>> ELSE SubSeq(k.input, parsed.length + 1, Len(k.input))
        close_after == rejected \/ parsed.close_after \/ (k.read_eof /\ rest = <<>>)
    IN [k EXCEPT !.close_after = close_after,
                 !.reply = IF rejected THEN "bad_request"
                           ELSE Response(parsed.http10, close_after),
                 !.phase = "writing"]

StartReply(k, parsed) ==
    LET rejected == parsed.verdict = "reject"
        rest     == IF rejected THEN <<>> ELSE SubSeq(k.input, parsed.length + 1, Len(k.input))
        close_after == rejected \/ parsed.close_after \/ (k.read_eof /\ rest = <<>>)
    IN [k EXCEPT !.input = rest,
                 !.close_after = close_after,
                 !.reply = IF rejected THEN "bad_request"
                           ELSE Response(parsed.http10, close_after),
                 !.phase = "writing"]

\* Mutant of ParseInput: the next request is parsed during a write.
ParseInputWriting(k) ==
    IF k.phase \notin {"reading", "writing"} THEN k
    ELSE IF k.read_eof /\ k.input = <<>> THEN [k EXCEPT !.phase = "shutting_down"]
    ELSE IF Parsed(k).verdict = "incomplete" THEN k
    ELSE StartReply(k, Parsed(k))

\* Before OpenSSL is called: a connection that reads and has a request, or
\* whose peer has ended its stream, changes its phase.
ParseInput(k) ==
    IF k.phase # "reading" THEN k
    ELSE IF k.read_eof /\ k.input = <<>> THEN [k EXCEPT !.phase = "shutting_down"]
    ELSE IF Parsed(k).verdict = "incomplete" THEN k
    ELSE StartReply(k, Parsed(k))

Perform(k, s, bios) ==
    CASE k.phase = "handshake"     -> DoHandshake(s, bios)
      [] k.phase = "reading"       -> SslRead(s, bios, InputCapacity - Len(k.input))
      [] k.phase = "writing"       -> SslWrite(s, bios, k.reply)
      [] k.phase = "shutting_down" -> SslShutdown(s, bios)

\* Mutant of Succeeded: a closing reply ends the dialogue.
SucceededWithoutNotify(k, lines) ==
    CASE k.phase = "handshake"     -> [k EXCEPT !.phase = "reading"]
      [] k.phase = "reading"       -> [k EXCEPT !.input = @ \o lines]
      [] k.phase = "writing"       -> [k EXCEPT !.phase = IF k.close_after THEN "draining"
                                                                          ELSE "reading"]
      [] k.phase = "shutting_down" -> [k EXCEPT !.phase = "draining"]

Succeeded(k, lines) ==
    CASE k.phase = "handshake"     -> [k EXCEPT !.phase = "reading"]
      [] k.phase = "reading"       -> [k EXCEPT !.input = @ \o lines]
      [] k.phase = "writing"       -> [k EXCEPT !.phase = IF k.close_after THEN "shutting_down"
                                                                          ELSE "reading"]
      [] k.phase = "shutting_down" -> [k EXCEPT !.phase = "draining"]

\* SSL_ERROR_ZERO_RETURN: the peer's close_notify was read.
StreamEnded(k) ==
    [k EXCEPT !.read_eof = TRUE, !.phase = IF @ = "reading" THEN @ ELSE "shutting_down"]

\* What one iteration does to the connection, and how the call of OpenSSL
\* ended: "ok" and "zero_return" continue the loop.
Applied(d, k, r) ==
    [verdict |-> r.verdict, performed |-> k.phase,
     d |-> [d EXCEPT !.s = r.s,
                     !.k = CASE r.verdict = "ok" -> Succeeded(k, r.lines)
                             [] r.verdict = "zero_return" -> StreamEnded(k)
                             [] OTHER -> k]]

CallOpenSsl(d, k, bios) == Applied(d, k, Perform(k, d.s, bios))

Iteration(d, bios) == CallOpenSsl(d, ParseInput(d.k), bios)
Continues(i) == i.verdict \in {"ok", "zero_return"}

\* The loop goes on ...
Continue(d) ==
    /\ Store(d)
    /\ UNCHANGED <<pc, task, accept_active>>

\* Mutant of Leave: the listener is submitted although it is active.
LeaveListenerTwice(d) ==
    LET rearm == task.then = "accept" /\ ~stopping
    IN /\ task' = NoTask
       /\ pc' = IF task.then = "events" THEN "events" ELSE "reap"
       /\ accept_active' = (accept_active \/ rearm)
       /\ CASE task.then = "release" -> Store(Release(d))
            [] task.then = "accept" -> Store(IF rearm THEN GetSqe(d, AcceptOp) ELSE d)
            [] task.then \in {"keep", "events"} -> Store(d)

\* ... or drive() returns to complete(), which releases the reference of the
\* operation that ended, or submits the listener again if that has ended.
Leave(d) ==
    LET rearm == task.then = "accept" /\ ~accept_active /\ ~stopping
    IN /\ task' = NoTask
       /\ pc' = IF task.then = "events" THEN "events" ELSE "reap"
       /\ accept_active' = (accept_active \/ rearm)
       /\ CASE task.then = "release" -> Store(Release(d))
            [] task.then = "accept" -> Store(IF rearm THEN GetSqe(d, AcceptOp) ELSE d)
            [] task.then \in {"keep", "events"} -> Store(d)

Driving(c) == pc = "drive" /\ task.fd = c

-----------------------------------------------------------------------------
(* complete, for the operations all variants have.                         *)

\* io_uring_for_each_cqe hands the oldest CQE to complete.
Completes(kind) ==
    /\ pc \in {"wait", "reap"}
    /\ cq # <<>>
    /\ Head(cq).op[1] = kind
    /\ cq' = Tail(cq)
    /\ UNCHANGED <<shutdown_started, accept_cancel_active, doomed, arrivals, socket>>

\* start_connection, and on to drive().
AcceptedConnection ==
    LET cqe == Head(cq)
    IN /\ Completes("accept")
       /\ cqe.res = "ok" /\ ~stopping
       /\ accept_active' = (accept_active /\ cqe.more)
       /\ connections' = connections \cup {cqe.fd}
       /\ conn' = [conn EXCEPT ![cqe.fd] = NewConnection]
       /\ ssl' = [ssl EXCEPT ![cqe.fd] = NewSsl]
       /\ pc' = "drive" /\ task' = Task(cqe.fd, "accept")
       /\ UNCHANGED <<stopping, sq, kernel, open>>

\* Mutant of AcceptedWhileStopping: its descriptor is not closed.
AcceptedWhileStoppingLeaks ==
    /\ Completes("accept")
    /\ Head(cq).res = "ok" /\ stopping
    /\ accept_active' = (accept_active /\ Head(cq).more)
    /\ pc' = "reap"
    /\ UNCHANGED <<task, stopping, connections, conn, ssl, sq, kernel, open>>

AcceptedWhileStopping ==
    /\ Completes("accept")
    /\ Head(cq).res = "ok" /\ stopping
    /\ accept_active' = (accept_active /\ Head(cq).more)
    /\ open' = open \ {Head(cq).fd}
    /\ pc' = "reap"
    /\ UNCHANGED <<task, stopping, connections, conn, ssl, sq, kernel>>

\* An accept that fails stops the worker; a cancelled one ends.
AcceptEnded ==
    /\ Completes("accept")
    /\ Head(cq).res \in {"error", "canceled"}
    /\ accept_active' = FALSE
    /\ stopping' = (stopping \/ Head(cq).res = "error")
    /\ pc' = "reap"
    /\ UNCHANGED <<task, connections, conn, ssl, sq, kernel, open>>

CancelAcceptCompleted ==
    /\ pc \in {"wait", "reap"} /\ cq # <<>>
    /\ Head(cq).op = CancelAccept
    /\ cq' = Tail(cq)
    /\ accept_cancel_active' = FALSE
    /\ pc' = "reap"
    /\ UNCHANGED <<task, stopping, shutdown_started, accept_active, connections, conn, ssl,
                   sq, kernel, doomed, open, arrivals, socket>>

\* A completion that ends with release(c).
Concludes(d) ==
    /\ Store(d)
    /\ pc' = "reap"
    /\ UNCHANGED <<task, stopping, accept_active>>

\* A completion that calls drive(c).
Drives(d, then) ==
    /\ Store(d)
    /\ pc' = "drive" /\ task' = Task(d.fd, then)
    /\ UNCHANGED <<stopping, accept_active>>

CancelCompleted(c) ==
    /\ \/ Completes("cancel_input")
       \/ Completes("cancel_output")
    /\ Head(cq).op[2] = c
    /\ Concludes(Release(Context(c)))

Listen == AcceptedConnection \/ AcceptedWhileStopping \/ AcceptEnded \/ CancelAcceptCompleted

-----------------------------------------------------------------------------
(* main                                                                    *)

Init ==
    /\ pc = "loop" /\ task = NoTask /\ stopping = FALSE /\ shutdown_started = FALSE
    /\ accept_active = TRUE /\ accept_cancel_active = FALSE
    /\ connections = {} /\ conn = [c \in Fds |-> Freed] /\ ssl = [c \in Fds |-> NewSsl]
    /\ sq = {AcceptOp} /\ kernel = {} /\ doomed = {} /\ cq = <<>>
    /\ open = {} /\ arrivals = 0
    /\ socket = [c \in Fds |-> NoSocket]

\* The condition of main's loop.
Draining == accept_active \/ accept_cancel_active \/ connections # {}

\* finish() of every connection in the list.  What it prepares is submitted in
\* the same iteration of main, so get_sqe's early submission makes no difference.
Finished(c) == Finish([Context(c) EXCEPT !.sq = {}, !.kernel = {}])

\* Mutant of FinishedAll: idle connections are left to themselves.
FinishedAllButIdle ==
    [c \in connections |-> IF conn[c].phase = "reading" THEN [Context(c) EXCEPT !.sq = {}, !.kernel = {}]
                                                        ELSE Finished(c)]

FinishedAll == [c \in connections |-> Finished(c)]

\* The first time around after a signal.  cancels are those of operations that
\* belong to no connection.
StartShutdown(draining, cancels) ==
    LET finished == FinishedAll
        freed    == {c \in connections : finished[c].k.references = 0}
    IN /\ pc = "loop" /\ draining
       /\ stopping /\ ~shutdown_started
       /\ shutdown_started' = TRUE
       /\ accept_cancel_active' = (accept_active \/ accept_cancel_active)
       /\ conn' = [c \in Fds |-> IF c \in freed THEN Freed
                                 ELSE IF c \in connections THEN finished[c].k ELSE conn[c]]
       /\ ssl' = [c \in Fds |-> IF c \in freed THEN NewSsl ELSE ssl[c]]
       /\ connections' = connections \ freed
       /\ open' = open \ freed
       /\ kernel' = kernel \cup sq \cup (IF accept_active THEN {CancelAccept} ELSE {}) \cup cancels
                        \cup UNION {finished[c].sq \cup finished[c].kernel : c \in connections}
       /\ sq' = {}
       /\ pc' = "wait"
       /\ UNCHANGED <<task, stopping, accept_active, doomed, cq, arrivals, socket>>

\* Any other iteration submits what the completions prepared.
Submit(draining) ==
    /\ pc = "loop" /\ draining
    /\ stopping => shutdown_started
    /\ kernel' = kernel \cup sq
    /\ sq' = {}
    /\ pc' = "wait"
    /\ UNCHANGED <<task, stopping, shutdown_started, listening, connections, conn, ssl,
                   doomed, cq, open, arrivals, socket>>

\* io_uring_submit returns -EINTR: the signal came after `stopping' was tested,
\* nothing was submitted, and the worker goes to wait.
SubmitInterrupted(draining) ==
    /\ pc = "loop" /\ draining
    /\ ~stopping /\ "signal" \in Environment
    /\ stopping' = TRUE
    /\ pc' = "wait"
    /\ UNCHANGED <<task, shutdown_started, listening, connections, conn, ssl, sq, kernel,
                   doomed, cq, open, arrivals, socket>>

\* The wait times out, or the batch of CQEs is complete.
NoCqeLeft ==
    /\ pc \in {"wait", "reap"} /\ cq = <<>>
    /\ pc' = "loop"
    /\ UNCHANGED <<task, stopping, shutdown_started, listening, connections, conn, ssl,
                   sq, kernel, doomed, cq, open, arrivals, socket>>

\* Nothing is left to drain: main frees the ring and returns.
Exit(draining) ==
    /\ pc = "loop" /\ ~draining
    /\ pc' = "exited"
    /\ UNCHANGED <<task, stopping, shutdown_started, listening, connections, conn, ssl,
                   sq, kernel, doomed, cq, open, arrivals, socket>>

\* signal_stop, at any time; it may also interrupt the wait.
SignalStop ==
    /\ ~stopping /\ pc # "exited" /\ "signal" \in Environment
    /\ stopping' = TRUE
    /\ pc' \in {pc} \cup (IF pc = "wait" THEN {"loop"} ELSE {})
    /\ UNCHANGED <<task, shutdown_started, listening, connections, conn, ssl, sq, kernel,
                   doomed, cq, open, arrivals, socket>>

-----------------------------------------------------------------------------
(***************************************************************************)
(* The kernel and the peers: external, from how the workers use them.      *)
(***************************************************************************)
Post(cqe) == cq' = Append(cq, cqe)

\* op has posted its last CQE.
Terminate(op) == kernel' = kernel \ {op} /\ doomed' = doomed \ {op}
EndUnlessMore(op, more) == IF more THEN UNCHANGED <<kernel, doomed>> ELSE Terminate(op)

Completed(cqe) ==
    /\ Post(cqe) /\ EndUnlessMore(cqe.op, cqe.more)
    /\ UNCHANGED <<worker, sq, open, arrivals>>

\* Whether a CQE of a multishot operation leaves it armed.
MayContinue == {TRUE} \cup (IF "multishot_ends" \in Environment THEN {FALSE} ELSE {})

KernelAccepts(c) ==
    /\ AcceptOp \in kernel
    /\ c \notin open /\ arrivals < MaxArrivals
    /\ \E more \in MayContinue, script \in Scripts :
          /\ Post([Cqe(AcceptOp, "ok", more) EXCEPT !.fd = c])
          /\ EndUnlessMore(AcceptOp, more)
          /\ socket' = [socket EXCEPT ![c] = [NoSocket EXCEPT !.script = script]]
    /\ open' = open \cup {c} /\ arrivals' = arrivals + 1
    /\ UNCHANGED <<worker, sq>>

KernelAcceptFails ==
    /\ AcceptOp \in kernel /\ "accept_error" \in Environment
    /\ Completed(Cqe(AcceptOp, "error", FALSE))
    /\ UNCHANGED socket

\* An operation of a connection fails, whatever it waits for.
KernelFails(op) ==
    /\ op \in kernel /\ op[1] \in {"input", "output"} /\ "operation_error" \in Environment
    /\ Completed(Cqe(op, "error", FALSE))
    /\ UNCHANGED socket

\* A cancel looks for its target: from here on the target is doomed, ...
KernelFindsTarget(op) ==
    /\ op \in kernel \cap Cancels
    /\ Target[op] \in kernel \ doomed
    /\ doomed' = doomed \cup {Target[op]}
    /\ UNCHANGED <<worker, sq, kernel, cq, open, arrivals, socket>>

\* ... and ends with -ECANCELED before or after the cancel itself completes,
\* unless a result it already had overtakes that.
KernelEndsTarget(op) ==
    /\ op \in doomed
    /\ Completed(Cqe(op, "canceled", FALSE))
    /\ UNCHANGED socket

\* The cancel completes, with 0 or with -ENOENT when the target had ended.
KernelCancels(op) ==
    /\ op \in kernel \cap Cancels
    /\ Target[op] \notin kernel \ doomed
    /\ Completed(Cqe(op, "ok", FALSE))
    /\ UNCHANGED socket

\* Flights the worker reads in the first n steps of the handshake.
FlightsRead(n) == Cardinality({i \in 1..n : HandshakeSteps[i] = "read"})

\* Flights the worker has to write before the peer can send record number i.
FlightsBefore(i) ==
    Cardinality({j \in DOMAIN HandshakeSteps :
                    /\ HandshakeSteps[j] = "write"
                    /\ FlightsRead(j) < i})

\* Peers follow the protocol: they send the flights of their handshake first, and
\* may end their stream anywhere.
Orderly(script) ==
    \A i \in DOMAIN script :
        script[i].kind \in {IF i <= FlightsRead(Len(HandshakeSteps)) THEN "flight" ELSE "data",
                            "close_notify"}
OrderlyPeers == \A script \in Scripts : Orderly(script)

NextToSend(c) == socket[c].arrived \div RecordPieces + 1

PeerSends(c) ==
    /\ c \in open /\ socket[c].behind = "more"
    /\ NextToSend(c) \in DOMAIN socket[c].script
    /\ socket[c].read >= RecordUnits * FlightsBefore(NextToSend(c))
    /\ socket' = [socket EXCEPT ![c].arrived =
                      @ + (IF "fragments" \in Environment THEN 1 ELSE RecordPieces)]
    /\ UNCHANGED <<worker, sq, kernel, doomed, cq, open, arrivals>>

\* The peer closes without close_notify, or its connection is reset.
PeerLeaves(c) ==
    /\ c \in open /\ socket[c].behind = "more"
    /\ \E how \in {"eof", "reset"} \cap Environment :
          socket' = [socket EXCEPT ![c].behind = how]
    /\ UNCHANGED <<worker, sq, kernel, doomed, cq, open, arrivals>>

\* The peer reads what it was sent.
PeerReads(c, sent) ==
    /\ c \in open /\ socket[c].read < sent
    /\ socket' = [socket EXCEPT ![c].read = sent]
    /\ UNCHANGED <<worker, sq, kernel, doomed, cq, open, arrivals>>

CancelSteps == \E op \in Operations :
    KernelFindsTarget(op) \/ KernelEndsTarget(op) \/ KernelCancels(op)

\* Weak fairness of the thread, which until it exits can always go on (waits
\* time out).  Its steps are known by what they change: something of the worker,
\* or a CQE is taken.  (So does the one step of a signal.)
ThreadStep == worker' # worker \/ Len(cq') < Len(cq)
ThreadRuns == []<>(pc = "exited") \/ []<><<ThreadStep>>_vars

-----------------------------------------------------------------------------
(***************************************************************************)
(* Properties all variants share.                                          *)
(***************************************************************************)

\* Every variable keeps its type: part of ReferencesMatchOperations.
TypeOK ==
    /\ pc \in {"loop", "wait", "reap", "drive", "events", "exited"} /\ task \in Tasks
    /\ stopping \in BOOLEAN /\ shutdown_started \in BOOLEAN
    /\ accept_active \in BOOLEAN /\ accept_cancel_active \in BOOLEAN
    /\ connections \subseteq Fds
    /\ conn \in [Fds -> Connection] /\ ssl \in [Fds -> Ssl]
    /\ sq \subseteq Operations /\ kernel \subseteq Operations /\ doomed \subseteq Operations
    /\ cq \in Seq(Cqes)
    /\ open \subseteq Fds /\ arrivals \in 0..MaxArrivals
    /\ socket \in [Fds -> Socket]

\* An operation is outstanding until its last CQE has been completed.
Ended(op) == \E i \in DOMAIN cq : cq[i].op = op /\ ~cq[i].more
Outstanding(op) == op \in sq \/ op \in kernel \/ Ended(op)

Count(b) == IF b THEN 1 ELSE 0

\* A connection's references are its owner, unless finish() has dropped it, its
\* outstanding operations, and the completion that drives it: release() neither
\* frees what the kernel or complete() still uses nor leaks a connection.  Its
\* flags say which operations are outstanding, and so do the listener's.
ReferencesMatchOperations ==
    /\ TypeOK
    /\ \A c \in connections :
          LET k == conn[c]
          IN /\ k.references = Count(~k.dead) + Count(task = Task(c, "release"))
                     + Cardinality({op \in ConnectionOps(c) : Outstanding(op)})
             /\ k.references > 0
             /\ k.input_active <=> Outstanding(Input(c))
             /\ k.output_active <=> Outstanding(Output(c))
             /\ Outstanding(CancelInput(c)) => k.input_cancelled
             /\ Outstanding(CancelOutput(c)) => k.output_cancelled
             /\ k.input_cancelled \/ k.output_cancelled => k.dead
    /\ \A c \in Fds \ connections :
          task.fd # c /\ \A op \in ConnectionOps(c) : ~Outstanding(op)
    /\ accept_active <=> Outstanding(AcceptOp)
    /\ accept_cancel_active <=> Outstanding(CancelAccept)

\* No two CQEs end the same operation and none follows its last one: user_data
\* never refers to an operation that was submitted again or freed meanwhile.
CompletionsAreExclusive ==
    /\ sq \cap kernel = {}
    /\ \A op \in Operations : Ended(op) => op \notin sq \cup kernel
    /\ \A i, j \in DOMAIN cq : i < j /\ cq[i].op = cq[j].op => cq[i].more
    /\ \A i \in DOMAIN cq : cq[i].more => cq[i].op \in kernel \/ Ended(cq[i].op)

\* An open descriptor is a connection's or waits in an accept CQE: the ones
\* accepted while the worker stops are closed, and none is closed early.
DescriptorsAccounted ==
    /\ open = connections \cup {cq[i].fd : i \in {j \in DOMAIN cq : cq[j].fd # NULL}}
    /\ \A i \in DOMAIN cq : cq[i].fd \notin connections
    /\ \A i, j \in DOMAIN cq : cq[i].fd = cq[j].fd /\ cq[i].fd # NULL => i = j

\* Each CQE ends its operation once and hands its descriptor over once, also
\* across a submission queue that fills and a listener that ends by itself.
CompletionsAccounted == CompletionsAreExclusive /\ DescriptorsAccounted

Alive(c) == c \in connections /\ ~conn[c].dead

\* The lines of the peer's stream in its first n records.
Lines(c, n) == FoldLeft(LAMBDA lines, record : lines \o record.lines, <<>>,
                        SubSeq(socket[c].script, 1, n))

\* How many of the first i records encrypted for a peer are replies.
RepliesUpTo(c, i) == Cardinality({j \in 1..i : ssl[c].out[j] \in Replies})

\* What is encrypted for a peer: its handshake, then the replies its requests
\* call for, in their order, each once, and nothing after one that closes; then
\* close_notify, once, when the last reply closes or the peer closed first.
EncryptedInOrder ==
    \A c \in connections :
        LET out      == ssl[c].out
            received == Lines(c, ssl[c].consumed)
            answered == Answered(received)
        IN /\ \A i \in DOMAIN out :
                 out[i] \in Replies =>
                     Allowed(answered, Len(received), conn[c].read_eof, RepliesUpTo(c, i), out[i])
           /\ \A i, j \in DOMAIN out :
                 i < j => /\ out[i] # "close_notify"
                          /\ out[j] = "flight" => out[i] = "flight"
           /\ out # <<>> /\ Last(out) = "close_notify" =>
                 conn[c].close_after \/ conn[c].read_eof

\* main frees the ring only when the kernel holds no operation, and leaves no
\* descriptor open.
CleanExit == pc = "exited" => sq = {} /\ kernel = {} /\ cq = <<>> /\ open = {}

\* A signal ends the worker, handshakes and blocked writes included.
StoppingEnds == stopping ~> pc = "exited"

=============================================================================
