-------------------------- MODULE PlaintextWorker ---------------------------
(***************************************************************************)
(* One plaintext worker of experiments/io-uring-http (oneshot/server.c and *)
(* multishot/server.c, which differ in the kind of receive they submit),   *)
(* with the kernel side of its io_uring and the peers that connect to it.  *)
(*                                                                         *)
(* The worker is one thread: it submits operations, waits, and completes   *)
(* the CQEs one at a time; each completion is one action.  The kernel      *)
(* executes submitted operations and posts CQEs at any time, and a signal  *)
(* handler sets `stopping' at any time, between two reads of it by the     *)
(* same completion included.                                               *)
(***************************************************************************)
EXTENDS HttpReplies, FiniteSets

CONSTANTS
    Fds,           \* the descriptors accept can return
    Buffers,       \* the ids of the provided receive buffers
    BufferSize,    \* BUFFER_SIZE: lines one buffer holds
    QueueDepth,    \* QUEUE_DEPTH: submission queue entries
    Multishot,     \* TRUE for multishot/server.c
    ReplyLength,   \* units of every reply a send may transmit partially
    Scripts,       \* the streams of lines peers may send
    MaxArrivals,   \* bound on the connections accepted in a behaviour
    MaxReplies,    \* bound on the units of replies RequestsAnswered ranges over
    Environment,   \* what the environment may do in a behaviour, beyond the usual
    NULL           \* no descriptor, no buffer

EnvironmentEvents ==
    {"signal",          \* SIGINT or SIGTERM
     "accept_error", "receive_error", "send_error",
     "eof",             \* a peer ends its stream, wherever it is
     "fragments",       \* a stream arrives and a reply leaves in smaller pieces
     "multishot_ends"}  \* a multishot operation ends with a successful CQE

ASSUME WorkerAssumption ==
    /\ Environment \subseteq EnvironmentEvents
    /\ NULL \notin Fds /\ NULL \notin Buffers
    /\ BufferSize \in Nat \ {0} /\ QueueDepth \in Nat \ {0}
    /\ ReplyLength \in Nat \ {0} /\ MaxArrivals \in Nat
    /\ Multishot \in BOOLEAN
    /\ Scripts \subseteq Seq(Line)
    /\ IsFiniteSet(Fds)

VARIABLES
    \* the worker
    pc,                  \* where main is: "loop", "wait", "reap" or "exited"
    stopping, shutdown_started,
    accept_active, accept_cancel_active,
    connections,         \* the list of connections, by descriptor
    conn,                \* what the connection of each descriptor holds
    sq,                  \* operations prepared and not yet submitted
    free,                \* provided buffers in the buffer ring
    \* the kernel and the peers
    kernel,              \* operations submitted and not yet terminated
    doomed,              \* those of them a cancel has found
    cq,                  \* the completion queue
    open,                \* open connection descriptors
    arrivals,            \* connections accepted so far
    peer,                \* what the peer of each descriptor sends
    wire                 \* the units of replies sent to each peer

worker == <<pc, stopping, shutdown_started, accept_active, accept_cancel_active,
            connections, conn>>
network == <<open, arrivals, peer, wire>>
vars == <<pc, stopping, shutdown_started, accept_active, accept_cancel_active,
          connections, conn, sq, free, kernel, doomed, cq, open, arrivals, peer, wire>>

-----------------------------------------------------------------------------
(* Operations, completions, connections.                                   *)

\* struct operation: user_data of an SQE, its kind and its connection.
Receive(c) == <<"receive", c>>
Send(c)    == <<"send", c>>
Cancel(c)  == <<"cancel", c>>
AcceptOperation == <<"accept", NULL>>
AcceptCancel    == <<"cancel", NULL>>

Operations == ({"receive", "send", "cancel"} \X Fds) \cup {AcceptOperation, AcceptCancel}
Cancels == {Cancel(c) : c \in Fds} \cup {AcceptCancel}
TargetOf(op) == IF op = AcceptCancel THEN AcceptOperation ELSE Receive(op[2])

\* more is IORING_CQE_F_MORE; buffer is NULL without IORING_CQE_F_BUFFER.
Cqe(op, res, more) == [op |-> op, res |-> res, more |-> more, fd |-> NULL,
                       buffer |-> NULL, data |-> <<>>, count |-> 0]

Cqes == [op : Operations, res : {"ok", "eof", "error", "canceled"}, more : BOOLEAN,
         fd : Fds \cup {NULL}, buffer : Buffers \cup {NULL}, data : Seq(Line), count : Nat]

Connection == [references : Nat, receive_active : BOOLEAN, cancel_pending : BOOLEAN,
               sending : BOOLEAN, close_after_send : BOOLEAN, read_eof : BOOLEAN,
               failed : BOOLEAN, sent : Nat, output : Replies \cup {NULL},
               input : Seq(Line)]

\* calloc
Zeroed == [references |-> 0, receive_active |-> FALSE, cancel_pending |-> FALSE,
           sending |-> FALSE, close_after_send |-> FALSE, read_eof |-> FALSE,
           failed |-> FALSE, sent |-> 0, output |-> NULL, input |-> <<>>]

Peers == [script : Scripts \cup {<<>>}, position : Nat, closed : BOOLEAN]
NoPeer == [script |-> <<>>, position |-> 0, closed |-> FALSE]

-----------------------------------------------------------------------------
(***************************************************************************)
(* The functions a completion calls.  d holds what they change: the        *)
(* connection k of descriptor fd, and the operations prepared (sq) and     *)
(* submitted (kernel).                                                     *)
(***************************************************************************)
Context(c, k) == [fd |-> c, k |-> k, sq |-> sq, kernel |-> kernel]

\* get_sqe: a full submission queue is submitted first.
GetSqe(d, op) ==
    IF Cardinality(d.sq) < QueueDepth
    THEN [d EXCEPT !.sq = @ \cup {op}]
    ELSE [d EXCEPT !.sq = {op}, !.kernel = @ \cup d.sq]

SubmitReceive(d) ==
    [GetSqe(d, Receive(d.fd)) EXCEPT
        !.k = [d.k EXCEPT !.receive_active = TRUE, !.references = @ + 1]]

SubmitSend(d) ==
    [GetSqe(d, Send(d.fd)) EXCEPT !.k = [d.k EXCEPT !.references = @ + 1]]

\* Mutant of CancelReceive: the cancel holds no reference.
CancelReceiveUncounted(d) ==
    IF ~d.k.receive_active \/ d.k.cancel_pending
    THEN d
    ELSE [GetSqe(d, Cancel(d.fd)) EXCEPT !.k = [d.k EXCEPT !.cancel_pending = TRUE]]

\* Mutant of CancelReceive: a receive is cancelled again.
CancelReceiveAgain(d) ==
    IF ~d.k.receive_active
    THEN d
    ELSE [GetSqe(d, Cancel(d.fd)) EXCEPT
             !.k = [d.k EXCEPT !.cancel_pending = TRUE, !.references = @ + 1]]

CancelReceive(d) ==
    IF ~d.k.receive_active \/ d.k.cancel_pending
    THEN d
    ELSE [GetSqe(d, Cancel(d.fd)) EXCEPT
             !.k = [d.k EXCEPT !.cancel_pending = TRUE, !.references = @ + 1]]

Parsed(k) == AtEndOfStream(ParseRequest(k.input), k.read_eof)

\* drive_connection takes the parsed request and starts its reply.
Reply(d, parsed) ==
    LET rejected == parsed.verdict = "reject"
        rest     == IF rejected THEN <<>>
                    ELSE SubSeq(d.k.input, parsed.length + 1, Len(d.k.input))
        close_after == rejected \/ parsed.close_after \/ (d.k.read_eof /\ rest = <<>>)
    IN SubmitSend([d EXCEPT !.k = [d.k EXCEPT
           !.input = rest,
           !.output = IF rejected THEN "bad_request"
                      ELSE Response(parsed.http10, close_after),
           !.close_after_send = close_after,
           !.sent = 0,
           !.sending = TRUE]])

StartResponse(d) == Reply(d, Parsed(d.k))

\* Mutant of PauseOrRearm: pipelined input never pauses the receive.
RearmUnbounded(d) ==
    IF ~d.k.read_eof /\ ~d.k.receive_active /\ ~d.k.cancel_pending
    THEN SubmitReceive(d) ELSE d

\* Mutant of PauseOrRearm: an active receive is submitted again.
RearmTwice(d) ==
    IF ~d.k.read_eof /\ ~d.k.cancel_pending THEN SubmitReceive(d) ELSE d

\* Bound pipelined input: pause or rearm the receive, not the send lane.
MustPause(k) == k.sending /\ Len(k.input) > InputCapacity \div 2
CanArm(k) == ~k.read_eof /\ ~k.receive_active /\ ~k.cancel_pending

PauseOrRearm(d) ==
    IF MustPause(d.k) THEN CancelReceive(d)
    ELSE IF CanArm(d.k) THEN SubmitReceive(d) ELSE d

\* The rest of drive_connection, after the reply if there was one to start.
DriveReceive(d) ==
    IF d.k.close_after_send THEN CancelReceive(d) ELSE PauseOrRearm(d)

DriveConnection(d, stop) ==
    IF stop \/ d.k.failed \/ d.k.close_after_send THEN d
    ELSE LET ready == ~d.k.sending /\ d.k.input # <<>> /\ Parsed(d.k).verdict # "incomplete"
         IN DriveReceive(IF ready THEN StartResponse(d) ELSE d)

\* The end of a completion that keeps its reference ...
Keep(d) ==
    /\ conn' = [conn EXCEPT ![d.fd] = d.k]
    /\ sq' = d.sq /\ kernel' = d.kernel
    /\ UNCHANGED <<connections, open>>

\* ... and of one that ends in release_connection: the last reference unlinks
\* the connection, closes its descriptor and frees it.
ReleaseConnection(d) ==
    /\ sq' = d.sq /\ kernel' = d.kernel
    /\ IF d.k.references = 1
       THEN /\ connections' = connections \ {d.fd}
            /\ open' = open \ {d.fd}
            /\ conn' = [conn EXCEPT ![d.fd] = Zeroed]
       ELSE /\ conn' = [conn EXCEPT ![d.fd] = [d.k EXCEPT !.references = @ - 1]]
            /\ UNCHANGED <<connections, open>>

-----------------------------------------------------------------------------
(* complete: one action for each kind of operation and outcome.            *)

\* The values a completion may read from the volatile `stopping', in the
\* order of its reads: once the handler has run they stay TRUE.
Reads == {r \in [1..3 -> BOOLEAN] : /\ stopping => r[1]
                                    /\ r[1] => r[2]
                                    /\ r[2] => r[3]
                                    /\ r[3] => stopping \/ "signal" \in Environment}

\* io_uring_for_each_cqe hands the oldest CQE to complete.
Completes(kind) ==
    /\ pc \in {"wait", "reap"}
    /\ cq # <<>>
    /\ Head(cq).op[1] = kind
    /\ pc' = "reap"
    /\ cq' = Tail(cq)
    /\ UNCHANGED <<shutdown_started, doomed, arrivals, peer, wire>>

\* A multishot accept that ended is submitted again unless the worker stops.
RearmAccept(d, terminal, stop) ==
    LET rearm == terminal /\ ~stop
        e == IF rearm THEN GetSqe(d, AcceptOperation) ELSE d
    IN /\ accept_active' = (rearm \/ (accept_active /\ ~terminal))
       /\ sq' = e.sq /\ kernel' = e.kernel

\* A new connection: linked in, and its first receive submitted.
AcceptedConnection ==
    LET cqe == Head(cq)
    IN /\ Completes("accept")
       /\ cqe.res = "ok"
       /\ \E r \in Reads :
             /\ ~r[1]
             /\ stopping' = r[3]
             /\ LET d == SubmitReceive(Context(cqe.fd, Zeroed))
                IN /\ connections' = connections \cup {cqe.fd}
                   /\ conn' = [conn EXCEPT ![cqe.fd] = d.k]
                   /\ RearmAccept(d, ~cqe.more, r[2])
       /\ UNCHANGED <<accept_cancel_active, free, open>>

\* Mutant of AcceptedWhileStopping: its descriptor is not closed.
AcceptedWhileStoppingLeaks ==
    LET cqe == Head(cq)
    IN /\ Completes("accept")
       /\ cqe.res = "ok"
       /\ stopping' = TRUE
       /\ RearmAccept([sq |-> sq, kernel |-> kernel], ~cqe.more, TRUE)
       /\ UNCHANGED <<accept_cancel_active, connections, conn, free, open>>

\* A connection that arrives once the worker is stopping is closed at once.
AcceptedWhileStopping ==
    LET cqe == Head(cq)
    IN /\ Completes("accept")
       /\ cqe.res = "ok"
       /\ stopping' = TRUE
       /\ open' = open \ {cqe.fd}
       /\ RearmAccept([sq |-> sq, kernel |-> kernel], ~cqe.more, TRUE)
       /\ UNCHANGED <<accept_cancel_active, connections, conn, free>>

\* An accept that fails stops the worker; a cancelled one just ends.
AcceptEnded ==
    LET cqe == Head(cq)
    IN /\ Completes("accept")
       /\ cqe.res \in {"error", "canceled"}
       /\ \E r \in Reads :
             /\ stopping' = (r[3] \/ cqe.res = "error")
             /\ RearmAccept([sq |-> sq, kernel |-> kernel], ~cqe.more,
                            r[2] \/ cqe.res = "error")
       /\ UNCHANGED <<accept_cancel_active, connections, conn, free, open>>

AcceptCancelCompleted ==
    /\ Completes("cancel")
    /\ Head(cq).op = AcceptCancel
    /\ accept_cancel_active' = FALSE
    /\ UNCHANGED <<stopping, accept_active, connections, conn, sq, kernel, free, open>>

\* Mutant of CancelCompleted: the paused receive is not rearmed.
CancelCompletedUndriven(c) ==
    /\ Completes("cancel")
    /\ Head(cq).op = Cancel(c)
    /\ \E r \in Reads :
          /\ stopping' = r[3]
          /\ ReleaseConnection(Context(c, [conn[c] EXCEPT !.cancel_pending = FALSE]))
    /\ UNCHANGED <<accept_active, accept_cancel_active, free>>

CancelCompleted(c) ==
    /\ Completes("cancel")
    /\ Head(cq).op = Cancel(c)
    /\ \E r \in Reads :
          /\ stopping' = r[3]
          /\ ReleaseConnection(DriveConnection(
                Context(c, [conn[c] EXCEPT !.cancel_pending = FALSE]), r[1]))
    /\ UNCHANGED <<accept_active, accept_cancel_active, free>>

\* Mutant of Received: data beyond the pipelined input limit is skipped.
ReceivedSkipping(k, cqe, stop) ==
    LET ended == [k EXCEPT !.receive_active = @ /\ cqe.more]
        drop  == k.failed \/ k.close_after_send \/ stop
                     \/ Len(cqe.data) > InputCapacity - Len(k.input)
    IN CASE cqe.res = "ok" /\ drop -> ended
         [] cqe.res = "ok" /\ ~drop -> [ended EXCEPT !.input = @ \o cqe.data]
         [] cqe.res = "eof" -> [ended EXCEPT !.read_eof = TRUE]
         [] cqe.res = "error" -> [ended EXCEPT !.failed = TRUE]
         [] cqe.res = "canceled" -> ended

\* What a receive completion does to the connection before it drives it.
Received(k, cqe, stop) ==
    LET ended == [k EXCEPT !.receive_active = @ /\ cqe.more]
        drop  == k.failed \/ k.close_after_send \/ stop
    IN CASE cqe.res = "ok" /\ drop -> ended
         [] cqe.res = "ok" /\ ~drop /\ Len(cqe.data) > InputCapacity - Len(k.input) ->
               [ended EXCEPT !.failed = TRUE]                  \* pipelined input limit
         [] cqe.res = "ok" /\ ~drop /\ Len(cqe.data) <= InputCapacity - Len(k.input) ->
               [ended EXCEPT !.input = @ \o cqe.data]
         [] cqe.res = "eof" -> [ended EXCEPT !.read_eof = TRUE]
         [] cqe.res = "error" -> [ended EXCEPT !.failed = TRUE]
         [] cqe.res = "canceled" -> ended

\* Mutant of Recycled: only a buffer with data is given back.
RecycledData(cqe) == IF cqe.res = "ok" THEN {cqe.buffer} \ {NULL} ELSE {}

\* add_buffer: the buffer of any receive CQE that carries one.
Recycled(cqe) == {cqe.buffer} \ {NULL}

\* Only the last CQE of a receive releases its reference.
EndReceive(more, d) == IF more THEN Keep(d) ELSE ReleaseConnection(d)

ReceiveCompleted(c) ==
    LET cqe == Head(cq)
    IN /\ Completes("receive")
       /\ cqe.op = Receive(c)
       /\ free' = free \cup Recycled(cqe)
       /\ \E r \in Reads :
             LET d == Context(c, Received(conn[c], cqe, r[1]))
             IN /\ stopping' = r[3]
                /\ EndReceive(cqe.more, IF d.k.failed \/ r[2] THEN CancelReceive(d)
                                                             ELSE DriveConnection(d, r[3]))
       /\ UNCHANGED <<accept_active, accept_cancel_active>>

\* Mutant of Sent: the next pipelined request waits for more input.
SentUndriven(d, cqe, stop) ==
    LET k == [d.k EXCEPT !.sent = @ + cqe.count]
    IN CASE cqe.res # "ok" -> CancelReceive([d EXCEPT !.k = [d.k EXCEPT !.failed = TRUE]])
         [] cqe.res = "ok" /\ k.sent < ReplyLength -> SubmitSend([d EXCEPT !.k = k])
         [] OTHER -> [d EXCEPT !.k = [k EXCEPT !.sending = FALSE]]

\* Mutant of Sent: a failed send leaves the receive armed.
SentFailingQuietly(d, cqe, stop) ==
    LET k == [d.k EXCEPT !.sent = @ + cqe.count]
    IN CASE cqe.res # "ok" -> [d EXCEPT !.k = [d.k EXCEPT !.failed = TRUE]]
         [] cqe.res = "ok" /\ k.sent < ReplyLength -> SubmitSend([d EXCEPT !.k = k])
         [] OTHER -> DriveConnection([d EXCEPT !.k = [k EXCEPT !.sending = FALSE]], stop)

\* What a send completion does: send the rest, finish the reply, or fail.
FinishReply(d, stop) ==
    IF d.k.close_after_send THEN CancelReceive(d) ELSE DriveConnection(d, stop)

Sent(d, cqe, stop) ==
    LET k == [d.k EXCEPT !.sent = @ + cqe.count]
    IN CASE cqe.res # "ok" -> CancelReceive([d EXCEPT !.k = [d.k EXCEPT !.failed = TRUE]])
         [] cqe.res = "ok" /\ k.sent < ReplyLength -> SubmitSend([d EXCEPT !.k = k])
         [] OTHER -> FinishReply([d EXCEPT !.k = [k EXCEPT !.sending = FALSE]], stop)

SendCompleted(c) ==
    /\ Completes("send")
    /\ Head(cq).op = Send(c)
    /\ \E r \in Reads :
          /\ stopping' = r[3]
          /\ ReleaseConnection(Sent(Context(c, conn[c]), Head(cq), r[1]))
    /\ UNCHANGED <<accept_active, accept_cancel_active, free>>

-----------------------------------------------------------------------------
(* main                                                                    *)

Init ==
    /\ pc = "loop" /\ stopping = FALSE /\ shutdown_started = FALSE
    /\ accept_active = TRUE /\ accept_cancel_active = FALSE
    /\ connections = {} /\ conn = [c \in Fds |-> Zeroed]
    /\ sq = {AcceptOperation} /\ kernel = {} /\ doomed = {} /\ cq = <<>>
    /\ free = Buffers
    /\ open = {} /\ arrivals = 0
    /\ peer = [c \in Fds |-> NoPeer] /\ wire = [c \in Fds |-> <<>>]

Draining == accept_active \/ accept_cancel_active \/ connections # {}

\* Mutant of Cancellable: idle connections keep their receive.
NothingCancellable == {}

\* The first time around after a signal: cancel the accept and every receive.
\* All of it is submitted in this iteration, so get_sqe's early submission of
\* a full queue makes no difference.
Cancellable == {c \in connections : conn[c].receive_active /\ ~conn[c].cancel_pending}

StartShutdown ==
    /\ pc = "loop" /\ Draining
    /\ stopping /\ ~shutdown_started
    /\ shutdown_started' = TRUE
    /\ accept_cancel_active' = (accept_active \/ accept_cancel_active)
    /\ conn' = [c \in Fds |->
                   IF c \in Cancellable
                   THEN [conn[c] EXCEPT !.cancel_pending = TRUE, !.references = @ + 1]
                   ELSE conn[c]]
    /\ kernel' = kernel \cup sq \cup {Cancel(c) : c \in Cancellable}
                        \cup (IF accept_active THEN {AcceptCancel} ELSE {})
    /\ sq' = {}
    /\ pc' = "wait"
    /\ UNCHANGED <<stopping, accept_active, connections, free, doomed, cq, network>>

\* Any other iteration submits what the completions prepared.
Submit ==
    /\ pc = "loop" /\ Draining
    /\ stopping => shutdown_started
    /\ kernel' = kernel \cup sq
    /\ sq' = {}
    /\ pc' = "wait"
    /\ UNCHANGED <<stopping, shutdown_started, accept_active, accept_cancel_active,
                   connections, conn, free, doomed, cq, network>>

\* io_uring_submit returns -EINTR: a signal came after `stopping' was tested.
\* Nothing was submitted and the worker goes to wait.
SubmitInterrupted ==
    /\ pc = "loop" /\ Draining
    /\ ~stopping /\ "signal" \in Environment
    /\ stopping' = TRUE
    /\ pc' = "wait"
    /\ UNCHANGED <<shutdown_started, accept_active, accept_cancel_active,
                   connections, conn, sq, kernel, free, doomed, cq, network>>

\* The 100 ms wait ends without a CQE.
WaitTimedOut ==
    /\ pc = "wait" /\ cq = <<>>
    /\ pc' = "loop"
    /\ UNCHANGED <<stopping, shutdown_started, accept_active, accept_cancel_active,
                   connections, conn, sq, kernel, free, doomed, cq, network>>

\* The batch is complete: no CQE is left.
BatchReaped ==
    /\ pc = "reap" /\ cq = <<>>
    /\ pc' = "loop"
    /\ UNCHANGED <<stopping, shutdown_started, accept_active, accept_cancel_active,
                   connections, conn, sq, kernel, free, doomed, cq, network>>

\* Nothing is left to drain: main frees the pool and the ring and returns.
Exit ==
    /\ pc = "loop" /\ ~Draining
    /\ pc' = "exited"
    /\ UNCHANGED <<stopping, shutdown_started, accept_active, accept_cancel_active,
                   connections, conn, sq, kernel, free, doomed, cq, network>>

\* on_signal, at any time; it may also interrupt the wait.
OnSignal ==
    /\ ~stopping /\ pc # "exited" /\ "signal" \in Environment
    /\ stopping' = TRUE
    /\ pc' \in {pc} \cup (IF pc = "wait" THEN {"loop"} ELSE {})
    /\ UNCHANGED <<shutdown_started, accept_active, accept_cancel_active,
                   connections, conn, sq, kernel, free, doomed, cq, network>>

-----------------------------------------------------------------------------
(***************************************************************************)
(* The kernel and the peers: external, from how the worker uses them.      *)
(***************************************************************************)
Post(cqe) == cq' = Append(cq, cqe)

\* op has posted its last CQE.
Terminate(op) == kernel' = kernel \ {op} /\ doomed' = doomed \ {op}

EndUnlessMore(op, more) == IF more THEN UNCHANGED <<kernel, doomed>> ELSE Terminate(op)

\* Whether a CQE leaves its operation armed.
MayContinue(multishot) ==
    {multishot} \cup (IF "multishot_ends" \in Environment THEN {FALSE} ELSE {})

\* How much of what could be transferred is.
Pieces(n) == IF "fragments" \in Environment THEN 1..n ELSE {n} \cap 1..n

KernelAccepts(c) ==
    /\ AcceptOperation \in kernel
    /\ c \notin open /\ arrivals < MaxArrivals
    /\ \E more \in MayContinue(TRUE), script \in Scripts :
          /\ Post([Cqe(AcceptOperation, "ok", more) EXCEPT !.fd = c])
          /\ EndUnlessMore(AcceptOperation, more)
          /\ peer' = [peer EXCEPT ![c] = [NoPeer EXCEPT !.script = script]]
    /\ open' = open \cup {c} /\ arrivals' = arrivals + 1
    /\ wire' = [wire EXCEPT ![c] = <<>>]
    /\ UNCHANGED <<worker, sq, free>>

KernelAcceptFails ==
    /\ AcceptOperation \in kernel /\ "accept_error" \in Environment
    /\ Post(Cqe(AcceptOperation, "error", FALSE))
    /\ Terminate(AcceptOperation)
    /\ UNCHANGED <<worker, sq, free, network>>

\* The next lines of the peer's stream arrive in a provided buffer.
KernelReceives(c) ==
    /\ Receive(c) \in kernel /\ ~peer[c].closed
    /\ LET from == peer[c].position
           left == Len(peer[c].script) - from
       IN \E n \in Pieces(IF left < BufferSize THEN left ELSE BufferSize),
             buffer \in free, more \in MayContinue(Multishot) :
             /\ Post([Cqe(Receive(c), "ok", more) EXCEPT
                         !.buffer = buffer, !.data = SubSeq(peer[c].script, from + 1, from + n)])
             /\ EndUnlessMore(Receive(c), more)
             /\ free' = free \ {buffer}
             /\ peer' = [peer EXCEPT ![c].position = @ + n]
    /\ UNCHANGED <<worker, sq, open, arrivals, wire>>

\* The peer ended its stream, wherever it was; the kernel may have taken a
\* buffer before it found out.
KernelReceivesEof(c) ==
    /\ Receive(c) \in kernel /\ "eof" \in Environment
    /\ \E buffer \in free \cup {NULL} :
          /\ Post([Cqe(Receive(c), "eof", FALSE) EXCEPT !.buffer = buffer])
          /\ free' = free \ {buffer}
    /\ Terminate(Receive(c))
    /\ peer' = [peer EXCEPT ![c].closed = TRUE]
    /\ UNCHANGED <<worker, sq, open, arrivals, wire>>

\* ECONNRESET at any time, or ENOBUFS when no provided buffer is left.
KernelReceiveFails(c) ==
    /\ Receive(c) \in kernel /\ ("receive_error" \in Environment \/ free = {})
    /\ Post(Cqe(Receive(c), "error", FALSE))
    /\ Terminate(Receive(c))
    /\ UNCHANGED <<worker, sq, free, network>>

\* The kernel reads output and sent as they are when it executes the send.
KernelSends(c) ==
    /\ Send(c) \in kernel
    /\ \E n \in Pieces(ReplyLength - conn[c].sent) :
          /\ Post([Cqe(Send(c), "ok", FALSE) EXCEPT !.count = n])
          /\ wire' = [wire EXCEPT ![c] =
                         @ \o [i \in 1..n |-> <<conn[c].output, conn[c].sent + i>>]]
    /\ Terminate(Send(c))
    /\ UNCHANGED <<worker, sq, free, open, arrivals, peer>>

KernelSendFails(c) ==
    /\ Send(c) \in kernel /\ "send_error" \in Environment
    /\ Post(Cqe(Send(c), "error", FALSE))
    /\ Terminate(Send(c))
    /\ UNCHANGED <<worker, sq, free, network>>

\* A cancel looks for its target: from here on the target is doomed, ...
KernelFindsTarget(op) ==
    /\ op \in kernel \cap Cancels
    /\ TargetOf(op) \in kernel \ doomed
    /\ doomed' = doomed \cup {TargetOf(op)}
    /\ UNCHANGED <<worker, sq, free, kernel, cq, network>>

\* ... and ends with -ECANCELED before or after the cancel itself completes,
\* unless a result it already had overtakes that.
KernelEndsTarget(op) ==
    /\ op \in doomed
    /\ Post(Cqe(op, "canceled", FALSE))
    /\ Terminate(op)
    /\ UNCHANGED <<worker, sq, free, network>>

\* The cancel completes, with 0 or with -ENOENT when the target had ended.
KernelCancels(op) ==
    /\ op \in kernel \cap Cancels
    /\ TargetOf(op) \notin kernel \ doomed
    /\ Post(Cqe(op, "ok", FALSE))
    /\ Terminate(op)
    /\ UNCHANGED <<worker, sq, free, network>>

-----------------------------------------------------------------------------
Complete ==
    \/ AcceptedConnection \/ AcceptedWhileStopping \/ AcceptEnded \/ AcceptCancelCompleted
    \/ \E c \in Fds : CancelCompleted(c) \/ ReceiveCompleted(c) \/ SendCompleted(c)

Main == StartShutdown \/ Submit \/ WaitTimedOut \/ BatchReaped \/ Exit

Kernel ==
    \/ KernelAcceptFails
    \/ \E c \in Fds : \/ KernelAccepts(c) \/ KernelReceives(c) \/ KernelReceivesEof(c)
                      \/ KernelReceiveFails(c) \/ KernelSends(c) \/ KernelSendFails(c)
    \/ \E op \in Operations :
          KernelFindsTarget(op) \/ KernelEndsTarget(op) \/ KernelCancels(op)

\* The worker's end is not a deadlock.
Terminated == pc = "exited" /\ UNCHANGED vars

Next == Complete \/ Main \/ SubmitInterrupted \/ OnSignal \/ Kernel \/ Terminated

Spec == Init /\ [][Next]_vars

(***************************************************************************)
(* The thread runs and its waits time out, the kernel executes cancels,    *)
(* and peers read what is sent to them or the send fails.  Nothing makes a *)
(* peer connect, send or close.                                            *)
(***************************************************************************)

\* Every step of the thread, by what it changes: main goes on, or the oldest
\* CQE is completed.  No step of the kernel looks like one.
ThreadRuns ==
    \/ /\ pc = "loop"
       /\ pc' \in {"wait", "exited"} /\ cq' = cq
    \/ /\ pc \in {"wait", "reap"} /\ cq = <<>>
       /\ pc' = "loop" /\ cq' = cq
    \/ /\ pc \in {"wait", "reap"} /\ cq # <<>>
       /\ pc' = "reap" /\ cq' = Tail(cq)

Fairness ==
    /\ WF_<<pc, cq>>(ThreadRuns)
    /\ \A op \in Cancels : /\ WF_vars(KernelFindsTarget(op))
                           /\ WF_vars(KernelCancels(op))
                           /\ WF_vars(KernelEndsTarget(TargetOf(op)))
    /\ \A c \in Fds : WF_vars(KernelSends(c) \/ KernelSendFails(c))

FairSpec == Spec /\ Fairness

-----------------------------------------------------------------------------
(***************************************************************************)
(* Properties.                                                             *)
(***************************************************************************)
TypeOK ==
    /\ pc \in {"loop", "wait", "reap", "exited"}
    /\ stopping \in BOOLEAN /\ shutdown_started \in BOOLEAN
    /\ accept_active \in BOOLEAN /\ accept_cancel_active \in BOOLEAN
    /\ connections \subseteq Fds /\ conn \in [Fds -> Connection]
    /\ sq \subseteq Operations /\ kernel \subseteq Operations /\ doomed \subseteq Operations
    /\ cq \in Seq(Cqes)
    /\ free \subseteq Buffers /\ open \subseteq Fds /\ arrivals \in 0..MaxArrivals
    /\ peer \in [Fds -> Peers]
    /\ wire \in [Fds -> Seq((Replies \cup {NULL}) \X Nat)]

\* An operation is outstanding until its last CQE has been completed.
Ended(op) == \E i \in DOMAIN cq : cq[i].op = op /\ ~cq[i].more
Outstanding(op) == op \in sq \/ op \in kernel \/ Ended(op)

Count(b) == IF b THEN 1 ELSE 0

\* A connection holds exactly one reference for each of its outstanding
\* operations, its flags say which those are, and a connection that was freed
\* has none: release_connection neither frees a connection the kernel still
\* knows nor leaks one.  The same for the listener's two operations.
ReferencesMatchOperations ==
    /\ \A c \in connections :
          LET k == conn[c]
          IN /\ k.references = Count(Outstanding(Receive(c))) + Count(Outstanding(Send(c)))
                               + Count(Outstanding(Cancel(c)))
             /\ k.references > 0
             /\ k.receive_active <=> Outstanding(Receive(c))
             /\ k.cancel_pending <=> Outstanding(Cancel(c))
             /\ k.sending /\ ~k.failed => Outstanding(Send(c))
             /\ Outstanding(Send(c)) => k.sending
    /\ \A c \in Fds \ connections :
          ~Outstanding(Receive(c)) /\ ~Outstanding(Send(c)) /\ ~Outstanding(Cancel(c))
    /\ accept_active <=> Outstanding(AcceptOperation)
    /\ accept_cancel_active <=> Outstanding(AcceptCancel)

\* The worker implements OperationLifetime: through partial replies, pauses,
\* rearmed receives and a shutdown, release_connection frees a connection at
\* the completion of its last operation and at no other, and no CQE names a
\* connection that was freed.
OutstandingKinds(c) == {kind \in {"receive", "send", "cancel"} : Outstanding(<<kind, c>>)}

Lifetime == INSTANCE OperationLifetime
    WITH Owners <- Fds, Kinds <- {"receive", "send", "cancel"},
         alive <- connections, outstanding <- [c \in Fds |-> OutstandingKinds(c)]

ImplementsLifetime == Lifetime!Spec

\* No two CQEs end the same operation and none follows its last one: user_data
\* never refers to an operation that was submitted again or freed meanwhile.
CompletionsAreExclusive ==
    /\ sq \cap kernel = {}
    /\ \A op \in Operations : Ended(op) => op \notin sq \cup kernel
    /\ \A i, j \in DOMAIN cq : i < j /\ cq[i].op = cq[j].op => cq[i].more
    /\ \A i \in DOMAIN cq : cq[i].more => cq[i].op \in kernel \/ Ended(cq[i].op)

\* Every provided buffer is in the buffer ring or in exactly one CQE that the
\* worker has yet to complete: none leaks, none is given back twice.
BuffersConserved ==
    /\ free = Buffers \ {cq[i].buffer : i \in DOMAIN cq}
    /\ \A i, j \in DOMAIN cq : cq[i].buffer = cq[j].buffer /\ cq[i].buffer # NULL => i = j

\* An open descriptor is a connection's or waits in an accept CQE: the ones
\* accepted while the worker stops are closed, and none is closed early.
DescriptorsAccounted ==
    /\ open = connections \cup {cq[i].fd : i \in {j \in DOMAIN cq : cq[j].fd # NULL}}
    /\ \A i \in DOMAIN cq : cq[i].fd \notin connections
    /\ \A i, j \in DOMAIN cq : cq[i].fd = cq[j].fd /\ cq[i].fd # NULL => i = j

Serving(c) == /\ c \in connections /\ ~stopping
              /\ ~conn[c].failed /\ ~conn[c].close_after_send

\* A connection that is served never sits idle: with the send lane idle no
\* request it could answer is left in the input, and more input is on its way
\* (a receive is armed, or a cancel whose completion will arm it).
NoStalledConnection ==
    \A c \in Fds : Serving(c) /\ ~conn[c].sending =>
        /\ conn[c].input = <<>> \/ Parsed(conn[c]).verdict = "incomplete"
        /\ conn[c].receive_active \/ conn[c].cancel_pending

\* The listener keeps accepting until the worker stops.
ListenerArmed == ~stopping => Outstanding(AcceptOperation)

ReplyAllowed(c, n, reply) ==
    Allowed(Answered(SubSeq(peer[c].script, 1, peer[c].position)),
            peer[c].position, peer[c].closed, n, reply)

\* The bytes on the wire are the replies to the peer's requests, in the order
\* of the requests, each whole and once, nothing after one that closes: over
\* fragmented and pipelined input, paused receives and partial sends.
WireCarriesReplies ==
    \A c \in Fds : \A i \in DOMAIN wire[c] :
        /\ ReplyAllowed(c, ((i - 1) \div ReplyLength) + 1, wire[c][i][1])
        /\ wire[c][i][2] = ((i - 1) % ReplyLength) + 1

\* While the kernel may read a reply, the worker does not touch it: output and
\* sent stay as they were when the send was prepared.
ReplyStableWhileSending ==
    [][\A c \in Fds : Outstanding(Send(c)) /\ Outstanding(Send(c))' /\ ~Ended(Send(c))
            => UNCHANGED <<conn[c].output, conn[c].sent>>]_vars

\* A cancel only ever finds the receive it was meant for: no receive is
\* submitted for a connection between a cancel's request and its completion.
NoReceiveArmedDuringCancel ==
    [][\A c \in Fds : Outstanding(Cancel(c)) /\ ~Outstanding(Receive(c))
                          /\ Outstanding(Cancel(c))' => ~Outstanding(Receive(c))']_vars

\* A connection is dropped for a reason only: it failed, its last reply is out,
\* its peer ended, or the worker stops.  A pause must not let the last
\* operation end without another one to follow.
DroppedForReason ==
    [][\A c \in connections \ connections' :
          \/ stopping' \/ conn[c].failed \/ conn[c].close_after_send \/ conn[c].read_eof
          \/ Head(cq).res \in {"error", "eof"}
          \/ Len(Head(cq).data) > InputCapacity - Len(conn[c].input)]_vars

\* oneshot/server.c bounds its input by itself: while a reply is sent, the
\* data of the receive it has in flight always fits the input.
OneshotInputFits ==
    \A i \in DOMAIN cq : cq[i].op[1] = "receive" =>
        LET k == conn[cq[i].op[2]]
        IN k.sending /\ ~k.failed /\ ~k.close_after_send
               => Len(cq[i].data) <= InputCapacity - Len(k.input)

\* main frees the receive pool and the ring only when the kernel holds no
\* operation and no buffer, and leaves no descriptor open.
CleanExit ==
    pc = "exited" => /\ sq = {} /\ kernel = {} /\ cq = <<>>
                     /\ free = Buffers /\ open = {}

\* A signal ends the worker: whatever it was doing, and although the signal
\* may come between the test of `stopping' and the wait.
StoppingEnds == stopping ~> pc = "exited"

\* A request that is complete in the input of a connection that is served is
\* answered, whatever is paused, cancelled or partially sent meanwhile: unless
\* the connection or one of its operations fails, or the worker stops.
Fails(c) == \/ conn[c].failed
            \/ \E i \in DOMAIN cq : cq[i].res = "error" /\ cq[i].op \in {Receive(c), Send(c)}

RequestsAnswered ==
    \A c \in Fds : \A n \in 0..MaxReplies :
        (Serving(c) /\ Len(wire[c]) = n /\ conn[c].input # <<>>
                    /\ Parsed(conn[c]).verdict # "incomplete")
            ~> (Len(wire[c]) > n \/ Fails(c) \/ stopping)

\* A connection that failed, that sent its last reply or whose peer ended its
\* stream is closed and freed: no operation keeps it for ever.
ClosingConnectionsFreed ==
    \A c \in Fds :
        (c \in connections /\ (conn[c].failed \/ conn[c].close_after_send \/ conn[c].read_eof))
            ~> c \notin connections
=============================================================================
