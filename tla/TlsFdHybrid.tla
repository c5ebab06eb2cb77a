---------------------------- MODULE TlsFdHybrid -----------------------------
(***************************************************************************)
(* tls-fd-hybrid/server.c: sockets are registered with epoll, edge         *)
(* triggered, and io_uring polls the epoll descriptor.  epoll_wait returns *)
(* a batch of at most MaxEvents connections, driven one after the other.   *)
(***************************************************************************)
EXTENDS TlsSocket

CONSTANT MaxEvents  \* the size of the events array

ASSUME EventsAssumption == MaxEvents \in Nat \ {0}

VARIABLE epoll  \* active and cancel_active: the poll of the epoll descriptor;
                \* ready: its ready list; batch: the rest of the events array

hybridVars == <<vars, epoll>>

Epoll == [active : BOOLEAN, cancel_active : BOOLEAN, ready : SUBSET Fds, batch : SUBSET Fds]

\* Mutant of WaitForIo: a registration is never modified.
WaitForIoOnce(d, verdict) ==
    IF d.k.poll_registered THEN d
    ELSE [d EXCEPT !.k.poll_registered = TRUE,
                   !.k.poll_events = IF verdict = "want_write" THEN "out" ELSE "in"]

\* wait_for_io: register the socket, or modify its events.
WaitForIo(d, verdict) ==
    [d EXCEPT !.k.poll_registered = TRUE,
              !.k.poll_events = IF verdict = "want_write" THEN "out" ELSE "in"]

DriveWaits(c) ==
    /\ Turning(c) /\ ~CanProceed(c)
    /\ Leave(WaitForIo(Turn(c).d, Turn(c).verdict))

-----------------------------------------------------------------------------
(* complete(), for the poll of the epoll descriptor.                       *)

\* What epoll reports of a registered socket; EPOLLRDHUP is always asked for.
EventReady(c) ==
    /\ conn[c].poll_registered
    /\ \/ socket[c].behind # "more"
       \/ IF conn[c].poll_events = "in" THEN Readable(c) ELSE Writable(c)

\* epoll_wait takes MaxEvents sockets off the ready list, in no order that
\* matters, and reports those that still are ready.
EpollWait ==
    \E taken \in SUBSET epoll.ready :
        /\ Cardinality(taken) = Min({MaxEvents, Cardinality(epoll.ready)})
        /\ epoll' = [epoll EXCEPT !.active = FALSE, !.ready = @ \ taken,
                                  !.batch = {c \in taken : EventReady(c)}]

EpollReady ==
    /\ Completes("epoll")
    /\ Head(cq).res = "ok" /\ ~stopping
    /\ EpollWait
    /\ pc' = "events"
    /\ UNCHANGED <<task, stopping, accept_active, connections, conn, ssl, sq, kernel, open>>

\* The worker stops: the events are left alone.
EpollEnded ==
    /\ Completes("epoll")
    /\ \/ Head(cq).res = "ok" /\ stopping /\ stopping' = stopping
       \/ Head(cq).res = "error" /\ stopping' = TRUE
       \/ Head(cq).res = "canceled" /\ stopping' = stopping
    /\ epoll' = [epoll EXCEPT !.active = FALSE]
    /\ pc' = "events"
    /\ UNCHANGED <<task, accept_active, connections, conn, ssl, sq, kernel, open>>

\* Mutant of DriveEvent: a socket has two events in the batch.
DriveEventAgain(c) ==
    /\ pc = "events" /\ c \in epoll.batch
    /\ \E more \in BOOLEAN : epoll' = [epoll EXCEPT !.batch = IF more THEN @ ELSE @ \ {c}]
    /\ pc' = "drive" /\ task' = Task(c, "events")
    /\ UNCHANGED <<stopping, shutdown_started, listening, connections, conn, ssl, sq, kernel,
                   doomed, cq, open, arrivals, socket>>

\* The next event of the batch.
DriveEvent(c) ==
    /\ pc = "events" /\ c \in epoll.batch
    /\ epoll' = [epoll EXCEPT !.batch = @ \ {c}]
    /\ pc' = "drive" /\ task' = Task(c, "events")
    /\ UNCHANGED <<stopping, shutdown_started, listening, connections, conn, ssl, sq, kernel,
                   doomed, cq, open, arrivals, socket>>

\* Mutant of WatchEpoll: the batch was not full, so nothing is left.
WatchEpollNever ==
    /\ pc = "events" /\ epoll.batch = {}
    /\ pc' = "reap"
    /\ UNCHANGED <<task, stopping, shutdown_started, listening, connections, conn, ssl, sq, kernel,
                   doomed, cq, open, arrivals, socket, epoll>>

\* The batch is done: watch_epoll.
WatchEpoll ==
    /\ pc = "events" /\ epoll.batch = {}
    /\ pc' = "reap"
    /\ LET d == IF stopping THEN [sq |-> sq, kernel |-> kernel]
                ELSE GetSqe([sq |-> sq, kernel |-> kernel], EpollOp)
       IN sq' = d.sq /\ kernel' = d.kernel
    /\ epoll' = [epoll EXCEPT !.active = ~stopping]
    /\ UNCHANGED <<task, stopping, shutdown_started, listening, connections, conn, ssl,
                   doomed, cq, open, arrivals, socket>>

CancelEpollCompleted ==
    /\ Completes("cancel_epoll")
    /\ epoll' = [epoll EXCEPT !.cancel_active = FALSE]
    /\ pc' = "reap"
    /\ UNCHANGED <<task, stopping, accept_active, connections, conn, ssl, sq, kernel, open>>

-----------------------------------------------------------------------------
(* epoll and the poll of its descriptor: external.                         *)

KernelPollsEpoll ==
    /\ EpollOp \in kernel /\ epoll.ready # {}
    /\ Completed(Cqe(EpollOp, "ok", FALSE))
    /\ UNCHANGED <<socket, epoll>>

KernelPollFails ==
    /\ EpollOp \in kernel /\ "operation_error" \in Environment
    /\ Completed(Cqe(EpollOp, "error", FALSE))
    /\ UNCHANGED <<socket, epoll>>

\* An edge puts a socket on the ready list if its events are those asked for.
Edge(c, events) ==
    epoll' = IF conn[c].poll_registered /\ conn[c].poll_events \in events
             THEN [epoll EXCEPT !.ready = @ \cup {c}] ELSE epoll

\* A registration that is added or modified finds what is ready already; one
\* whose descriptor is closed is deleted with it.
Registered(c) ==
    /\ conn[c]'.poll_registered
    /\ conn[c].poll_registered => conn[c].poll_events # conn[c]'.poll_events

EpollCtl == epoll' = [epoll EXCEPT !.ready =
    {c \in connections' : c \in @ \/ (Registered(c) /\ EventReady(c)')}]

-----------------------------------------------------------------------------
\* Mutant of HybridDraining: the poll of the epoll descriptor is forgotten.
DrainingSockets == Draining

HybridDraining == Draining \/ epoll.active \/ epoll.cancel_active

Shutdown ==
    /\ StartShutdown(HybridDraining, IF epoll.active THEN {CancelEpoll} ELSE {})
    /\ epoll' = [epoll EXCEPT !.cancel_active = @ \/ epoll.active,
                              !.ready = @ \cap connections']

Complete ==
    \/ Listen /\ UNCHANGED epoll
    \/ EpollReady \/ EpollEnded \/ WatchEpoll \/ CancelEpollCompleted
    \/ \E c \in Fds : DriveEvent(c)

Drive == \E c \in Fds : /\ DriveContinues(c) \/ DriveWaits(c) \/ DriveFails(c) \/ DriveDrained(c)
                       /\ EpollCtl

Main == \/ Shutdown
        \/ (Submit(HybridDraining) \/ NoCqeLeft \/ Exit(HybridDraining)) /\ UNCHANGED epoll

Thread == Complete \/ Drive \/ Main

Signal == (SignalStop \/ SubmitInterrupted(HybridDraining)) /\ UNCHANGED epoll

Kernel ==
    \/ (KernelAcceptFails \/ CancelSteps) /\ UNCHANGED epoll
    \/ KernelPollsEpoll \/ KernelPollFails
    \/ \E c \in Fds : \/ KernelAccepts(c) /\ UNCHANGED epoll
                      \/ PeerSends(c) /\ Edge(c, {"in"})
                      \/ PeerLeaves(c) /\ Edge(c, {"in", "out"})
                      \/ PeerReads(c, ssl[c].written) /\ Edge(c, {"out"})

\* The worker's end is not a deadlock.
Terminated == pc = "exited" /\ UNCHANGED hybridVars

Next == Thread \/ Signal \/ Kernel \/ Terminated

\* main watches epoll before it submits the listener.
HybridInit ==
    /\ pc = "loop" /\ task = NoTask /\ stopping = FALSE /\ shutdown_started = FALSE
    /\ accept_active = TRUE /\ accept_cancel_active = FALSE
    /\ connections = {} /\ conn = [c \in Fds |-> Freed] /\ ssl = [c \in Fds |-> NewSsl]
    /\ sq = {AcceptOp, EpollOp} /\ kernel = {} /\ doomed = {} /\ cq = <<>>
    /\ open = {} /\ arrivals = 0
    /\ socket = [c \in Fds |-> NoSocket]
    /\ epoll = [active |-> TRUE, cancel_active |-> FALSE, ready |-> {}, batch |-> {}]

Spec == HybridInit /\ [][Next]_hybridVars

-----------------------------------------------------------------------------
(* Properties.                                                             *)

\* The pointers in the events array and on epoll's ready list are those of
\* connections: none is freed while an event that names it is to be driven.
EventsNameConnections ==
    /\ epoll.ready \subseteq connections /\ epoll.batch \subseteq connections
    /\ \A c \in epoll.ready \cup epoll.batch : conn[c].poll_registered /\ ~conn[c].dead

\* What a batch leaves on the ready list is not forgotten: until the worker
\* stops, the epoll descriptor is watched whenever nothing is driven.
EpollWatched ==
    /\ epoll.active <=> Outstanding(EpollOp)
    /\ epoll.cancel_active <=> Outstanding(CancelEpoll)
    /\ ~stopping /\ pc # "events" /\ task.then # "events" => epoll.active

\* No wakeup is lost: a connection that nobody drives or is about to drive is
\* registered, and when OpenSSL can go on its edge is on the ready list, which
\* the worker watches.
NoLostWakeup ==
    /\ EpollWatched
    /\ \A c \in Fds : Alive(c) /\ ~Driving(c) /\ c \notin epoll.batch =>
          /\ conn[c].poll_registered
          /\ CanProceed(c) => c \in epoll.ready
=============================================================================
