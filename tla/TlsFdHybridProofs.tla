-------------------------- MODULE TlsFdHybridProofs --------------------------
(***************************************************************************)
(* tls-fd-hybrid, for every number of descriptors, queue entries and       *)
(* events, every script and environment: references and completions agree, *)
(* the events that epoll reports name connections that are alive, no edge  *)
(* is lost between the ready list, the batch and the registrations, main   *)
(* leaves nothing behind, and each peer is told its handshake, its replies *)
(* and close_notify in their order.  When peers follow the protocol, no    *)
(* repeated write is refused, and connections are finished for a reason.   *)
(***************************************************************************)
EXTENDS TlsFdHybrid, TlsWorkerProofs

-----------------------------------------------------------------------------
(* The inductive invariant.                                                *)

TasksOk == task.then \in {"none", "accept", "events"}

\* No operation of a connection is ever prepared: its owner's reference is the
\* only one, and finish() frees it.
IdleOk == \A c \in connections : ~conn[c].dead /\ conn[c].references = 1

EpollOk ==
    /\ epoll \in Epoll
    /\ epoll.active <=> EpollOp \in Pending
    /\ epoll.cancel_active <=> CancelEpoll \in Pending
    /\ epoll.cancel_active => shutdown_started

\* A batch of events is being driven: meanwhile the epoll descriptor is not
\* watched, and otherwise it is until the worker stops.
Delivering == pc = "events" \/ task.then = "events"

DeliveryOk ==
    /\ epoll.batch # {} => Delivering
    /\ Delivering => ~epoll.active
    /\ ~Delivering /\ ~stopping => epoll.active

EventsOk ==
    /\ epoll.ready \subseteq connections /\ epoll.batch \subseteq connections
    /\ \A c \in epoll.ready \cup epoll.batch : conn[c].poll_registered

\* A connection is registered for what it lacks; when that has come already,
\* its edge is on the ready list.
WaitsEvent(c) ==
    /\ conn[c].poll_registered
    /\ \/ /\ conn[c].poll_events = "in" /\ NeedsInput(conn[c], ssl[c])
          /\ Readable(c) => c \in epoll.ready
       \/ /\ conn[c].poll_events = "out" /\ NeedsOutput(conn[c], ssl[c])
          /\ Writable(c) => c \in epoll.ready

WaitsOk ==
    \A c \in connections :
        IF Driving(c) THEN c \notin epoll.batch ELSE c \in epoll.batch \/ WaitsEvent(c)

ExitOk == pc = "exited" => ~HybridDraining

EventInv == TasksOk /\ IdleOk /\ EpollOk /\ DeliveryOk /\ EventsOk /\ WaitsOk /\ ExitOk

HybridInv == CoreInv /\ EventInv

LEMMA BiosAreOk ==
    ASSUME CoreInv, NEW c \in Fds
    PROVE  /\ BiosOk(Bios(c)) /\ ssl[c].fetched <= Bios(c).available
           /\ Bios(c).available = socket[c].arrived /\ Bios(c).behind = socket[c].behind
           /\ Bios(c).limit = socket[c].read + SendBuffer
<1>1. socket[c] \in Socket
  BY DEF CoreInv, TypeOK
<1>2. /\ socket[c].script \in Seq(PeerRecord) /\ socket[c].arrived \in Nat
      /\ socket[c].behind \in {"more", "eof", "reset"}
      /\ socket[c].read + SendBuffer \in Nat
  <2>1. /\ socket[c].script \in Scripts \cup {<<>>} /\ socket[c].arrived \in Nat
        /\ socket[c].behind \in {"more", "eof", "reset"} /\ socket[c].read \in Nat
    BY <1>1 DEF Socket
  <2>2. Scripts \cup {<<>>} \subseteq Seq(PeerRecord)
    BY WorkerAssumption, EmptySeq
  <2>3. SendBuffer \in Nat
    BY WorkerAssumption
  <2> DEFINE n == socket[c].read
  <2>4. n \in Nat
    BY <2>1
  <2> HIDE DEF n
  <2>5. n + SendBuffer \in Nat
    BY <2>3, <2>4
  <2>. QED  BY <2>1, <2>2, <2>5 DEF n
<1>3. /\ ssl[c].fetched <= socket[c].arrived
      /\ socket[c].arrived <= RecordPieces * Len(socket[c].script)
  BY DEF CoreInv, SocketsOk
<1>. QED  BY <1>2, <1>3 DEF BiosOk, Bios

\* The fields of the epoll record, one replaced at a time.
LEMMA EpollFields ==
    ASSUME epoll \in Epoll
    PROVE  /\ epoll.active \in BOOLEAN /\ epoll.cancel_active \in BOOLEAN
           /\ epoll.ready \subseteq Fds /\ epoll.batch \subseteq Fds
           /\ \A r \in SUBSET Fds :
                 LET e == [epoll EXCEPT !.ready = r]
                 IN /\ e \in Epoll /\ e.ready = r /\ e.batch = epoll.batch
                    /\ e.active = epoll.active /\ e.cancel_active = epoll.cancel_active
           /\ \A b \in SUBSET Fds :
                 LET e == [epoll EXCEPT !.batch = b]
                 IN /\ e \in Epoll /\ e.ready = epoll.ready /\ e.batch = b
                    /\ e.active = epoll.active /\ e.cancel_active = epoll.cancel_active
           /\ \A a \in BOOLEAN :
                 LET e == [epoll EXCEPT !.active = a]
                 IN /\ e \in Epoll /\ e.ready = epoll.ready /\ e.batch = epoll.batch
                    /\ e.active = a /\ e.cancel_active = epoll.cancel_active
  BY DEF Epoll

-----------------------------------------------------------------------------
(* Steps that leave the connections alone: edges may come.                 *)

LEMMA EdgesKept ==
    ASSUME HybridInv, EpollKept, UNCHANGED <<task, connections, conn, ssl>>,
           shutdown_started => shutdown_started', stopping => stopping',
           pc' = "drive" <=> pc = "drive", pc' = "events" <=> pc = "events",
           pc' = "exited" => ~HybridDraining',
           epoll' \in Epoll, epoll'.batch = epoll.batch,
           epoll'.active = epoll.active, epoll'.cancel_active = epoll.cancel_active,
           epoll.ready \subseteq epoll'.ready,
           \A c \in epoll'.ready : c \in epoll.ready
                                      \/ (c \in connections /\ conn[c].poll_registered),
           \A c \in connections : conn[c].poll_registered =>
              /\ conn[c].poll_events = "in" /\ Readable(c)' => Readable(c) \/ c \in epoll'.ready
              /\ conn[c].poll_events = "out" /\ Writable(c)' => Writable(c) \/ c \in epoll'.ready
    PROVE  EventInv'
<1>1. TasksOk' /\ IdleOk' /\ ExitOk'
  BY DEF HybridInv, EventInv, TasksOk, IdleOk, ExitOk
<1>2. EpollOk'
  BY DEF HybridInv, EventInv, EpollOk, EpollKept
<1>3. Delivering' <=> Delivering
  BY DEF Delivering
<1>4. DeliveryOk'
  BY <1>3 DEF HybridInv, EventInv, DeliveryOk
<1>5. EventsOk'
  BY DEF HybridInv, EventInv, EventsOk
<1>6. ASSUME NEW c \in connections
      PROVE  IF Driving(c)' THEN c \notin epoll'.batch ELSE c \in epoll'.batch \/ WaitsEvent(c)'
  <2>1. Driving(c)' <=> Driving(c)
    BY DEF Driving
  <2>2. WaitsEvent(c) => WaitsEvent(c)'
    BY DEF WaitsEvent
  <2>. QED  BY <2>1, <2>2 DEF HybridInv, EventInv, WaitsOk
<1>7. WaitsOk'
  BY <1>6 DEF WaitsOk
<1>. QED  BY <1>1, <1>2, <1>4, <1>5, <1>7 DEF EventInv

LEMMA RestKept ==
    ASSUME HybridInv, EpollKept, UNCHANGED <<task, connections, conn, ssl, epoll>>,
           shutdown_started => shutdown_started', stopping => stopping',
           pc' = "drive" <=> pc = "drive", pc' = "events" <=> pc = "events",
           pc' = "exited" => ~HybridDraining',
           \A c \in connections : socket'[c] = socket[c]
    PROVE  EventInv'
<1>1. \A c \in connections : (Readable(c)' <=> Readable(c)) /\ (Writable(c)' <=> Writable(c))
  BY DEF Readable, Writable
<1>2. epoll' = epoll /\ epoll \in Epoll
  BY DEF HybridInv, EventInv, EpollOk
<1>3. \A c \in connections : conn[c].poll_registered =>
         /\ conn[c].poll_events = "in" /\ Readable(c)' => Readable(c) \/ c \in epoll'.ready
         /\ conn[c].poll_events = "out" /\ Writable(c)' => Writable(c) \/ c \in epoll'.ready
  BY <1>1
<1>4. /\ epoll' \in Epoll /\ epoll'.batch = epoll.batch
      /\ epoll'.active = epoll.active /\ epoll'.cancel_active = epoll.cancel_active
      /\ epoll.ready \subseteq epoll'.ready
  BY <1>2
<1>6. \A c \in epoll'.ready : c \in epoll.ready
                                \/ (c \in connections /\ conn[c].poll_registered)
  BY <1>2
<1>5. UNCHANGED <<task, connections, conn, ssl>>
  OBVIOUS
<1>. QED  BY <1>3, <1>4, <1>5, <1>6, EdgesKept

\* Between two completions no batch is being driven.
LEMMA BetweenCompletions ==
    ASSUME HybridInv, pc \in {"loop", "wait", "reap"}
    PROVE  /\ task = NoTask /\ ~Delivering /\ epoll.batch = {}
           /\ \A c \in connections : ~Driving(c) /\ WaitsEvent(c)
<1>1. task = NoTask
  BY DEF HybridInv, CoreInv, TaskOk
<1>2. ~Delivering
  BY <1>1 DEF Delivering, NoTask, Task
<1>. QED  BY <1>1, <1>2 DEF HybridInv, EventInv, DeliveryOk, WaitsOk, Driving

LEMMA ListenStep ==
    ASSUME HybridInv, Listen, UNCHANGED epoll
    PROVE  HybridInv'
<1>1. CoreInv' /\ EpollKept
  BY ListenKeeps DEF HybridInv
<1>2. CASE AcceptedConnection
  <2> DEFINE c == Head(cq).fd
  <2>1. /\ pc \in {"wait", "reap"} /\ pc' = "drive" /\ task' = Task(c, "accept")
        /\ connections' = connections \cup {c}
        /\ conn' = [conn EXCEPT ![c] = NewConnection]
        /\ ssl' = [ssl EXCEPT ![c] = NewSsl]
        /\ UNCHANGED <<stopping, shutdown_started, socket>>
    BY <1>2 DEF AcceptedConnection, Completes
  <2>2. c \in Fds \ connections
    BY <1>2, AcceptedConnectionKeeps DEF HybridInv
  <2> HIDE DEF c
  <2>3. /\ conn \in [Fds -> Connection] /\ ssl \in [Fds -> Ssl] /\ connections \subseteq Fds
    BY DEF HybridInv, CoreInv, TypeOK
  <2>4. task'.fd = c /\ task'.then = "accept"
    BY <2>1 DEF Task
  <2>5. /\ task = NoTask /\ ~Delivering /\ epoll.batch = {}
        /\ \A b \in connections : ~Driving(b) /\ WaitsEvent(b)
    BY <2>1, BetweenCompletions
  <2>6. /\ \A b \in connections : b # c /\ conn'[b] = conn[b] /\ ssl'[b] = ssl[b]
        /\ conn'[c] = NewConnection
    BY <2>1, <2>2, <2>3
  <2>7. TasksOk' /\ IdleOk' /\ ExitOk'
    BY <2>1, <2>4, <2>6, FreshTypes DEF HybridInv, EventInv, TasksOk, IdleOk, ExitOk
  <2>8. EpollOk'
    BY <1>1, <2>1 DEF HybridInv, EventInv, EpollOk, EpollKept
  <2>9. DeliveryOk'
    BY <2>1, <2>4, <2>5 DEF HybridInv, EventInv, DeliveryOk, Delivering
  <2>10. EventsOk'
    BY <2>1, <2>5, <2>6 DEF HybridInv, EventInv, EventsOk
  <2>11. ASSUME NEW b \in connections'
         PROVE  IF Driving(b)' THEN b \notin epoll'.batch ELSE b \in epoll'.batch \/ WaitsEvent(b)'
    <3>1. CASE b = c
      BY <2>1, <2>4, <2>5, <3>1 DEF Driving
    <3>2. CASE b # c
      <4>1. b \in connections /\ conn'[b] = conn[b] /\ ssl'[b] = ssl[b] /\ ~Driving(b)'
        BY <2>1, <2>4, <2>6, <3>2 DEF Driving
      <4>2. WaitsEvent(b)'
        BY <2>1, <2>5, <4>1 DEF WaitsEvent, Readable, Writable
      <4>. QED  BY <4>1, <4>2
    <3>. QED  BY <3>1, <3>2
  <2>12. WaitsOk'
    BY <2>11 DEF WaitsOk
  <2>. QED  BY <1>1, <2>7, <2>8, <2>9, <2>10, <2>12 DEF HybridInv, EventInv
<1>3. CASE AcceptedWhileStopping \/ AcceptEnded \/ CancelAcceptCompleted
  <2>1. /\ pc \in {"wait", "reap"} /\ pc' = "reap"
        /\ stopping => stopping'
        /\ UNCHANGED <<task, connections, conn, ssl, shutdown_started, socket>>
    <3>1. CASE AcceptedWhileStopping
      BY <3>1 DEF AcceptedWhileStopping, Completes
    <3>2. CASE AcceptEnded
      BY <3>2, QuietFacts DEF AcceptEnded, Completes, HybridInv
    <3>3. CASE CancelAcceptCompleted
      BY <3>3 DEF CancelAcceptCompleted
    <3>. QED  BY <1>3, <3>1, <3>2, <3>3
  <2>. QED  BY <1>1, <2>1, RestKept DEF HybridInv
<1>. QED  BY <1>2, <1>3 DEF Listen

-----------------------------------------------------------------------------
(* main and the signal.                                                    *)

LEMMA SignalStep ==
    ASSUME HybridInv, Signal
    PROVE  HybridInv'
<1>1. CoreInv' /\ EpollKept /\ UNCHANGED epoll
  BY SignalStopKeeps, MainKeeps DEF HybridInv, Signal
<1>2. CASE SignalStop
  <2>1. /\ UNCHANGED <<task, connections, conn, ssl, shutdown_started, socket>>
        /\ stopping' = TRUE
        /\ pc' = pc \/ (pc = "wait" /\ pc' = "loop")
        /\ pc # "exited"
    BY <1>2 DEF SignalStop
  <2>. QED  BY <1>1, <2>1, RestKept DEF HybridInv
<1>3. CASE SubmitInterrupted(HybridDraining)
  <2>1. /\ UNCHANGED <<task, connections, conn, ssl, shutdown_started, socket>>
        /\ stopping' = TRUE /\ pc = "loop" /\ pc' = "wait"
    BY <1>3 DEF SubmitInterrupted
  <2>. QED  BY <1>1, <2>1, RestKept DEF HybridInv
<1>. QED  BY <1>2, <1>3 DEF Signal

\* finish() of a connection without an operation drops its only reference.
LEMMA FinishFrees ==
    ASSUME NEW d \in Contexts, ~d.k.dead, ~d.k.input_active, ~d.k.output_active,
           d.k.references = 1
    PROVE  Finish(d).k.references = 0
<1> DEFINE k == [d.k EXCEPT !.dead = TRUE, !.poll_registered = FALSE]
           e == [d EXCEPT !.k.dead = TRUE, !.k.poll_registered = FALSE]
<1>1. d.k \in Connection
  BY DEF Contexts
<1>2. k \in Connection /\ ~k.input_active /\ ~k.output_active /\ k.references = 1
  BY <1>1 DEF Connection
<1>3. e = [d EXCEPT !.k = k]
  BY DEF Contexts
<1> HIDE DEF k
<1>4. e.k = k
  BY <1>3 DEF Contexts
<1>5. Finish(d) = Release(FinishOutput(FinishInput(e)))
  BY DEF Finish
<1> HIDE DEF e
<1>6. FinishInput(e) = e /\ FinishOutput(e) = e
  BY <1>2, <1>4 DEF FinishInput, FinishOutput
<1>7. Release(e).k = [k EXCEPT !.references = k.references - 1]
  <2>1. e = [d EXCEPT !.k = k]
    BY <1>3
  <2>. QED  BY <1>4, <2>1 DEF Release, Contexts
<1>8. \A n : [k EXCEPT !.references = n].references = n
  BY <1>2 DEF Connection
<1>. QED  BY <1>2, <1>5, <1>6, <1>7, <1>8

\* What the invariant says of a connection's accounts.
LEMMA IdleConnection ==
    ASSUME HybridInv, NEW c \in connections
    PROVE  /\ c \in Fds /\ conn[c] \in Connection /\ ~conn[c].dead /\ conn[c].references = 1
           /\ ~conn[c].input_active /\ ~conn[c].output_active /\ Held(c) = 0
<1>1. c \in Fds /\ conn[c] \in Connection /\ ~conn[c].dead /\ conn[c].references = 1
  BY DEF HybridInv, CoreInv, TypeOK, EventInv, IdleOk
<1>2. Held(c) = 0
  BY DEF HybridInv, EventInv, TasksOk, Held, Count, Task
<1>3. Accounts(c, conn[c], Pending, Held(c))
  BY DEF HybridInv, CoreInv, ConnectionsOk
<1>4. Input(c) \notin Pending /\ Output(c) \notin Pending
  BY <1>1, <1>2, <1>3 DEF Accounts, Count
<1>. QED  BY <1>1, <1>2, <1>3, <1>4 DEF Accounts

LEMMA ShutdownFrees ==
    ASSUME HybridInv, NEW draining, NEW cancels, StartShutdown(draining, cancels)
    PROVE  connections' = {}
<1>1. ASSUME NEW c \in connections
      PROVE  FinishedAll[c].k.references = 0
  <2> DEFINE d == [Context(c) EXCEPT !.sq = {}, !.kernel = {}]
  <2>1. /\ conn[c] \in Connection /\ ~conn[c].dead /\ conn[c].references = 1
        /\ ~conn[c].input_active /\ ~conn[c].output_active
    BY IdleConnection
  <2>2. Context(c) \in Contexts /\ Context(c).k = conn[c]
    BY ContextGood DEF HybridInv
  <2>3. d \in Contexts /\ d.k = conn[c]
    BY <2>2 DEF Contexts
  <2>4. Finished(c) = Finish(d)
    BY DEF Finished
  <2> HIDE DEF d
  <2>5. Finish(d).k.references = 0
    BY <2>1, <2>3, FinishFrees
  <2>. QED  BY <2>4, <2>5 DEF FinishedAll
<1>. QED  BY <1>1 DEF StartShutdown

LEMMA ShutdownStep ==
    ASSUME HybridInv, Shutdown
    PROVE  HybridInv'
<1> DEFINE cancels == IF epoll.active THEN {CancelEpoll} ELSE {}
<1>1. StartShutdown(HybridDraining, cancels)
  BY DEF Shutdown
<1>2. /\ pc = "loop" /\ pc' = "wait" /\ stopping /\ ~shutdown_started /\ shutdown_started'
      /\ UNCHANGED <<task, stopping>>
  BY <1>1 DEF StartShutdown
<1>3. /\ epoll \in Epoll /\ ~epoll.cancel_active
      /\ epoll.active <=> EpollOp \in Pending
      /\ CancelEpoll \notin Pending
  BY <1>2 DEF HybridInv, EventInv, EpollOk
<1>4. /\ cancels \in SUBSET {CancelEpoll} /\ cancels \cap Pending = {}
      /\ CancelEpoll \in cancels <=> epoll.active
  BY <1>3
<1> HIDE DEF cancels
<1>5. /\ CoreInv'
      /\ EpollOp \in Pending' <=> EpollOp \in Pending
      /\ CancelEpoll \in Pending' <=> CancelEpoll \in Pending \cup cancels
  BY <1>1, <1>4, StartShutdownKeeps DEF HybridInv
<1>6. connections' = {}
  BY <1>1, ShutdownFrees
<1>7. /\ epoll' \in Epoll /\ epoll'.active = epoll.active /\ epoll'.batch = epoll.batch
      /\ epoll'.cancel_active = epoll.active /\ epoll'.ready = {}
  <2>1. epoll.active \in BOOLEAN /\ epoll.cancel_active \in BOOLEAN
    BY <1>3 DEF Epoll
  <2>2. epoll' = [epoll EXCEPT !.cancel_active = @ \/ epoll.active, !.ready = @ \cap connections']
    BY DEF Shutdown
  <2>3. (epoll.cancel_active \/ epoll.active) = epoll.active
    BY <1>3, <2>1
  <2>4. epoll' = [epoll EXCEPT !.cancel_active = epoll.active, !.ready = {}]
    BY <1>3, <1>6, <2>2, <2>3 DEF Epoll
  <2>. QED  BY <1>3, <2>1, <2>4 DEF Epoll
<1>8. task = NoTask /\ ~Delivering /\ epoll.batch = {}
  BY <1>2, BetweenCompletions
<1>9. TasksOk' /\ IdleOk' /\ ExitOk' /\ EventsOk' /\ WaitsOk'
  BY <1>2, <1>6, <1>7, <1>8 DEF TasksOk, IdleOk, ExitOk, EventsOk, WaitsOk, NoTask, Task
<1>10. EpollOk'
  BY <1>2, <1>3, <1>4, <1>5, <1>7 DEF EpollOk
<1>11. DeliveryOk'
  BY <1>2, <1>7, <1>8 DEF DeliveryOk, Delivering, NoTask, Task
<1>. QED  BY <1>5, <1>9, <1>10, <1>11 DEF HybridInv, EventInv

LEMMA MainStep ==
    ASSUME HybridInv, Main
    PROVE  HybridInv'
<1>1. CASE Shutdown
  BY <1>1, ShutdownStep
<1>2. CASE (Submit(HybridDraining) \/ NoCqeLeft \/ Exit(HybridDraining)) /\ UNCHANGED epoll
  <2>1. CoreInv' /\ EpollKept
    BY <1>2, MainKeeps DEF HybridInv
  <2>2. /\ UNCHANGED <<task, connections, conn, ssl, epoll, socket, stopping, shutdown_started>>
        /\ pc \in {"loop", "wait", "reap"} /\ pc' \in {"loop", "wait", "exited"}
        /\ pc' = "exited" => ~HybridDraining'
    BY <1>2 DEF Submit, NoCqeLeft, Exit, HybridDraining, Draining, listening
  <2>. QED  BY <2>1, <2>2, RestKept DEF HybridInv
<1>. QED  BY <1>1, <1>2 DEF Main

-----------------------------------------------------------------------------
(* The kernel and the peers.                                               *)

\* An edge is put on the ready list if it is one that is asked for.
LEMMA EdgeStep ==
    ASSUME HybridInv, UNCHANGED worker, EpollKept, NEW c \in Fds, NEW events, Edge(c, events),
           \A b \in Fds : b # c => socket'[b] = socket[b],
           "in" \notin events => (Readable(c)' => Readable(c)),
           "out" \notin events => (Writable(c)' => Writable(c))
    PROVE  EventInv'
<1>1. UNCHANGED <<pc, task, connections, conn, ssl, stopping, shutdown_started,
                  accept_active, accept_cancel_active>>
  BY DEF worker
<1>2. connections \subseteq Fds /\ epoll \in Epoll
  BY DEF HybridInv, CoreInv, TypeOK, EventInv, EpollOk
<1>3. conn[c].poll_registered => c \in connections
  BY DEF HybridInv, CoreInv, OthersOk, Freed, NewConnection
<1> DEFINE ready == epoll'.ready
           edge == conn[c].poll_registered /\ conn[c].poll_events \in events
<1>4. /\ epoll' \in Epoll /\ epoll'.batch = epoll.batch
      /\ epoll'.active = epoll.active /\ epoll'.cancel_active = epoll.cancel_active
      /\ ready = IF edge THEN epoll.ready \cup {c} ELSE epoll.ready
  <2>1. CASE edge
    BY <1>2, <2>1 DEF Edge, Epoll
  <2>2. CASE ~edge
    BY <1>2, <2>2 DEF Edge
  <2>. QED  BY <2>1, <2>2
<1> HIDE DEF ready
<1>5. /\ epoll.ready \subseteq ready
      /\ \A b \in ready : b \in epoll.ready \/ (b \in connections /\ conn[b].poll_registered)
  BY <1>3, <1>4
<1>6. ASSUME NEW b \in connections, conn[b].poll_registered
      PROVE  /\ conn[b].poll_events = "in" /\ Readable(b)' => Readable(b) \/ b \in ready
             /\ conn[b].poll_events = "out" /\ Writable(b)' => Writable(b) \/ b \in ready
  <2>1. CASE b = c
    BY <1>4, <1>6, <2>1
  <2>2. CASE b # c
    <3>1. socket'[b] = socket[b] /\ conn'[b] = conn[b] /\ ssl'[b] = ssl[b]
      BY <1>1, <1>2, <2>2
    <3>. QED  BY <3>1 DEF Readable, Writable
  <2>. QED  BY <2>1, <2>2
<1>7. pc' = "exited" => ~HybridDraining'
  BY <1>1, <1>4 DEF HybridInv, EventInv, ExitOk, HybridDraining, Draining
<1>. QED  BY <1>1, <1>4, <1>5, <1>6, <1>7, EdgesKept DEF ready

LEMMA KernelStep ==
    ASSUME HybridInv, Kernel
    PROVE  HybridInv'
<1>1. socket \in [Fds -> Socket] /\ ssl \in [Fds -> Ssl] /\ connections \subseteq Fds
  BY DEF HybridInv, CoreInv, TypeOK
<1>2. ASSUME UNCHANGED worker, UNCHANGED epoll, CoreInv', EpollKept,
             \A c \in connections : socket'[c] = socket[c]
      PROVE  HybridInv'
  <2>1. /\ UNCHANGED <<pc, task, connections, conn, ssl, stopping, shutdown_started>>
        /\ UNCHANGED <<accept_active, accept_cancel_active>>
    BY <1>2 DEF worker
  <2>2. pc' = "exited" => ~HybridDraining'
    BY <1>2, <2>1 DEF HybridInv, EventInv, ExitOk, HybridDraining, Draining
  <2>. QED  BY <1>2, <2>1, <2>2, RestKept DEF HybridInv
<1>3. CASE (KernelAcceptFails \/ CancelSteps) /\ UNCHANGED epoll
  <2>1. CoreInv' /\ EpollKept
    BY <1>3, KernelFailsKeeps, CancelStepsKeep DEF HybridInv
  <2>2. UNCHANGED worker /\ UNCHANGED socket
    BY <1>3 DEF KernelAcceptFails, CancelSteps, KernelFindsTarget, KernelEndsTarget,
                KernelCancels, Completed
  <2>. QED  BY <1>2, <1>3, <2>1, <2>2
<1>4. CASE KernelPollsEpoll \/ KernelPollFails
  <2>1. CoreInv' /\ EpollKept
    BY <1>4, OperationNames, LastCqePosted DEF HybridInv, KernelPollsEpoll, KernelPollFails
  <2>2. UNCHANGED worker /\ UNCHANGED socket /\ UNCHANGED epoll
    BY <1>4 DEF KernelPollsEpoll, KernelPollFails, Completed
  <2>. QED  BY <1>2, <2>1, <2>2
<1>5. ASSUME NEW c \in Fds, KernelAccepts(c) /\ UNCHANGED epoll
      PROVE  HybridInv'
  <2>1. CoreInv' /\ EpollKept
    BY <1>5, KernelAcceptsKeeps DEF HybridInv
  <2>2. UNCHANGED worker /\ c \notin open
    BY <1>5 DEF KernelAccepts
  <2>3. c \notin connections
    BY <2>2 DEF HybridInv, CoreInv, DescriptorsOk
  <2>4. \A b \in connections : socket'[b] = socket[b]
    BY <1>1, <1>5, <2>3 DEF KernelAccepts
  <2>. QED  BY <1>2, <1>5, <2>1, <2>2, <2>4
<1>6. ASSUME NEW c \in Fds, PeerSends(c) /\ Edge(c, {"in"})
      PROVE  HybridInv'
  <2>1. CoreInv' /\ EpollKept
    BY <1>6, PeerSendsKeeps DEF HybridInv
  <2>2. UNCHANGED worker /\ \A b \in Fds : b # c => socket'[b] = socket[b]
    BY <1>1, <1>6 DEF PeerSends
  <2>3. Writable(c)' => Writable(c)
    <3>1. socket'[c].read = socket[c].read /\ socket'[c].behind = socket[c].behind
      BY <1>1, <1>6 DEF PeerSends, Socket
    <3>. QED  BY <2>2, <3>1 DEF Writable, worker
  <2>4. "in" \in {"in"}
    OBVIOUS
  <2>5. EventInv'
    BY <1>6, <2>1, <2>2, <2>3, <2>4, EdgeStep
  <2>. QED  BY <2>1, <2>5 DEF HybridInv
<1>7. ASSUME NEW c \in Fds, PeerLeaves(c) /\ Edge(c, {"in", "out"})
      PROVE  HybridInv'
  <2>1. CoreInv' /\ EpollKept
    BY <1>7, PeerLeavesKeeps DEF HybridInv
  <2>2. UNCHANGED worker /\ \A b \in Fds : b # c => socket'[b] = socket[b]
    BY <1>1, <1>7 DEF PeerLeaves
  <2>3. EventInv'
    BY <1>7, <2>1, <2>2, EdgeStep
  <2>. QED  BY <2>1, <2>3 DEF HybridInv
<1>8. ASSUME NEW c \in Fds, PeerReads(c, ssl[c].written) /\ Edge(c, {"out"})
      PROVE  HybridInv'
  <2>1. ssl[c].written \in Nat
    BY <1>1 DEF Ssl
  <2>2. CoreInv' /\ EpollKept
    BY <1>8, <2>1, PeerReadsKeeps DEF HybridInv
  <2>3. UNCHANGED worker /\ \A b \in Fds : b # c => socket'[b] = socket[b]
    BY <1>1, <1>8 DEF PeerReads
  <2>4. Readable(c)' => Readable(c)
    <3>1. socket'[c].arrived = socket[c].arrived /\ socket'[c].behind = socket[c].behind
      BY <1>1, <1>8 DEF PeerReads, Socket
    <3>. QED  BY <2>3, <3>1 DEF Readable, worker
  <2>5. EventInv'
    BY <1>8, <2>2, <2>3, <2>4, EdgeStep
  <2>. QED  BY <2>2, <2>5 DEF HybridInv
<1>. QED  BY <1>3, <1>4, <1>5, <1>6, <1>7, <1>8 DEF Kernel

-----------------------------------------------------------------------------
(* Completions of the poll of the epoll descriptor, and of its cancel.     *)

\* The CQE is taken, its operation has ended and nothing else has changed.
LEMMA EpollCqe ==
    ASSUME HybridInv, NEW op \in {EpollOp, CancelEpoll}, Completes(op[1]),
           pc' \in {"reap", "events"}, stopping' \in BOOLEAN,
           UNCHANGED <<task, accept_active, connections, conn, ssl, sq, kernel, open>>
    PROVE  /\ CoreInv' /\ op \notin Pending'
           /\ \A other : other # op => (other \in Pending' <=> other \in Pending)
           /\ pc \in {"wait", "reap"} /\ UNCHANGED <<shutdown_started, accept_cancel_active, socket>>
<1> DEFINE h == Head(cq)
<1>1. /\ pc \in {"wait", "reap"} /\ cq # <<>> /\ h.op[1] = op[1] /\ cq' = Tail(cq)
      /\ UNCHANGED <<shutdown_started, accept_cancel_active, doomed, arrivals, socket>>
  BY DEF Completes
<1>2. h.op \in Operations
  BY <1>1, OldestCqe DEF HybridInv, CoreInv, TypeOK
<1>3. h.op = op
  BY <1>1, <1>2, OperationKinds
<1>4. op # AcceptOp /\ op # CancelAccept /\ op \in WorkerOps
  BY OperationNames DEF WorkerOps
<1> HIDE DEF h
<1>5. /\ h.fd # NULL <=> h.op = AcceptOp /\ h.res = "ok"
      /\ h.more => h.op = AcceptOp /\ h.res = "ok" /\ h.op \in Pending'
      /\ ~h.more => h.op \notin Pending' /\ h.op \in EndedOps
      /\ \A other : other # h.op => (other \in Pending' <=> other \in Pending)
  BY <1>1, CqeTaken DEF HybridInv, h
<1>6. h.fd = NULL /\ op \notin Pending'
  BY <1>3, <1>4, <1>5
<1>7. open' = open \ {h.fd}
  BY <1>6, WorkerAssumption DEF HybridInv, CoreInv, TypeOK
<1>8. /\ accept_active' \in BOOLEAN /\ accept_cancel_active' \in BOOLEAN
      /\ accept_active' <=> AcceptOp \in Pending'
      /\ accept_cancel_active' <=> CancelAccept \in Pending'
  BY <1>1, <1>3, <1>4, <1>5 DEF HybridInv, CoreInv, TypeOK, ListenerOk
<1>9. CoreInv'
  BY <1>1, <1>3, <1>4, <1>7, <1>8, WorkerCqeTaken DEF HybridInv, h
<1>. QED  BY <1>1, <1>3, <1>5, <1>6, <1>9

\* Sockets leave the ready list: those that are still ready are in the batch.
LEMMA BatchTaken ==
    ASSUME HybridInv, pc \in {"wait", "reap"}, pc' \in {"reap", "events"},
           UNCHANGED <<task, connections, conn, ssl, socket, shutdown_started>>,
           stopping => stopping',
           EpollOk', epoll'.ready \subseteq epoll.ready, epoll'.batch \subseteq epoll.ready,
           epoll'.batch # {} => pc' = "events",
           pc' = "events" => ~epoll'.active,
           pc' = "reap" => epoll'.active = epoll.active,
           \A c \in epoll.ready : c \in epoll'.ready \/ c \in epoll'.batch \/ ~EventReady(c)
    PROVE  EventInv'
<1>1. /\ task = NoTask /\ task' = NoTask /\ ~Delivering
      /\ \A c \in connections : ~Driving(c) /\ WaitsEvent(c)
  BY BetweenCompletions
<1>2. TasksOk' /\ IdleOk' /\ ExitOk'
  BY <1>1 DEF HybridInv, EventInv, TasksOk, IdleOk, ExitOk
<1>3. Delivering' <=> pc' = "events"
  BY <1>1 DEF Delivering, NoTask, Task
<1>4. DeliveryOk'
  BY <1>1, <1>3 DEF HybridInv, EventInv, DeliveryOk
<1>5. EventsOk'
  BY DEF HybridInv, EventInv, EventsOk
<1>6. ASSUME NEW c \in connections
      PROVE  ~Driving(c)' /\ (c \in epoll'.batch \/ WaitsEvent(c)')
  <2>1. ~Driving(c)'
    BY DEF Driving
  <2>2. WaitsEvent(c)
    BY <1>1
  <2>3. /\ Readable(c)' <=> Readable(c)
        /\ Writable(c)' <=> Writable(c)
    BY DEF Readable, Writable
  <2>4. CASE c \notin epoll.ready \/ c \in epoll'.ready
    BY <2>1, <2>2, <2>3, <2>4 DEF WaitsEvent
  <2>5. CASE c \in epoll.ready /\ ~EventReady(c)
    <3>1. /\ conn[c].poll_events = "in" => ~Readable(c)
          /\ conn[c].poll_events = "out" => ~Writable(c)
      BY <2>2, <2>5 DEF EventReady, WaitsEvent
    <3>. QED  BY <2>1, <2>2, <2>3, <3>1 DEF WaitsEvent
  <2>. QED  BY <2>1, <2>4, <2>5
<1>7. WaitsOk'
  BY <1>6 DEF WaitsOk
<1>. QED  BY <1>2, <1>4, <1>5, <1>7 DEF EventInv

LEMMA EpollStep ==
    ASSUME HybridInv, EpollReady \/ EpollEnded \/ CancelEpollCompleted
    PROVE  HybridInv'
<1>1. EpollOp[1] = "epoll" /\ CancelEpoll[1] = "cancel_epoll" /\ EpollOp # CancelEpoll
  BY OperationKinds, OperationNames
<1>2. /\ epoll \in Epoll
      /\ epoll.cancel_active => shutdown_started
      /\ epoll.active <=> EpollOp \in Pending
      /\ epoll.cancel_active <=> CancelEpoll \in Pending
  BY DEF HybridInv, EventInv, EpollOk
<1>3. epoll.ready \subseteq connections /\ connections \subseteq Fds
  BY DEF HybridInv, EventInv, EventsOk, CoreInv, TypeOK
<1>4. stopping \in BOOLEAN
  BY DEF HybridInv, CoreInv, TypeOK
<1>5. CASE EpollReady
  <2>1. /\ Completes(EpollOp[1]) /\ pc' = "events" /\ EpollWait
        /\ UNCHANGED <<task, stopping, accept_active, connections, conn, ssl, sq, kernel, open>>
    BY <1>1, <1>5 DEF EpollReady
  <2>2. /\ CoreInv' /\ EpollOp \notin Pending'
        /\ CancelEpoll \in Pending' <=> CancelEpoll \in Pending
        /\ pc \in {"wait", "reap"} /\ UNCHANGED <<shutdown_started, socket>>
    BY <1>1, <1>4, <2>1, EpollCqe
  <2>3. PICK taken \in SUBSET epoll.ready :
           epoll' = [epoll EXCEPT !.active = FALSE, !.ready = @ \ taken,
                                  !.batch = {c \in taken : EventReady(c)}]
    BY <2>1 DEF EpollWait
  <2> DEFINE batch == {c \in taken : EventReady(c)}
  <2>4. batch \subseteq taken /\ \A c \in taken : c \in batch \/ ~EventReady(c)
    OBVIOUS
  <2>5. epoll' = [epoll EXCEPT !.active = FALSE, !.ready = epoll.ready \ taken, !.batch = batch]
    BY <2>3
  <2> HIDE DEF batch
  <2>6. batch \subseteq Fds /\ epoll.ready \ taken \subseteq Fds
    BY <1>3, <2>4
  <2>7. /\ epoll' \in Epoll /\ ~epoll'.active /\ epoll'.cancel_active = epoll.cancel_active
        /\ epoll'.ready = epoll.ready \ taken /\ epoll'.batch = batch
    BY <1>2, <2>5, <2>6 DEF Epoll
  <2>8. EpollOk'
    BY <1>2, <2>2, <2>7 DEF EpollOk
  <2>9. /\ epoll'.ready \subseteq epoll.ready /\ epoll'.batch \subseteq epoll.ready
        /\ \A c \in epoll.ready : c \in epoll'.ready \/ c \in epoll'.batch \/ ~EventReady(c)
    BY <2>4, <2>7
  <2>10. EventInv'
    BY <2>1, <2>2, <2>7, <2>8, <2>9, BatchTaken
  <2>. QED  BY <2>2, <2>10 DEF HybridInv
<1>6. CASE EpollEnded
  <2>1. /\ Completes(EpollOp[1]) /\ pc' = "events" /\ epoll' = [epoll EXCEPT !.active = FALSE]
        /\ UNCHANGED <<task, accept_active, connections, conn, ssl, sq, kernel, open>>
        /\ stopping' \in {stopping, TRUE}
    BY <1>1, <1>6 DEF EpollEnded
  <2>2. /\ CoreInv' /\ EpollOp \notin Pending'
        /\ CancelEpoll \in Pending' <=> CancelEpoll \in Pending
        /\ pc \in {"wait", "reap"} /\ UNCHANGED <<shutdown_started, socket>>
    BY <1>1, <1>4, <2>1, EpollCqe
  <2>3. /\ epoll' \in Epoll /\ ~epoll'.active /\ epoll'.cancel_active = epoll.cancel_active
        /\ epoll'.ready = epoll.ready /\ epoll'.batch = epoll.batch
    BY <1>2, <2>1, EpollFields
  <2>4. EpollOk'
    BY <1>2, <2>2, <2>3 DEF EpollOk
  <2>5. epoll.batch = {}
    BY <2>2, BetweenCompletions
  <2>6. stopping => stopping'
    BY <2>1
  <2>7. /\ UNCHANGED <<task, connections, conn, ssl, socket, shutdown_started>>
        /\ epoll'.ready \subseteq epoll.ready /\ epoll'.batch = {}
        /\ \A c \in epoll.ready : c \in epoll'.ready
    BY <2>1, <2>2, <2>3, <2>5
  <2>8. EventInv'
    BY <2>1, <2>2, <2>3, <2>4, <2>6, <2>7, BatchTaken
  <2>. QED  BY <2>2, <2>8 DEF HybridInv
<1>7. CASE CancelEpollCompleted
  <2>1. /\ Completes(CancelEpoll[1]) /\ pc' = "reap"
        /\ epoll' = [epoll EXCEPT !.cancel_active = FALSE]
        /\ UNCHANGED <<task, stopping, accept_active, connections, conn, ssl, sq, kernel, open>>
    BY <1>1, <1>7 DEF CancelEpollCompleted
  <2>2. /\ CoreInv' /\ CancelEpoll \notin Pending'
        /\ EpollOp \in Pending' <=> EpollOp \in Pending
        /\ pc \in {"wait", "reap"} /\ UNCHANGED <<shutdown_started, socket>>
    BY <1>1, <1>4, <2>1, EpollCqe
  <2>3. /\ epoll' \in Epoll /\ epoll'.active = epoll.active /\ ~epoll'.cancel_active
        /\ epoll'.ready = epoll.ready /\ epoll'.batch = epoll.batch
    BY <1>2, <2>1 DEF Epoll
  <2>4. EpollOk'
    BY <1>2, <2>2, <2>3 DEF EpollOk
  <2>5. epoll.batch = {}
    BY <2>2, BetweenCompletions
  <2>6. EventInv'
    BY <2>1, <2>2, <2>3, <2>4, <2>5, BatchTaken
  <2>. QED  BY <2>2, <2>6 DEF HybridInv
<1>. QED  BY <1>5, <1>6, <1>7

-----------------------------------------------------------------------------
(* The events of a batch.                                                  *)

LEMMA DriveEventStep ==
    ASSUME HybridInv, NEW c \in Fds, DriveEvent(c)
    PROVE  HybridInv'
<1>1. /\ pc = "events" /\ c \in epoll.batch /\ pc' = "drive" /\ task' = Task(c, "events")
      /\ epoll' = [epoll EXCEPT !.batch = @ \ {c}]
      /\ UNCHANGED <<stopping, shutdown_started, accept_active, accept_cancel_active, connections,
                     conn, ssl, sq, kernel, doomed, cq, open, arrivals, socket>>
  BY DEF DriveEvent, listening
<1>2. /\ task = NoTask /\ task.fd = NULL /\ task.then = "none"
      /\ task'.fd = c /\ task'.then = "events"
  BY <1>1 DEF HybridInv, CoreInv, TaskOk, NoTask, Task
<1>3. c \in connections /\ ~conn[c].dead /\ connections \subseteq Fds
  BY <1>1 DEF HybridInv, CoreInv, TypeOK, EventInv, EventsOk, IdleOk
<1>4. /\ EndedOps' = EndedOps /\ CqFds' = CqFds /\ MorePending' = MorePending
      /\ CqWellFormed' = CqWellFormed
  BY <1>1, SameQueue
<1>5. Pending' = Pending
  BY <1>1, <1>4 DEF Pending
<1>6. CoreInv'
  <2>1. task' \in Tasks /\ task' # NoTask
    BY <1>1 DEF Tasks, Task, NoTask
  <2>2. TypeOK'
    BY <1>1, <2>1 DEF HybridInv, CoreInv, TypeOK
  <2>3. ASSUME NEW b
        PROVE  Held(b) = 0 /\ Held(b)' = 0
    <3>1. Task(b, "release").then = "release"
      BY DEF Task
    <3>. QED  BY <1>2, <3>1 DEF Held, Count
  <2>4. ConnectionsOk'
    BY <1>1, <1>5, <2>3 DEF HybridInv, CoreInv, ConnectionsOk
  <2>5. OthersOk'
    BY <1>1, <1>2, <1>3, <1>5 DEF HybridInv, CoreInv, OthersOk
  <2>6. TaskOk'
    BY <1>1, <1>2, <1>3, <2>1 DEF TaskOk
  <2>7. /\ QueuesOk' /\ ListenerOk' /\ DescriptorsOk' /\ SocketsOk' /\ CqWellFormed'
    BY <1>1, <1>4, <1>5 DEF HybridInv, CoreInv, QueuesOk, ListenerOk, DescriptorsOk, SocketsOk
  <2>. QED  BY <2>2, <2>4, <2>5, <2>6, <2>7 DEF CoreInv
<1>7. /\ epoll \in Epoll /\ epoll.batch \ {c} \subseteq Fds
  BY <1>3 DEF HybridInv, EventInv, EpollOk, EventsOk
<1>8. /\ epoll' \in Epoll /\ epoll'.active = epoll.active
      /\ epoll'.cancel_active = epoll.cancel_active
      /\ epoll'.ready = epoll.ready /\ epoll'.batch = epoll.batch \ {c}
  BY <1>1, <1>7, EpollFields
<1>9. TasksOk' /\ IdleOk' /\ ExitOk'
  BY <1>1, <1>2 DEF HybridInv, EventInv, TasksOk, IdleOk, ExitOk
<1>10. EpollOk'
  BY <1>1, <1>5, <1>8 DEF HybridInv, EventInv, EpollOk
<1>11. Delivering /\ Delivering'
  BY <1>1, <1>2 DEF Delivering
<1>12. DeliveryOk'
  BY <1>8, <1>11 DEF HybridInv, EventInv, DeliveryOk
<1>13. EventsOk'
  BY <1>1, <1>8 DEF HybridInv, EventInv, EventsOk
<1>14. ASSUME NEW b \in connections
       PROVE  IF Driving(b)' THEN b \notin epoll'.batch ELSE b \in epoll'.batch \/ WaitsEvent(b)'
  <2>1. CASE b = c
    BY <1>1, <1>2, <1>8, <2>1 DEF Driving
  <2>2. CASE b # c
    <3>1. ~Driving(b) /\ ~Driving(b)'
      BY <1>1, <1>2, <2>2 DEF Driving
    <3>2. WaitsEvent(b) => WaitsEvent(b)'
      BY <1>1, <1>8 DEF WaitsEvent, Readable, Writable
    <3>. QED  BY <1>8, <2>2, <3>1, <3>2 DEF HybridInv, EventInv, WaitsOk
  <2>. QED  BY <2>1, <2>2
<1>15. WaitsOk'
  BY <1>1, <1>14 DEF WaitsOk
<1>. QED  BY <1>6, <1>9, <1>10, <1>12, <1>13, <1>15 DEF HybridInv, EventInv

\* The poll of the epoll descriptor is prepared again, unless the worker stops.
LEMMA WatchEpollStep ==
    ASSUME HybridInv, WatchEpoll
    PROVE  HybridInv'
<1>1. /\ pc = "events" /\ epoll.batch = {} /\ pc' = "reap"
      /\ epoll' = [epoll EXCEPT !.active = ~stopping]
      /\ UNCHANGED <<task, stopping, shutdown_started, accept_active, accept_cancel_active,
                     connections, conn, ssl, doomed, cq, open, arrivals, socket>>
  BY DEF WatchEpoll, listening
<1>2. task = NoTask /\ task.then = "none" /\ ~Delivering' /\ Delivering
  BY <1>1 DEF HybridInv, CoreInv, TaskOk, Delivering, NoTask, Task
<1>3. stopping \in BOOLEAN /\ epoll \in Epoll /\ EpollOp \notin Pending
  BY <1>2 DEF HybridInv, CoreInv, TypeOK, EventInv, EpollOk, DeliveryOk
<1>4. /\ epoll' \in Epoll /\ epoll'.active = ~stopping
      /\ epoll'.cancel_active = epoll.cancel_active
      /\ epoll'.ready = epoll.ready /\ epoll'.batch = epoll.batch
  BY <1>1, <1>3, EpollFields
<1>5. /\ EndedOps' = EndedOps /\ CqFds' = CqFds /\ MorePending' = MorePending
      /\ CqWellFormed' = CqWellFormed
  BY <1>1, SameQueue
<1>6. /\ sq \cap kernel = {} /\ EndedOps \cap (sq \cup kernel) = {} /\ doomed \subseteq kernel
      /\ MorePending => AcceptOp \in kernel \cup EndedOps
      /\ sq \subseteq Operations /\ kernel \subseteq Operations
  BY DEF HybridInv, CoreInv, QueuesOk, TypeOK
<1> DEFINE added == IF stopping THEN {} ELSE {EpollOp}
<1>7. /\ sq' \cup kernel' = (sq \cup kernel) \cup added
      /\ sq' \cap kernel' = {} /\ kernel \subseteq kernel'
  <2>1. CASE stopping
    <3>1. sq' = sq /\ kernel' = kernel
      BY <2>1 DEF WatchEpoll
    <3>. QED  BY <1>6, <2>1, <3>1
  <2>2. CASE ~stopping /\ Cardinality(sq) < QueueDepth
    <3>1. sq' = sq \cup {EpollOp} /\ kernel' = kernel
      BY <2>2 DEF WatchEpoll, GetSqe
    <3>. QED  BY <1>3, <1>6, <2>2, <3>1 DEF Pending
  <2>3. CASE ~stopping /\ ~(Cardinality(sq) < QueueDepth)
    <3>1. sq' = {EpollOp} /\ kernel' = kernel \cup sq
      BY <2>3 DEF WatchEpoll, GetSqe
    <3>. QED  BY <1>3, <1>6, <2>3, <3>1 DEF Pending
  <2>. QED  BY <2>1, <2>2, <2>3
<1>8. added \subseteq {EpollOp} /\ (EpollOp \in added <=> ~stopping)
  OBVIOUS
<1> HIDE DEF added
<1>9. Pending' = Pending \cup added
  BY <1>5, <1>7 DEF Pending
<1>10. /\ EpollOp \in Operations /\ EpollOp # AcceptOp /\ EpollOp # CancelAccept
       /\ EpollOp # CancelEpoll
       /\ \A c \in Fds : EpollOp \notin ConnectionOps(c)
  BY OperationNames DEF WorkerOps
<1>11. CoreInv'
  <2>1. \A c \in Fds : \A op \in ConnectionOps(c) : op \in Pending' <=> op \in Pending
    BY <1>8, <1>9, <1>10
  <2>2. ConnectionsOk' /\ OthersOk'
    BY <1>1, <2>1, ConnectionsKept DEF HybridInv
  <2>3. sq' \subseteq Operations /\ kernel' \subseteq Operations
    BY <1>6, <1>7, <1>8, <1>10
  <2>4. TypeOK'
    BY <1>1, <2>3 DEF HybridInv, CoreInv, TypeOK
  <2>5. QueuesOk'
    <3>1. EndedOps' \cap (sq' \cup kernel') = {}
      BY <1>3, <1>5, <1>6, <1>7, <1>8 DEF Pending
    <3>2. MorePending' => AcceptOp \in kernel' \cup EndedOps'
      BY <1>5, <1>6, <1>7
    <3>. QED  BY <1>1, <1>6, <1>7, <3>1, <3>2 DEF QueuesOk
  <2>6. ListenerOk'
    BY <1>1, <1>8, <1>9, <1>10 DEF HybridInv, CoreInv, ListenerOk
  <2>7. TaskOk' /\ DescriptorsOk' /\ SocketsOk' /\ CqWellFormed'
    BY <1>1, <1>5 DEF HybridInv, CoreInv, TaskOk, DescriptorsOk, SocketsOk
  <2>. QED  BY <2>2, <2>4, <2>5, <2>6, <2>7 DEF CoreInv
<1>12. TasksOk' /\ IdleOk' /\ ExitOk'
  BY <1>1 DEF HybridInv, EventInv, TasksOk, IdleOk, ExitOk
<1>13. EpollOk'
  BY <1>1, <1>3, <1>4, <1>8, <1>9, <1>10 DEF HybridInv, EventInv, EpollOk
<1>14. DeliveryOk'
  BY <1>1, <1>2, <1>4 DEF DeliveryOk
<1>15. EventsOk'
  BY <1>1, <1>4 DEF HybridInv, EventInv, EventsOk
<1>16. ASSUME NEW c \in connections
       PROVE  ~Driving(c)' /\ WaitsEvent(c)'
  <2>1. ~Driving(c) /\ ~Driving(c)' /\ c \notin epoll.batch
    BY <1>1 DEF Driving
  <2>2. WaitsEvent(c)
    BY <2>1 DEF HybridInv, EventInv, WaitsOk
  <2>. QED  BY <1>1, <1>4, <2>1, <2>2 DEF WaitsEvent, Readable, Writable
<1>17. WaitsOk'
  BY <1>1, <1>16 DEF WaitsOk
<1>. QED  BY <1>11, <1>12, <1>13, <1>14, <1>15, <1>17 DEF HybridInv, EventInv

-----------------------------------------------------------------------------
(* drive().                                                                *)

LEMMA DriveFacts ==
    ASSUME HybridInv, NEW c \in Fds, Driving(c)
    PROVE  /\ c \in connections /\ pc = "drive" /\ task.fd = c /\ c # NULL
           /\ task.then \in {"accept", "events"} /\ c \notin epoll.batch
<1>1. /\ c \in connections /\ pc = "drive" /\ task.fd = c /\ task.then # "none"
  BY DEF HybridInv, CoreInv, TaskOk, Driving
<1>. QED  BY <1>1, WorkerAssumption DEF HybridInv, EventInv, TasksOk, WaitsOk

\* What EpollCtl does to the epoll record.
LEMMA ReadyList ==
    ASSUME HybridInv, CoreInv', EpollCtl
    PROVE  /\ epoll' \in Epoll /\ epoll'.active = epoll.active
           /\ epoll'.cancel_active = epoll.cancel_active /\ epoll'.batch = epoll.batch
           /\ epoll'.ready \subseteq connections'
           /\ \A c \in connections' : c \in epoll.ready => c \in epoll'.ready
           /\ \A c \in epoll'.ready : c \in epoll.ready \/ Registered(c)
<1> DEFINE ready == {c \in connections' : c \in epoll.ready \/ (Registered(c) /\ EventReady(c)')}
<1>1. epoll \in Epoll /\ ready \subseteq Fds
  BY DEF HybridInv, EventInv, EpollOk, CoreInv, TypeOK
<1>2. epoll' = [epoll EXCEPT !.ready = ready]
  BY DEF EpollCtl
<1>3. /\ ready \subseteq connections'
      /\ \A c \in connections' : c \in epoll.ready => c \in ready
      /\ \A c \in ready : c \in epoll.ready \/ Registered(c)
  OBVIOUS
<1> HIDE DEF ready
<1>. QED  BY <1>1, <1>2, <1>3, EpollFields

\* A connection that lacks something, on a socket that does not have it.
Starves(c, k, s) ==
    /\ k.poll_registered
    /\ \/ /\ k.poll_events = "in" /\ NeedsInput(k, s)
          /\ s.fetched = socket[c].arrived /\ socket[c].behind = "more"
       \/ /\ k.poll_events = "out" /\ NeedsOutput(k, s)
          /\ s.written = socket[c].read + SendBuffer /\ socket[c].behind # "reset"

\* drive() has left a connection that is freed, goes on, or waits.
LEMMA StoredKept ==
    ASSUME HybridInv, CoreInv', EpollKept, NEW c \in Fds, Driving(c), EpollCtl,
           UNCHANGED <<socket, stopping, shutdown_started>>,
           NEW e, e.fd = c, Store(e),
           \/ UNCHANGED <<pc, task>>
           \/ task' = NoTask /\ pc' = (IF task.then = "events" THEN "events" ELSE "reap"),
           \/ e.k.references = 0
           \/ /\ e.k.references = 1 /\ ~e.k.dead
              /\ conn[c].poll_registered => e.k.poll_registered
              /\ Driving(c)' \/ Starves(c, e.k, e.s)
    PROVE  EventInv'
<1>1. /\ c \in connections /\ pc = "drive" /\ task.fd = c /\ c # NULL
      /\ task.then \in {"accept", "events"} /\ c \notin epoll.batch
  BY DriveFacts
<1>2. /\ connections' \subseteq connections
      /\ \A b \in connections' : b # c => conn'[b] = conn[b] /\ ssl'[b] = ssl[b]
      /\ c \in connections' => conn'[c] = e.k /\ ssl'[c] = e.s
      /\ c \in connections' <=> e.k.references # 0
      /\ \A b \in connections : b # c => b \in connections'
  BY <1>1, StoredConnections DEF HybridInv, Store
<1>3. /\ epoll' \in Epoll /\ epoll'.active = epoll.active
      /\ epoll'.cancel_active = epoll.cancel_active /\ epoll'.batch = epoll.batch
      /\ epoll'.ready \subseteq connections'
      /\ \A b \in connections' : b \in epoll.ready => b \in epoll'.ready
      /\ \A b \in epoll'.ready : b \in epoll.ready \/ Registered(b)
  BY ReadyList
<1>4. connections \subseteq Fds
  BY DEF HybridInv, CoreInv, TypeOK
<1>5. task'.then \in {"none", "accept", "events"} /\ task'.fd \in {c, NULL} /\ pc' # "exited"
  BY <1>1 DEF NoTask, Task
<1>6. TasksOk' /\ ExitOk'
  BY <1>5 DEF TasksOk, ExitOk
<1>7. IdleOk'
  BY <1>2 DEF HybridInv, EventInv, IdleOk
<1>8. EpollOk'
  BY <1>3 DEF HybridInv, EventInv, EpollOk, EpollKept
<1>9. Delivering' <=> Delivering
  BY <1>1 DEF Delivering, NoTask, Task
<1>10. DeliveryOk'
  BY <1>3, <1>9 DEF HybridInv, EventInv, DeliveryOk
<1>11. /\ epoll.ready \subseteq connections /\ epoll.batch \subseteq connections
       /\ \A b \in epoll.ready \cup epoll.batch : conn[b].poll_registered
  BY DEF HybridInv, EventInv, EventsOk
<1>12. EventsOk'
  <2>1. epoll'.batch \subseteq connections'
    BY <1>1, <1>2, <1>3, <1>11
  <2>2. ASSUME NEW b \in epoll'.ready \cup epoll'.batch
        PROVE  conn'[b].poll_registered
    <3>1. b \in connections'
      BY <1>3, <2>1
    <3>2. CASE Registered(b)
      BY <3>2 DEF Registered
    <3>3. CASE ~Registered(b)
      <4>1. b \in epoll.ready \cup epoll.batch /\ conn[b].poll_registered
        BY <1>3, <1>11, <3>3
      <4>. QED  BY <1>2, <3>1, <4>1
    <3>. QED  BY <3>2, <3>3
  <2>. QED  BY <1>3, <2>1, <2>2 DEF EventsOk
<1>13. ASSUME NEW b \in connections'
       PROVE  IF Driving(b)' THEN b \notin epoll'.batch ELSE b \in epoll'.batch \/ WaitsEvent(b)'
  <2>1. CASE b = c
    <3>1. /\ conn'[c] = e.k /\ ssl'[c] = e.s /\ ~e.k.dead
          /\ Driving(c)' \/ Starves(c, e.k, e.s)
      BY <1>2, <1>13, <2>1
    <3>2. CASE Driving(c)'
      BY <1>1, <1>3, <2>1, <3>2
    <3>3. CASE ~Driving(c)'
      <4> DEFINE limit == socket[c].read + SendBuffer
                 k == conn'[c]
                 s == ssl'[c]
      <4>1. Starves(c, k, s) /\ ~k.dead
        BY <3>1, <3>3
      <4>2. s.written \in Nat /\ s.fetched \in Nat
        BY DEF CoreInv, TypeOK, Ssl
      <4>3. /\ Readable(c)' <=> s.fetched < socket[c].arrived \/ socket[c].behind # "more" \/ k.dead
            /\ Writable(c)' <=> s.written < limit \/ socket[c].behind = "reset" \/ k.dead
        BY DEF Readable, Writable
      <4> HIDE DEF k, s
      <4>4. CASE /\ k.poll_events = "in" /\ NeedsInput(k, s)
                 /\ s.fetched = socket[c].arrived /\ socket[c].behind = "more"
        <5>1. ~Readable(c)'
          BY <4>1, <4>2, <4>3, <4>4
        <5>2. WaitsEvent(c)'
          BY <4>1, <4>4, <5>1 DEF WaitsEvent, Starves, k, s
        <5>. QED  BY <2>1, <3>3, <5>2
      <4>5. CASE /\ k.poll_events = "out" /\ NeedsOutput(k, s)
                 /\ s.written = limit /\ socket[c].behind # "reset"
        <5>1. ~(s.written < limit)
          BY <4>2, <4>5
        <5>2. ~Writable(c)'
          BY <4>1, <4>3, <4>5, <5>1
        <5>3. WaitsEvent(c)'
          BY <4>1, <4>5, <5>2 DEF WaitsEvent, Starves, k, s
        <5>. QED  BY <2>1, <3>3, <5>3
      <4>. QED  BY <4>1, <4>4, <4>5 DEF Starves
    <3>. QED  BY <3>2, <3>3
  <2>2. CASE b # c
    <3>1. b \in connections /\ conn'[b] = conn[b] /\ ssl'[b] = ssl[b]
      BY <1>2, <1>13, <2>2
    <3>2. ~Driving(b) /\ ~Driving(b)'
      BY <1>1, <1>4, <1>5, <2>2, <3>1, WorkerAssumption DEF Driving
    <3>3. WaitsEvent(b) => WaitsEvent(b)'
      BY <1>3, <1>13, <3>1 DEF WaitsEvent, Readable, Writable
    <3>. QED  BY <1>3, <3>1, <3>2, <3>3 DEF HybridInv, EventInv, WaitsOk
  <2>. QED  BY <2>1, <2>2
<1>14. WaitsOk'
  BY <1>13 DEF WaitsOk
<1>. QED  BY <1>6, <1>7, <1>8, <1>10, <1>12, <1>14 DEF EventInv

\* drive() returns with a connection that is freed or that waits.
LEMMA LeaveStep ==
    ASSUME HybridInv, NEW c \in Fds, Driving(c), DriveUnchanged, EpollCtl,
           NEW d, Good(d, EndedOps, Held(c)), d.fd = c, Prepares(d, ConnectionOps(c)),
           d.s.fetched <= socket[c].arrived, Leave(d),
           \/ d.k.references = 0
           \/ /\ d.k.references = 1 /\ ~d.k.dead
              /\ conn[c].poll_registered => d.k.poll_registered
              /\ Starves(c, d.k, d.s)
    PROVE  HybridInv'
<1>1. /\ CoreInv' /\ EpollKept
      /\ \E e : /\ Store(e) /\ e.fd = c /\ e.s = d.s
                /\ task.then # "release" => e.k = d.k
  BY LeaveKeeps DEF HybridInv
<1>2. task.then # "release"
  BY DEF HybridInv, EventInv, TasksOk
<1>3. PICK e : Store(e) /\ e.fd = c /\ e.s = d.s /\ e.k = d.k
  BY <1>1, <1>2
<1>4. task' = NoTask /\ pc' = (IF task.then = "events" THEN "events" ELSE "reap")
  BY DEF Leave
<1>5. EventInv'
  BY <1>1, <1>3, <1>4, StoredKept DEF DriveUnchanged
<1>. QED  BY <1>1, <1>5 DEF HybridInv

LEMMA TurnFacts ==
    ASSUME HybridInv, NEW c \in Fds, Turning(c), NEW i, i = Turn(c)
    PROVE  /\ Driving(c) /\ DriveUnchanged /\ c \in connections
           /\ TurnResult(Context(c), Bios(c), i)
           /\ Good(i.d, EndedOps, Held(c)) /\ i.d.fd = c /\ ~i.d.k.dead
           /\ i.d.sq = sq /\ i.d.kernel = kernel
           /\ i.d.s.fetched <= socket[c].arrived
           /\ InBounds(i.d.k) /\ i.d.s \in Ssl
           /\ i.d.k.references = 1 /\ ~i.d.k.input_active /\ ~i.d.k.output_active
           /\ i.d.k.poll_registered = conn[c].poll_registered
<1>1. Driving(c) /\ conn[c].phase # "draining" /\ DriveUnchanged
  BY DEF Turning, DriveUnchanged
<1>2. /\ c \in connections /\ conn[c].references = 1
      /\ ~conn[c].input_active /\ ~conn[c].output_active
  BY <1>1, DriveFacts, IdleConnection
<1>3. /\ TurnResult(Context(c), Bios(c), i)
      /\ Good(i.d, EndedOps, Held(c)) /\ i.d.fd = c /\ ~i.d.k.dead
      /\ i.d.sq = sq /\ i.d.kernel = kernel
      /\ i.d.s.fetched <= Bios(c).available
      /\ SameAccounts(conn[c], i.d.k) /\ InBounds(i.d.k) /\ i.d.s \in Ssl
  BY <1>1, BiosAreOk, TurnGood DEF HybridInv, Turn
<1>4. /\ i.d.k.references = 1 /\ ~i.d.k.input_active /\ ~i.d.k.output_active
      /\ i.d.k.poll_registered = conn[c].poll_registered
  BY <1>2, <1>3 DEF SameAccounts
<1>. QED  BY <1>1, <1>2, <1>3, <1>4, BiosAreOk DEF HybridInv

\* wait_for_io changes the registration only.
LEMMA WaitForIoGood ==
    ASSUME NEW d, NEW held, Good(d, EndedOps, held), d.sq = sq, d.kernel = kernel, NEW c, d.fd = c,
           NEW verdict
    PROVE  LET e == WaitForIo(d, verdict)
           IN /\ Good(e, EndedOps, held) /\ e.fd = c /\ e.s = d.s
              /\ Prepares(e, ConnectionOps(c))
              /\ e.k.references = d.k.references /\ e.k.dead = d.k.dead
              /\ e.k.poll_registered
              /\ e.k.poll_events = IF verdict = "want_write" THEN "out" ELSE "in"
              /\ e.k.phase = d.k.phase /\ e.k.input = d.k.input /\ e.k.reply = d.k.reply
              /\ e.k.read_eof = d.k.read_eof
<1> DEFINE events == IF verdict = "want_write" THEN "out" ELSE "in"
           l == [d.k EXCEPT !.poll_registered = TRUE, !.poll_events = events]
           e == With(d, l)
<1>1. d \in Contexts /\ d.k \in Connection /\ InBounds(d.k) /\ d.fd \in Fds
  BY DEF Good, Queues, Accounts, Contexts
<1>2. WaitForIo(d, verdict) = e
  BY <1>1 DEF WaitForIo, With, Contexts
<1>3. events \in {"in", "out"}
  OBVIOUS
<1> HIDE DEF events
<1>4. /\ l \in Connection /\ l.references = d.k.references /\ l.dead = d.k.dead
      /\ l.input_active = d.k.input_active /\ l.output_active = d.k.output_active
      /\ l.input_cancelled = d.k.input_cancelled /\ l.output_cancelled = d.k.output_cancelled
      /\ l.phase = d.k.phase /\ l.input = d.k.input /\ l.reply = d.k.reply
      /\ l.read_eof = d.k.read_eof /\ l.poll_registered /\ l.poll_events = events
  BY <1>1, <1>3 DEF Connection
<1> HIDE DEF l
<1>5. InBounds(l)
  BY <1>1, <1>4 DEF InBounds
<1>6. Accounts(d.fd, l, Live(d, EndedOps), held)
  BY <1>4, <1>5 DEF Good, Accounts
<1>7. /\ e \in Contexts /\ e.k = l /\ e.fd = d.fd /\ e.s = d.s
      /\ e.sq = d.sq /\ e.kernel = d.kernel
  BY <1>1, <1>4, WithConnection
<1> HIDE DEF e
<1>8. Good(e, EndedOps, held) /\ Prepares(e, ConnectionOps(c))
  BY <1>6, <1>7 DEF Good, Queues, Live, Prepares
<1>. QED  BY <1>2, <1>4, <1>7, <1>8 DEF events

LEMMA DriveStep ==
    ASSUME HybridInv, NEW c \in Fds, EpollCtl,
           DriveContinues(c) \/ DriveWaits(c) \/ DriveFails(c) \/ DriveDrained(c)
    PROVE  HybridInv'
<1> DEFINE i == Turn(c)
           d == i.d
<1>1. CASE DriveContinues(c)
  <2>1. Turning(c) /\ Continue(d)
    BY <1>1 DEF DriveContinues
  <2>2. /\ Driving(c) /\ DriveUnchanged /\ c \in connections
        /\ Good(d, EndedOps, Held(c)) /\ d.fd = c /\ ~d.k.dead
        /\ d.sq = sq /\ d.kernel = kernel /\ d.k.references = 1
        /\ d.s.fetched <= socket[c].arrived
        /\ d.k.poll_registered = conn[c].poll_registered
    BY <2>1, TurnFacts
  <2> HIDE DEF i, d
  <2>3. d.k.references > 0
    BY <2>2
  <2>4. CoreInv' /\ EpollKept
    <3>1. Prepares(d, ConnectionOps(c))
      BY <2>2 DEF Prepares
    <3>. QED  BY <2>1, <2>2, <2>3, <3>1, ContinueKeeps DEF HybridInv
  <2>5. Store(d) /\ UNCHANGED <<pc, task>> /\ Driving(c)'
    BY <2>1, <2>2 DEF Continue, Driving
  <2>6. EventInv'
    BY <2>2, <2>4, <2>5, StoredKept DEF DriveUnchanged
  <2>. QED  BY <2>4, <2>6 DEF HybridInv
<1>2. CASE DriveWaits(c)
  <2>1. Turning(c) /\ ~CanProceed(c) /\ Leave(WaitForIo(d, i.verdict))
    BY <1>2 DEF DriveWaits
  <2>2. /\ Driving(c) /\ DriveUnchanged /\ c \in connections
        /\ TurnResult(Context(c), Bios(c), i)
        /\ Good(d, EndedOps, Held(c)) /\ d.fd = c /\ ~d.k.dead
        /\ d.sq = sq /\ d.kernel = kernel /\ d.k.references = 1
        /\ d.s.fetched <= socket[c].arrived /\ InBounds(d.k)
    BY <2>1, TurnFacts
  <2>3. i.verdict \in {"want_read", "want_write"}
    BY <2>1 DEF CanProceed
  <2>4. /\ Bios(c).available = socket[c].arrived /\ Bios(c).behind = socket[c].behind
        /\ Bios(c).limit = socket[c].read + SendBuffer
    BY BiosAreOk DEF HybridInv
  <2>5. /\ i.verdict = "want_read" =>
              /\ NeedsInput(d.k, d.s) /\ d.s.fetched = socket[c].arrived
              /\ socket[c].behind = "more"
        /\ i.verdict = "want_write" =>
              /\ NeedsOutput(d.k, d.s) /\ d.s.written = socket[c].read + SendBuffer
              /\ socket[c].behind # "reset"
    BY <2>2, <2>4 DEF TurnResult
  <2> DEFINE v == i.verdict
             e == WaitForIo(d, v)
  <2> HIDE DEF i, d, v
  <2>6. /\ Good(e, EndedOps, Held(c)) /\ e.fd = c /\ e.s = d.s
        /\ Prepares(e, ConnectionOps(c))
        /\ e.k.references = d.k.references /\ e.k.dead = d.k.dead
        /\ e.k.poll_registered
        /\ e.k.poll_events = IF v = "want_write" THEN "out" ELSE "in"
        /\ e.k.phase = d.k.phase /\ e.k.input = d.k.input /\ e.k.reply = d.k.reply
        /\ e.k.read_eof = d.k.read_eof
    BY <2>2, WaitForIoGood
  <2>7. Leave(e)
    BY <2>1 DEF v
  <2> HIDE DEF e
  <2>8. /\ NeedsInput(d.k, d.s) => NeedsInput(e.k, e.s)
        /\ NeedsOutput(d.k, d.s) => NeedsOutput(e.k, e.s)
    BY <2>2, <2>6, NeedsKept DEF InBounds
  <2>9. Starves(c, e.k, e.s)
    <3>1. CASE v = "want_read"
      BY <2>5, <2>6, <2>8, <3>1 DEF Starves, v
    <3>2. CASE v = "want_write"
      BY <2>5, <2>6, <2>8, <3>2 DEF Starves, v
    <3>. QED  BY <2>3, <3>1, <3>2 DEF v
  <2>. QED  BY <2>2, <2>6, <2>7, <2>9, LeaveStep
<1>3. ASSUME NEW f, Driving(c), DriveUnchanged, Good(f, EndedOps, Held(c)), f.fd = c,
             f.sq = sq, f.kernel = kernel, f.s.fetched <= socket[c].arrived,
             ~f.k.dead, ~f.k.input_active, ~f.k.output_active, f.k.references = 1,
             Leave(Finish(f))
      PROVE  HybridInv'
  <2> DEFINE e == Finish(f)
  <2>1. Held(c) \in Nat
    BY DEF Held, Count
  <2>2. Good(e, EndedOps, Held(c)) /\ Grows(f, e, EndedOps, ConnectionOps(c))
    BY <1>3, <2>1, FinishGood
  <2>3. Leave(e)
    BY <1>3
  <2>4. e.k.references = 0
    BY <1>3, FinishFrees DEF Good, Queues
  <2> HIDE DEF e
  <2>5. Prepares(e, ConnectionOps(c)) /\ e.fd = c /\ e.s = f.s
    BY <1>3, <2>2, GrowsPrepares
  <2>. QED  BY <1>3, <2>2, <2>3, <2>4, <2>5, LeaveStep
<1>4. CASE DriveFails(c)
  <2>1. Turning(c) /\ Leave(Finish(d))
    BY <1>4 DEF DriveFails
  <2>. QED  BY <1>3, <2>1, TurnFacts
<1>5. CASE DriveDrained(c)
  <2>1. Driving(c) /\ DriveUnchanged /\ Leave(Finish(Context(c)))
    BY <1>5 DEF DriveDrained, DriveUnchanged
  <2>2. c \in connections
    BY <2>1, DriveFacts
  <2>3. ssl[c].fetched <= socket[c].arrived
    BY DEF HybridInv, CoreInv, SocketsOk
  <2>4. /\ Context(c).fd = c /\ Context(c).k = conn[c] /\ Context(c).s = ssl[c]
        /\ Context(c).sq = sq /\ Context(c).kernel = kernel
        /\ Good(Context(c), EndedOps, Held(c))
    BY <2>2, ContextGood DEF HybridInv
  <2>5. /\ ~conn[c].dead /\ conn[c].references = 1
        /\ ~conn[c].input_active /\ ~conn[c].output_active
    BY <2>2, IdleConnection
  <2>. QED  BY <1>3, <2>1, <2>3, <2>4, <2>5
<1>. QED  BY <1>1, <1>2, <1>4, <1>5

-----------------------------------------------------------------------------
(* The invariant and what follows from it.                                 *)

LEMMA HybridInvInitially == HybridInit => HybridInv
<1> SUFFICES ASSUME HybridInit PROVE HybridInv
  OBVIOUS
<1>1. CoreInv /\ Pending = {AcceptOp, EpollOp}
  BY CoreInit DEF HybridInit
<1>2. epoll = [active |-> TRUE, cancel_active |-> FALSE, ready |-> {}, batch |-> {}]
  BY DEF HybridInit
<1>3. EpollOk
  BY <1>1, <1>2, OperationNames DEF EpollOk, Epoll
<1>4. TasksOk /\ IdleOk /\ DeliveryOk /\ EventsOk /\ WaitsOk /\ ExitOk
  BY <1>2 DEF HybridInit, TasksOk, IdleOk, DeliveryOk, Delivering, EventsOk, WaitsOk, ExitOk,
              NoTask, Task
<1>. QED  BY <1>1, <1>3, <1>4 DEF HybridInv, EventInv

LEMMA HybridInvKept == HybridInv /\ [Next]_hybridVars => HybridInv'
<1> SUFFICES ASSUME HybridInv, [Next]_hybridVars PROVE HybridInv'
  OBVIOUS
<1>1. CASE Thread
  <2>1. CASE Complete
    BY <2>1, ListenStep, EpollStep, WatchEpollStep, DriveEventStep DEF Complete
  <2>2. CASE Drive
    BY <2>2, DriveStep DEF Drive
  <2>. QED  BY <1>1, <2>1, <2>2, MainStep DEF Thread
<1>2. CASE Signal
  BY <1>2, SignalStep
<1>3. CASE Kernel
  BY <1>3, KernelStep
<1>4. CASE UNCHANGED hybridVars
  <2>1. /\ UNCHANGED vars /\ epoll' = epoll
        /\ UNCHANGED <<pc, task, connections, conn, ssl, stopping, shutdown_started, socket>>
    BY <1>4 DEF hybridVars, vars
  <2>2. CoreInv' /\ EpollKept
    BY <2>1, QuietFacts, QuietStep DEF HybridInv, vars
  <2>3. pc' = "exited" => ~HybridDraining'
    BY <2>1 DEF HybridInv, EventInv, ExitOk, HybridDraining, Draining, vars
  <2>. QED  BY <2>1, <2>2, <2>3, RestKept DEF HybridInv
<1>. QED  BY <1>1, <1>2, <1>3, <1>4 DEF Next, Terminated

\* In every state of tls-fd-hybrid the connections, the queues and the listener
\* agree, the epoll descriptor is watched unless a batch is being driven, and a
\* connection is driven, in the batch, or registered for what it lacks.
THEOREM HybridInvariant == Spec => []HybridInv
  BY HybridInvInitially, HybridInvKept, PTL DEF Spec

\* The pointers in the events array and on the ready list are those of live
\* connections: drive(), which frees a connection with its last reference,
\* leaves none behind that a later event of the batch would use.
THEOREM EventsAlwaysNameConnections == Spec => []EventsNameConnections
<1>1. HybridInv => EventsNameConnections
  BY DEF HybridInv, EventInv, EventsOk, IdleOk, EventsNameConnections
<1>. QED  BY <1>1, HybridInvariant, PTL

LEMMA HybridWakeupFollows ==
    ASSUME HybridInv
    PROVE  NoLostWakeup
<1>1. EpollWatched
  <2>1. /\ Outstanding(EpollOp) <=> EpollOp \in Pending
        /\ Outstanding(CancelEpoll) <=> CancelEpoll \in Pending
    BY OutstandingIsPending, OperationNames DEF WorkerOps
  <2>. QED  BY <2>1 DEF HybridInv, EventInv, EpollOk, DeliveryOk, Delivering, EpollWatched
<1>2. ASSUME NEW c \in Fds, Alive(c), ~Driving(c), c \notin epoll.batch
      PROVE  /\ conn[c].poll_registered
             /\ CanProceed(c) => c \in epoll.ready
  <2>1. c \in connections
    BY <1>2 DEF Alive
  <2>2. WaitsEvent(c)
    BY <1>2, <2>1 DEF HybridInv, EventInv, WaitsOk
  <2>3. InBounds(conn[c])
    BY <2>1 DEF HybridInv, CoreInv, ConnectionsOk, Accounts
  <2>4. /\ Context(c).k = conn[c] /\ Context(c).s = ssl[c] /\ ssl[c] \in Ssl
    BY <2>1, ContextGood DEF HybridInv, CoreInv, TypeOK
  <2>5. /\ BiosOk(Bios(c)) /\ ssl[c].fetched <= Bios(c).available
        /\ Bios(c).available = socket[c].arrived /\ Bios(c).behind = socket[c].behind
        /\ Bios(c).limit = socket[c].read + SendBuffer
    BY BiosAreOk DEF HybridInv
  <2>6. CASE NeedsInput(conn[c], ssl[c]) /\ ~Readable(c)
    <3>1. ssl[c].fetched = Bios(c).available /\ Bios(c).behind = "more"
      BY <2>4, <2>5, <2>6 DEF Readable, Ssl, BiosOk
    <3>2. Turn(c).verdict = "want_read"
      BY <2>4, <2>5, <2>6, <3>1, StarvedTurn DEF Turn
    <3>. QED  BY <2>2, <3>2 DEF CanProceed, WaitsEvent
  <2>7. CASE NeedsOutput(conn[c], ssl[c]) /\ ~Writable(c)
    <3>1. ssl[c].written >= Bios(c).limit /\ Bios(c).behind # "reset"
      BY <2>4, <2>5, <2>7 DEF Writable, Ssl, BiosOk
    <3>2. Turn(c).verdict = "want_write"
      BY <2>3, <2>4, <2>5, <2>7, <3>1, BlockedTurn DEF Turn
    <3>. QED  BY <2>2, <3>2 DEF CanProceed, WaitsEvent
  <2>. QED  BY <2>2, <2>6, <2>7 DEF WaitsEvent
<1>. QED  BY <1>1, <1>2 DEF NoLostWakeup

\* No edge is lost: what a full batch leaves on the ready list is watched, and a
\* connection that OpenSSL could go on with is driven, in the batch or on that
\* list, although edges come only once.
THEOREM EdgeNeverLost == Spec => []NoLostWakeup
<1>1. HybridInv => NoLostWakeup
  BY HybridWakeupFollows
<1>. QED  BY <1>1, HybridInvariant, PTL

\* When main frees the ring the polls of the epoll descriptor and of the
\* listener have ended with their cancels, and no descriptor is open.
THEOREM HybridExitIsClean == Spec => []CleanExit
<1>1. HybridInv => CleanExit
  BY NothingLeft
     DEF HybridInv, EventInv, EpollOk, ExitOk, HybridDraining, Draining, CleanExit
<1>. QED  BY <1>1, HybridInvariant, PTL

\* A connection's one reference is its owner's until finish() drops it, and each
\* completion, those of the epoll poll and its cancel included, ends its
\* operation once.
THEOREM HybridReferencesAndCompletions ==
    Spec => [](ReferencesMatchOperations /\ CompletionsAccounted)
<1>1. HybridInv => ReferencesMatchOperations /\ CompletionsAccounted
  BY ReferencesFollow, CompletionsFollow DEF HybridInv
<1>. QED  BY <1>1, HybridInvariant, PTL

-----------------------------------------------------------------------------
(* What the peers were told.                                               *)

LEMMA DriveTold ==
    ASSUME HybridInv, PeersTold, NEW c \in Fds,
           DriveContinues(c) \/ DriveWaits(c) \/ DriveFails(c) \/ DriveDrained(c)
    PROVE  PeersTold'
<1>1. CASE DriveDrained(c)
  <2>1. Driving(c) /\ DriveUnchanged /\ Leave(Finish(Context(c))) /\ CoreInv
    BY <1>1 DEF DriveDrained, DriveUnchanged, HybridInv
  <2>2. c \in connections /\ ssl[c].fetched <= socket[c].arrived
    BY <2>1, DriveFacts DEF CoreInv, SocketsOk
  <2>3. Told(conn[c], ssl[c], socket[c].script)
    BY <2>2 DEF PeersTold
  <2>. QED  BY <2>1, <2>2, <2>3, ContextGood, FinishTold
<1>2. CASE DriveContinues(c) \/ DriveWaits(c) \/ DriveFails(c)
  <2>1. Turning(c) /\ CoreInv /\ conn[c].phase # "draining"
    BY <1>2 DEF DriveContinues, DriveWaits, DriveFails, Turning, HybridInv
  <2>2. PICK i : i = Turn(c)
    OBVIOUS
  <2>3. PICK d : d = i.d
    OBVIOUS
  <2>4. /\ Driving(c) /\ DriveUnchanged /\ c \in connections
        /\ Good(d, EndedOps, Held(c)) /\ d.fd = c /\ d.sq = sq /\ d.kernel = kernel
        /\ d.s.fetched <= socket[c].arrived
    BY <2>1, <2>2, <2>3, TurnFacts
  <2>5. Told(d.k, d.s, socket[c].script)
    <3>1. BiosOk(Bios(c)) /\ ssl[c].fetched <= Bios(c).available
      BY BiosAreOk DEF HybridInv
    <3>2. Bios(c).script = socket[c].script
      BY DEF Bios
    <3>3. i = Iteration(Context(c), Bios(c))
      BY <2>2 DEF Turn
    <3>. QED  BY <2>1, <2>3, <2>4, <3>1, <3>2, <3>3, TurnTold
  <2>6. CASE DriveContinues(c)
    <3>1. Continue(d)
      BY <2>2, <2>3, <2>6 DEF DriveContinues
    <3>. QED  BY <2>1, <2>4, <2>5, <3>1, ContinueTold
  <2>7. CASE DriveWaits(c)
    <3>1. PICK e : e = WaitForIo(d, i.verdict) /\ Leave(e)
      BY <2>2, <2>3, <2>7 DEF DriveWaits
    <3>2. /\ Good(e, EndedOps, Held(c)) /\ e.fd = c /\ e.s = d.s
          /\ Prepares(e, ConnectionOps(c))
      BY <2>4, <3>1, WaitForIoGood
    <3>3. SameTalk(d.k, e.k)
      <4>1. d.k \in Connection /\ d \in Contexts
        BY <2>4 DEF Good, Queues, Contexts
      <4>. QED  BY <3>1, <4>1 DEF WaitForIo, SameTalk, Contexts, Connection
    <3>4. Told(e.k, e.s, socket[c].script)
      BY <2>5, <3>2, <3>3, SameTalkTold
    <3>5. e.s.fetched <= socket[c].arrived
      BY <2>4, <3>2
    <3>. QED  BY <2>1, <2>4, <3>1, <3>2, <3>4, <3>5, LeaveTold
  <2>8. CASE DriveFails(c)
    <3>1. Leave(Finish(d))
      BY <2>2, <2>3, <2>8 DEF DriveFails
    <3>. QED  BY <2>1, <2>4, <2>5, <3>1, FinishTold
  <2>. QED  BY <1>2, <2>6, <2>7, <2>8
<1>. QED  BY <1>1, <1>2

LEMMA PeersToldKept == HybridInv /\ PeersTold /\ [Next]_hybridVars => PeersTold'
<1> SUFFICES ASSUME HybridInv, PeersTold, [Next]_hybridVars PROVE PeersTold'
  OBVIOUS
<1>1. CoreInv
  BY DEF HybridInv
<1>2. ASSUME UNCHANGED <<connections, conn, ssl>>, ScriptsKept PROVE PeersTold'
  BY <1>2, ToldElsewhere
<1>3. CASE Complete
  <2>1. CASE Listen
    BY <1>1, <2>1, ListenTold
  <2>2. CASE EpollReady \/ EpollEnded \/ WatchEpoll \/ CancelEpollCompleted
                \/ \E c \in Fds : DriveEvent(c)
    <3>1. UNCHANGED <<connections, conn, ssl, socket>>
      BY <2>2 DEF EpollReady, EpollEnded, WatchEpoll, CancelEpollCompleted, DriveEvent, Completes
    <3>. QED  BY <1>2, <3>1, ScriptsKeptBySteps
  <2>. QED  BY <1>3, <2>1, <2>2 DEF Complete
<1>4. CASE Drive
  BY <1>4, DriveTold DEF Drive
<1>5. CASE Main
  <2>1. CASE Shutdown
    BY <1>1, <2>1, StartShutdownTold DEF Shutdown
  <2>2. CASE Submit(HybridDraining) \/ NoCqeLeft \/ Exit(HybridDraining)
    <3>1. UNCHANGED <<connections, conn, ssl, socket>>
      BY <2>2 DEF Submit, NoCqeLeft, Exit
    <3>. QED  BY <1>2, <3>1, ScriptsKeptBySteps
  <2>. QED  BY <1>5, <2>1, <2>2 DEF Main
<1>6. CASE Signal \/ Terminated \/ UNCHANGED hybridVars
  <2>1. UNCHANGED <<connections, conn, ssl, socket>>
    BY <1>6 DEF Signal, SignalStop, SubmitInterrupted, Terminated, hybridVars, vars
  <2>. QED  BY <1>2, <2>1, ScriptsKeptBySteps
<1>7. CASE Kernel
  <2>1. UNCHANGED worker
    BY <1>7 DEF Kernel, KernelAcceptFails, CancelSteps, KernelFindsTarget, KernelEndsTarget,
         KernelCancels, KernelAccepts, KernelPollsEpoll, KernelPollFails, Completed,
         PeerSends, PeerLeaves, PeerReads
  <2>2. ScriptsKept
    <3>1. CASE KernelAcceptFails \/ CancelSteps \/ KernelPollsEpoll \/ KernelPollFails
      <4>1. UNCHANGED socket
        BY <3>1 DEF KernelAcceptFails, CancelSteps, KernelFindsTarget, KernelEndsTarget,
             KernelCancels, KernelPollsEpoll, KernelPollFails
      <4>. QED  BY <4>1, ScriptsKeptBySteps
    <3>2. ASSUME NEW c \in Fds,
                 KernelAccepts(c) \/ PeerSends(c) \/ PeerLeaves(c) \/ PeerReads(c, ssl[c].written)
          PROVE  ScriptsKept
      BY <1>1, <3>2, ScriptsKeptBySteps
    <3>. QED  BY <1>7, <3>1, <3>2 DEF Kernel
  <2>. QED  BY <1>2, <2>1, <2>2 DEF worker
<1>. QED  BY <1>3, <1>4, <1>5, <1>6, <1>7 DEF Next, Thread

\* Whatever the batches of events and their order, each peer is told its
\* handshake, then the replies that the lines it sent call for, in their order
\* and each once, then close_notify.
THEOREM HybridDialogueInOrder == Spec => []EncryptedInOrder
<1>1. HybridInit => HybridInv /\ PeersTold
  BY HybridInvInitially DEF HybridInit, PeersTold
<1>2. (HybridInv /\ PeersTold) /\ [Next]_hybridVars => (HybridInv /\ PeersTold)'
  BY HybridInvKept, PeersToldKept
<1>3. HybridInv /\ PeersTold => EncryptedInOrder
  BY PeersToldInOrder DEF HybridInv, CoreInv
<1>. QED  BY <1>1, <1>2, <1>3, PTL DEF Spec

-----------------------------------------------------------------------------
(* Whose turn it is, and why a connection is finished.                     *)

LEMMA SocketTurn ==
    ASSUME CoreInv, TurnsOk, OrderlyPeers, NEW c \in connections, conn[c].phase # "draining"
    PROVE  /\ InTurn(Turn(c).d.k, Turn(c).d.s)
           /\ Excused(ssl[c], Turn(c), socket[c].behind)
<1>1. c \in Fds
  BY DEF CoreInv, TypeOK
<1>2. PICK bios : bios = Bios(c)
  OBVIOUS
<1>3. /\ BiosOk(bios) /\ ssl[c].fetched <= bios.available /\ bios.behind = socket[c].behind
      /\ bios.script = socket[c].script
  BY <1>1, <1>2, BiosAreOk DEF Bios
<1>4. Turn(c) = Iteration(Context(c), bios)
  BY <1>2 DEF Turn
<1>. QED  BY <1>3, <1>4, TurnInTurn

\* drive() stores what its turn leaves: a connection that goes on, or waits, is
\* not freed.
LEMMA DriveInTurn ==
    ASSUME HybridInv, TurnsOk, OrderlyPeers, NEW c \in Fds,
           DriveContinues(c) \/ DriveWaits(c) \/ DriveFails(c) \/ DriveDrained(c)
    PROVE  /\ TurnsOk' /\ c \in connections
           /\ \E e : /\ Store(e) /\ e.fd = c
                     /\ DriveContinues(c) \/ DriveWaits(c) => ~e.k.dead /\ e.k.references > 0
<1>1. CASE DriveDrained(c)
  <2>1. Driving(c) /\ DriveUnchanged /\ Leave(Finish(Context(c))) /\ CoreInv
    BY <1>1 DEF DriveDrained, DriveUnchanged, HybridInv
  <2>2. c \in connections /\ ssl[c].fetched <= socket[c].arrived
    BY <2>1, DriveFacts DEF CoreInv, SocketsOk
  <2>3. ~DriveContinues(c) /\ ~DriveWaits(c)
    BY <1>1 DEF DriveDrained, DriveContinues, DriveWaits, Turning
  <2>4. PICK d : d = Context(c)
    OBVIOUS
  <2>5. /\ Good(d, EndedOps, Held(c)) /\ d.fd = c /\ d.sq = sq /\ d.kernel = kernel
        /\ d.k = conn[c] /\ d.s = ssl[c]
    BY <2>1, <2>2, <2>4, ContextGood
  <2>6. TurnsOk'
    <3>1. InTurn(d.k, d.s)
      BY <2>2, <2>5 DEF TurnsOk
    <3>. QED  BY <2>1, <2>2, <2>4, <2>5, <3>1, FinishInTurn
  <2>7. PICK e : e = Finish(d)
    OBVIOUS
  <2>8. Good(e, EndedOps, Held(c)) /\ Prepares(e, ConnectionOps(c)) /\ e.fd = c /\ e.s = d.s
    <3>1. Held(c) \in Nat
      BY DEF Held, Count
    <3>2. Good(e, EndedOps, Held(c)) /\ Grows(d, e, EndedOps, ConnectionOps(c))
      BY <2>5, <2>7, <3>1, FinishGood
    <3>. QED  BY <2>5, <3>2, GrowsPrepares
  <2>9. Leave(e) /\ e.s.fetched <= socket[c].arrived
    BY <2>1, <2>2, <2>4, <2>5, <2>7, <2>8
  <2>10. \E f : Store(f) /\ f.fd = c
    BY <2>1, <2>8, <2>9, LeaveKeeps
  <2>. QED  BY <2>2, <2>3, <2>6, <2>10
<1>2. CASE DriveContinues(c) \/ DriveWaits(c) \/ DriveFails(c)
  <2>1. Turning(c) /\ CoreInv /\ conn[c].phase # "draining"
    BY <1>2 DEF DriveContinues, DriveWaits, DriveFails, Turning, HybridInv
  <2>2. PICK i : i = Turn(c)
    OBVIOUS
  <2>3. PICK d : d = i.d
    OBVIOUS
  <2>4. /\ Driving(c) /\ DriveUnchanged /\ c \in connections
        /\ Good(d, EndedOps, Held(c)) /\ d.fd = c /\ d.sq = sq /\ d.kernel = kernel
        /\ d.s.fetched <= socket[c].arrived /\ ~d.k.dead /\ d.k.references = 1
    BY <2>1, <2>2, <2>3, TurnFacts
  <2>5. InTurn(d.k, d.s)
    BY <2>1, <2>2, <2>3, <2>4, SocketTurn
  <2>6. CASE DriveContinues(c)
    <3>1. Store(d)
      BY <2>2, <2>3, <2>6 DEF DriveContinues, Continue
    <3>. QED  BY <2>1, <2>4, <2>5, <3>1, StoredInTurn
  <2>7. CASE DriveWaits(c)
    <3>1. PICK e : e = WaitForIo(d, i.verdict) /\ Leave(e)
      BY <2>2, <2>3, <2>7 DEF DriveWaits
    <3>2. /\ Good(e, EndedOps, Held(c)) /\ e.fd = c /\ e.s = d.s
          /\ Prepares(e, ConnectionOps(c))
          /\ e.k.references = d.k.references /\ e.k.dead = d.k.dead
      BY <2>4, <3>1, WaitForIoGood
    <3>3. SameTalk(d.k, e.k)
      <4>1. d.k \in Connection /\ d \in Contexts
        BY <2>4 DEF Good, Queues, Contexts
      <4>. QED  BY <3>1, <4>1 DEF WaitForIo, SameTalk, Contexts, Connection
    <3>4. InTurn(e.k, e.s) /\ e.s.fetched <= socket[c].arrived
      BY <2>4, <2>5, <3>2, <3>3, SameTalkInTurn
    <3>5. TurnsOk'
      BY <2>1, <2>4, <3>1, <3>2, <3>4, LeaveInTurn
    <3>6. PICK f : Store(f) /\ f.fd = c /\ f.k \in {e.k, Released(e.k)} /\ f.k.references > 0
      BY <2>1, <2>4, <3>1, <3>2, <3>4, LeaveKeeps
    <3>7. ~f.k.dead
      <4>1. e.k \in Connection
        BY <3>2 DEF Good, Accounts, InBounds
      <4>. QED  BY <2>4, <3>2, <3>6, <4>1, ReleasedFields
    <3>. QED  BY <2>4, <3>5, <3>6, <3>7
  <2>8. CASE DriveFails(c)
    <3>1. ~DriveContinues(c) /\ ~DriveWaits(c)
      BY <2>8 DEF DriveFails, DriveContinues, DriveWaits, Continues, CanProceed
    <3>2. PICK e : e = Finish(d)
      OBVIOUS
    <3>3. Leave(e) /\ TurnsOk'
      <4>1. Leave(Finish(d))
        BY <2>2, <2>3, <2>8 DEF DriveFails
      <4>. QED  BY <2>1, <2>4, <2>5, <3>2, <4>1, FinishInTurn
    <3>4. Good(e, EndedOps, Held(c)) /\ Prepares(e, ConnectionOps(c)) /\ e.fd = c /\ e.s = d.s
      <4>1. Held(c) \in Nat
        BY DEF Held, Count
      <4>2. Good(e, EndedOps, Held(c)) /\ Grows(d, e, EndedOps, ConnectionOps(c))
        BY <2>4, <3>2, <4>1, FinishGood
      <4>. QED  BY <2>4, <4>2, GrowsPrepares
    <3>5. \E f : Store(f) /\ f.fd = c
      BY <2>1, <2>4, <3>3, <3>4, LeaveKeeps
    <3>. QED  BY <2>4, <3>1, <3>3, <3>5
  <2>. QED  BY <1>2, <2>6, <2>7, <2>8
<1>. QED  BY <1>1, <1>2

\* The other steps leave the connections alone.
LEMMA StepsApart ==
    ASSUME \/ AcceptedWhileStopping \/ AcceptEnded \/ CancelAcceptCompleted
           \/ EpollReady \/ EpollEnded \/ WatchEpoll \/ CancelEpollCompleted
           \/ \E c \in Fds : DriveEvent(c)
           \/ Submit(HybridDraining) \/ NoCqeLeft \/ Exit(HybridDraining)
           \/ Signal \/ Kernel \/ Terminated \/ UNCHANGED hybridVars
    PROVE  UNCHANGED <<connections, conn, ssl>>
<1>1. CASE Kernel
  BY <1>1 DEF Kernel, KernelAcceptFails, CancelSteps, KernelFindsTarget, KernelEndsTarget,
       KernelCancels, KernelAccepts, KernelPollsEpoll, KernelPollFails, Completed,
       PeerSends, PeerLeaves, PeerReads, worker
<1>2. CASE AcceptedWhileStopping \/ AcceptEnded \/ CancelAcceptCompleted
  BY <1>2 DEF AcceptedWhileStopping, AcceptEnded, CancelAcceptCompleted
<1>3. CASE \/ EpollReady \/ EpollEnded \/ WatchEpoll \/ CancelEpollCompleted
           \/ \E c \in Fds : DriveEvent(c)
  BY <1>3 DEF EpollReady, EpollEnded, WatchEpoll, CancelEpollCompleted, DriveEvent
<1>4. CASE \/ Submit(HybridDraining) \/ NoCqeLeft \/ Exit(HybridDraining)
           \/ Signal \/ Terminated \/ UNCHANGED hybridVars
  BY <1>4 DEF Submit, NoCqeLeft, Exit, Signal, SignalStop, SubmitInterrupted, Terminated,
       hybridVars, vars
<1>. QED  BY <1>1, <1>2, <1>3, <1>4

LEMMA TurnsKept == OrderlyPeers /\ HybridInv /\ TurnsOk /\ [Next]_hybridVars => TurnsOk'
<1> SUFFICES ASSUME OrderlyPeers, HybridInv, TurnsOk, [Next]_hybridVars PROVE TurnsOk'
  OBVIOUS
<1>1. CoreInv
  BY DEF HybridInv
<1>2. ASSUME UNCHANGED <<connections, conn, ssl>> PROVE TurnsOk'
  BY <1>2 DEF TurnsOk
<1>3. CASE AcceptedConnection
  BY <1>1, <1>3, AcceptedInTurn
<1>4. CASE Drive
  BY <1>4, DriveInTurn DEF Drive
<1>5. CASE Shutdown
  BY <1>1, <1>5, ShutdownKeepsTurns DEF Shutdown
<1>. QED  BY <1>2, <1>3, <1>4, <1>5, StepsApart DEF Next, Thread, Complete, Listen, Main

\* A write that OpenSSL has not finished is repeated with the same contents,
\* whatever the batches of events between, and fails only when the peer has left,
\* if peers follow the protocol.
THEOREM HybridRetriesRepeat == OrderlyPeers /\ Spec => []RetriesRepeat
<1>1. OrderlyPeers /\ HybridInit => OrderlyPeers /\ HybridInv /\ TurnsOk
  BY HybridInvInitially DEF HybridInit, TurnsOk
<1>2. (OrderlyPeers /\ HybridInv /\ TurnsOk) /\ [Next]_hybridVars
          => (OrderlyPeers /\ HybridInv /\ TurnsOk)'
  <2>1. OrderlyPeers => OrderlyPeers'
    BY DEF OrderlyPeers, Orderly, FlightsRead
  <2>. QED  BY <2>1, HybridInvKept, TurnsKept
<1>3. OrderlyPeers /\ HybridInv /\ TurnsOk => RetriesRepeat
  <2> SUFFICES ASSUME OrderlyPeers, HybridInv, TurnsOk, NEW c \in Fds,
                      Driving(c), ssl[c].writing # NULL, Turn(c).verdict = "failed"
               PROVE  socket[c].behind # "more"
    BY DEF RetriesRepeat
  <2>1. c \in connections /\ CoreInv
    BY DriveFacts DEF HybridInv
  <2>2. conn[c].phase # "draining"
    BY <2>1 DEF TurnsOk, InTurn
  <2>3. Excused(ssl[c], Turn(c), socket[c].behind)
    BY <2>1, <2>2, SocketTurn
  <2>. QED  BY <2>3 DEF Excused
<1>. QED  BY <1>1, <1>2, <1>3, PTL DEF Spec

\* The reasons for which a connection is finished.
Reason(c) ==
    \/ stopping
    \/ Driving(c) /\ (socket[c].behind # "more" \/ ~Handshaken(ssl[c]))
    \/ Driving(c) /\ conn[c].phase = "draining" /\ Last(ssl[c].out) = "close_notify"
           /\ Unwritten(ssl[c]) = 0

LEMMA FinishedWithReason ==
    ASSUME HybridInv, TurnsOk, OrderlyPeers, [Next]_hybridVars, NEW c \in Fds,
           Alive(c), ~Alive(c)'
    PROVE  Reason(c)
<1>1. CoreInv
  BY DEF HybridInv
<1>2. ASSUME UNCHANGED <<connections, conn, ssl>> PROVE FALSE
  BY <1>2 DEF Alive
<1>3. ~AcceptedConnection
  <2>1. SUFFICES ASSUME AcceptedConnection PROVE Alive(c)'
    OBVIOUS
  <2>2. /\ Head(cq).fd \notin connections /\ connections' = connections \cup {Head(cq).fd}
        /\ conn' = [conn EXCEPT ![Head(cq).fd] = NewConnection]
    BY <1>1, <2>1, AcceptedConnectionKeeps DEF AcceptedConnection
  <2>. QED  BY <2>2 DEF Alive
<1>4. CASE Drive
  <2>1. PICK b \in Fds : DriveContinues(b) \/ DriveWaits(b) \/ DriveFails(b) \/ DriveDrained(b)
    BY <1>4 DEF Drive
  <2>2. /\ b \in connections
        /\ \E e : /\ Store(e) /\ e.fd = b
                  /\ DriveContinues(b) \/ DriveWaits(b) => ~e.k.dead /\ e.k.references > 0
    BY <2>1, DriveInTurn
  <2>3. c = b /\ ~DriveContinues(b) /\ ~DriveWaits(b)
    BY <1>1, <2>2, StoredAlive
  <2>4. CASE DriveFails(b)
    <3>1. Driving(c) /\ conn[c].phase # "draining" /\ Turn(c).verdict = "failed"
      BY <2>3, <2>4 DEF DriveFails, Turning
    <3>2. Excused(ssl[c], Turn(c), socket[c].behind)
      BY <1>1, <2>2, <2>3, <3>1, SocketTurn
    <3>. QED  BY <3>1, <3>2 DEF Excused, Reason
  <2>5. CASE DriveDrained(b)
    <3>1. Driving(c) /\ conn[c].phase = "draining"
      BY <2>3, <2>5 DEF DriveDrained
    <3>2. Closed(ssl[c]) /\ Unwritten(ssl[c]) = 0
      BY <2>2, <2>3, <3>1 DEF TurnsOk, InTurn
    <3>. QED  BY <3>1, <3>2 DEF Closed, Last, Reason
  <2>. QED  BY <2>1, <2>3, <2>4, <2>5
<1>5. CASE Shutdown
  BY <1>5 DEF Shutdown, StartShutdown, Reason
<1>. QED  BY <1>2, <1>3, <1>4, <1>5, StepsApart DEF Next, Thread, Complete, Listen, Main

\* A connection is finished for a reason only: its peer left, its handshake
\* failed, a stop, or the end of the dialogue, close_notify last and written; if
\* peers follow the protocol.
THEOREM HybridFinishesForReason == OrderlyPeers /\ Spec => FinishedForReason
<1> DEFINE Inv == OrderlyPeers /\ HybridInv /\ TurnsOk
           Justified == \A c \in Fds : Alive(c) /\ ~Alive(c)' => Reason(c)
<1>1. OrderlyPeers /\ HybridInit => Inv
  BY HybridInvInitially DEF HybridInit, TurnsOk
<1>2. Inv /\ [Next]_hybridVars => Inv'
  <2>1. OrderlyPeers => OrderlyPeers'
    BY DEF OrderlyPeers, Orderly, FlightsRead
  <2>. QED  BY <2>1, HybridInvKept, TurnsKept
<1>3. Inv /\ [Next]_hybridVars => [Justified]_vars
  BY FinishedWithReason
<1>4. [][Justified]_vars => FinishedForReason
  <2>1. [Justified]_vars =>
            [\A c \in Fds : Alive(c) /\ ~Alive(c)' =>
                \/ stopping
                \/ cq # <<>> /\ Head(cq).op \in {Input(c), Output(c)} /\ Head(cq).res = "error"
                \/ Driving(c) /\ (socket[c].behind # "more" \/ ~Handshaken(ssl[c]))
                \/ Driving(c) /\ conn[c].phase = "draining" /\ Last(ssl[c].out) = "close_notify"
                       /\ Unwritten(ssl[c]) = 0]_vars
    BY DEF Reason
  <2>. QED  BY <2>1, PTL DEF FinishedForReason
<1> HIDE DEF Inv, Justified
<1>. QED  BY <1>1, <1>2, <1>3, <1>4, PTL DEF Spec
=============================================================================
