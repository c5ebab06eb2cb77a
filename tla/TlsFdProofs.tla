----------------------------- MODULE TlsFdProofs -----------------------------
(***************************************************************************)
(* The one-shot poll workers, for every number of descriptors and queue    *)
(* entries, every script and environment, with and without read-ahead and  *)
(* the shortcut of tls-fd-ready: references and flags agree with the       *)
(* operations outstanding, no completion is ended twice, main leaves       *)
(* nothing behind, no wakeup is lost, and each peer is told its handshake, *)
(* its replies and close_notify in their order.  When peers follow the     *)
(* protocol, no repeated write is refused, and a connection is finished    *)
(* for a reason only.                                                      *)
(***************************************************************************)
EXTENDS TlsFd, TlsWorkerProofs

-----------------------------------------------------------------------------
(* The inductive invariant.                                                *)

\* A connection that is not driven has a poll for what it lacks.
Waits(k, s) ==
    /\ k.input_active
    /\ k.poll_events = "in" => NeedsInput(k, s)
    /\ k.poll_events = "out" => NeedsOutput(k, s)

WaitsOk ==
    \A c \in connections : ~conn[c].dead =>
        IF Driving(c) THEN ~conn[c].input_active ELSE Waits(conn[c], ssl[c])

TasksOk == task.then \in {"none", "release", "accept"}

NoEpoll == EpollOp \notin Pending /\ CancelEpoll \notin Pending

ExitOk == pc = "exited" => ~Draining

FdInv == CoreInv /\ TasksOk /\ NoEpoll /\ WaitsOk /\ ExitOk

LEMMA BiosAreOk ==
    ASSUME CoreInv, NEW c \in Fds
    PROVE  /\ BiosOk(Bios(c)) /\ ssl[c].fetched <= Bios(c).available
           /\ Bios(c).available = socket[c].arrived /\ Bios(c).behind = socket[c].behind
           /\ Bios(c).limit = socket[c].read + SendBuffer
<1>1. socket[c] \in Socket
  BY DEF CoreInv, TypeOK
<1>2. /\ socket[c].script \in Seq(PeerRecord) /\ socket[c].arrived \in Nat
      /\ socket[c].behind \in {"more", "eof", "reset"}
      /\ socket[c].read + SendBuffer \in Nat
  <2>1. /\ socket[c].script \in Scripts \cup {<<>>} /\ socket[c].arrived \in Nat
        /\ socket[c].behind \in {"more", "eof", "reset"} /\ socket[c].read \in Nat
    BY <1>1 DEF Socket
  <2>2. Scripts \cup {<<>>} \subseteq Seq(PeerRecord)
    BY WorkerAssumption, EmptySeq
  <2>3. SendBuffer \in Nat
    BY WorkerAssumption
  <2> DEFINE n == socket[c].read
  <2>4. n \in Nat
    BY <2>1
  <2> HIDE DEF n
  <2>5. n + SendBuffer \in Nat
    BY <2>3, <2>4
  <2>. QED  BY <2>1, <2>2, <2>5 DEF n
<1>3. /\ ssl[c].fetched <= socket[c].arrived
      /\ socket[c].arrived <= RecordPieces * Len(socket[c].script)
  BY DEF CoreInv, SocketsOk
<1>. QED  BY <1>2, <1>3 DEF BiosOk, Bios

-----------------------------------------------------------------------------
(* Steps that leave the connections alone.                                 *)

LEMMA RestKept ==
    ASSUME FdInv, EpollKept, UNCHANGED <<task, connections, conn, ssl>>,
           pc' = "drive" <=> pc = "drive",
           pc' = "exited" => ~Draining'
    PROVE  TasksOk' /\ NoEpoll' /\ WaitsOk' /\ ExitOk'
<1>1. \A c : Driving(c)' <=> Driving(c)
  BY DEF Driving
<1>2. WaitsOk'
  BY <1>1 DEF FdInv, WaitsOk
<1>. QED  BY <1>2 DEF FdInv, TasksOk, NoEpoll, EpollKept, ExitOk

LEMMA ListenStep ==
    ASSUME FdInv, Listen
    PROVE  FdInv'
<1>1. CoreInv' /\ EpollKept
  BY ListenKeeps DEF FdInv
<1>2. CASE AcceptedConnection
  <2> DEFINE c == Head(cq).fd
  <2>1. /\ pc \in {"wait", "reap"} /\ pc' = "drive" /\ task' = Task(c, "accept")
        /\ connections' = connections \cup {c}
        /\ conn' = [conn EXCEPT ![c] = NewConnection]
        /\ ssl' = [ssl EXCEPT ![c] = NewSsl]
    BY <1>2 DEF AcceptedConnection, Completes
  <2>2. c \in Fds \ connections
    BY <1>2, AcceptedConnectionKeeps DEF FdInv
  <2> HIDE DEF c
  <2>3. /\ conn \in [Fds -> Connection] /\ ssl \in [Fds -> Ssl] /\ connections \subseteq Fds
    BY DEF FdInv, CoreInv, TypeOK
  <2>4. task'.fd = c /\ task'.then = "accept"
    BY <2>1 DEF Task
  <2>5. WaitsOk'
    <3>1. ASSUME NEW b \in connections', ~conn'[b].dead
          PROVE  IF Driving(b)' THEN ~conn'[b].input_active ELSE Waits(conn'[b], ssl'[b])
      <4>1. CASE b = c
        BY <2>1, <2>2, <2>3, <2>4, <4>1, FreshTypes DEF Driving
      <4>2. CASE b # c
        <5>1. b \in connections /\ conn'[b] = conn[b] /\ ssl'[b] = ssl[b]
          BY <2>1, <2>3, <4>2
        <5>2. ~Driving(b) /\ ~Driving(b)'
          BY <2>1, <2>4, <4>2 DEF Driving
        <5>. QED  BY <3>1, <5>1, <5>2 DEF FdInv, WaitsOk
      <4>. QED  BY <4>1, <4>2
    <3>. QED  BY <3>1 DEF WaitsOk
  <2>6. TasksOk' /\ NoEpoll' /\ ExitOk'
    BY <1>1, <2>1, <2>4 DEF FdInv, TasksOk, NoEpoll, EpollKept, ExitOk
  <2>. QED  BY <1>1, <2>5, <2>6 DEF FdInv
<1>3. CASE AcceptedWhileStopping \/ AcceptEnded \/ CancelAcceptCompleted
  <2>1. /\ pc \in {"wait", "reap"} /\ pc' = "reap"
        /\ UNCHANGED <<task, connections, conn, ssl>>
    BY <1>3 DEF AcceptedWhileStopping, AcceptEnded, CancelAcceptCompleted, Completes
  <2>. QED  BY <1>1, <2>1, RestKept DEF FdInv
<1>. QED  BY <1>2, <1>3 DEF Listen

LEMMA MainStep ==
    ASSUME FdInv, Main
    PROVE  FdInv'
<1>1. CASE StartShutdown(Draining, {})
  <2>1. /\ CoreInv'
        /\ EpollOp \in Pending' <=> EpollOp \in Pending
        /\ CancelEpoll \in Pending' <=> CancelEpoll \in Pending
        /\ \A c \in connections' : conn'[c].dead
    BY <1>1, StartShutdownKeeps DEF FdInv
  <2>2. pc' = "wait" /\ task' = task
    BY <1>1 DEF StartShutdown
  <2>. QED  BY <2>1, <2>2 DEF FdInv, TasksOk, NoEpoll, WaitsOk, ExitOk
<1>2. CASE Submit(Draining) \/ NoCqeLeft \/ Exit(Draining)
  <2>1. CoreInv' /\ EpollKept
    BY <1>2, MainKeeps DEF FdInv
  <2>2. /\ UNCHANGED <<task, connections, conn, ssl>> /\ pc # "drive" /\ pc' # "drive"
        /\ pc' = "exited" => ~Draining'
    BY <1>2 DEF Submit, NoCqeLeft, Exit, Draining, listening
  <2>. QED  BY <2>1, <2>2, RestKept DEF FdInv
<1>. QED  BY <1>1, <1>2 DEF Main

LEMMA SignalStep ==
    ASSUME FdInv, Signal
    PROVE  FdInv'
<1>1. CoreInv' /\ EpollKept
  BY SignalStopKeeps, MainKeeps DEF FdInv, Signal
<1>2. /\ UNCHANGED <<task, connections, conn, ssl>>
      /\ pc' = "drive" <=> pc = "drive"
      /\ pc' = "exited" => ~Draining'
  BY DEF Signal, SignalStop, SubmitInterrupted
<1>. QED  BY <1>1, <1>2, RestKept DEF FdInv

LEMMA KernelStep ==
    ASSUME FdInv, Kernel
    PROVE  FdInv'
<1>1. UNCHANGED worker
  BY DEF Kernel, KernelAcceptFails, CancelSteps, KernelFindsTarget, KernelEndsTarget,
         KernelCancels, KernelAccepts, KernelFails, KernelPolls, Completed,
         PeerSends, PeerLeaves, PeerReads
<1>2. CoreInv' /\ EpollKept
  <2>1. CASE KernelAcceptFails \/ CancelSteps
    BY <2>1, KernelFailsKeeps, CancelStepsKeep DEF FdInv
  <2>2. ASSUME NEW c \in Fds, KernelAccepts(c) \/ KernelFails(Input(c)) \/ KernelPolls(c)
        PROVE  CoreInv' /\ EpollKept
    <3>1. Input(c) \in Operations /\ Input(c) # AcceptOp
      BY OperationNames DEF ConnectionOps, WorkerOps
    <3>2. CASE KernelAccepts(c)
      BY <3>2, KernelAcceptsKeeps DEF FdInv
    <3>3. CASE KernelFails(Input(c))
      BY <3>1, <3>3, KernelFailsKeeps DEF FdInv
    <3>4. CASE KernelPolls(c)
      BY <3>1, <3>4, LastCqePosted DEF FdInv, KernelPolls
    <3>. QED  BY <2>2, <3>2, <3>3, <3>4
  <2>3. ASSUME NEW c \in Fds, PeerSends(c) \/ PeerLeaves(c) \/ PeerReads(c, ssl[c].written)
        PROVE  CoreInv' /\ EpollKept
    <3>1. ssl[c].written \in Nat
      BY DEF FdInv, CoreInv, TypeOK, Ssl
    <3>. QED  BY <2>3, <3>1, PeerSendsKeeps, PeerLeavesKeeps, PeerReadsKeeps DEF FdInv
  <2>. QED  BY <2>1, <2>2, <2>3 DEF Kernel
<1>3. pc' = "exited" => ~Draining'
  BY <1>1 DEF FdInv, ExitOk, Draining, worker
<1>. QED  BY <1>1, <1>2, <1>3, RestKept DEF FdInv, worker

-----------------------------------------------------------------------------
(* Steps that store a connection.                                          *)

LEMMA StoredKept ==
    ASSUME FdInv, EpollKept, NEW c \in connections, NEW e, e.fd = c, Store(e),
           task.fd \in {NULL, c}, task'.fd \in {NULL, c}, pc' # "exited",
           task'.then \in {"none", "release", "accept"},
           ~e.k.dead => IF Driving(c)' THEN ~e.k.input_active ELSE Waits(e.k, e.s)
    PROVE  TasksOk' /\ NoEpoll' /\ WaitsOk' /\ ExitOk'
<1>1. /\ connections' \subseteq connections
      /\ \A b \in connections' : b # c => conn'[b] = conn[b] /\ ssl'[b] = ssl[b]
      /\ c \in connections' => conn'[c] = e.k /\ ssl'[c] = e.s
  BY StoredConnections DEF FdInv
<1>2. connections \subseteq Fds /\ NULL \notin Fds
  BY WorkerAssumption DEF FdInv, CoreInv, TypeOK
<1>3. WaitsOk'
  <2>1. ASSUME NEW b \in connections', ~conn'[b].dead
        PROVE  IF Driving(b)' THEN ~conn'[b].input_active ELSE Waits(conn'[b], ssl'[b])
    <3>1. CASE b = c
      BY <1>1, <2>1, <3>1
    <3>2. CASE b # c
      <4>1. b \in connections /\ conn'[b] = conn[b] /\ ssl'[b] = ssl[b]
        BY <1>1, <3>2
      <4>2. ~Driving(b) /\ ~Driving(b)'
        BY <1>2, <3>2, <4>1 DEF Driving
      <4>. QED  BY <2>1, <4>1, <4>2 DEF FdInv, WaitsOk
    <3>. QED  BY <3>1, <3>2
  <2>. QED  BY <2>1 DEF WaitsOk
<1>. QED  BY <1>3 DEF FdInv, TasksOk, NoEpoll, EpollKept, ExitOk

LEMMA CancelStep ==
    ASSUME FdInv, NEW c \in Fds, CancelCompleted(c)
    PROVE  FdInv'
<1>1. CoreInv' /\ EpollKept /\ c \in connections /\ conn[c].dead /\ Store(Release(Context(c)))
  BY CancelCompletedKeeps DEF FdInv
<1>2. pc \in {"wait", "reap"} /\ pc' = "reap" /\ task' = task
  BY DEF CancelCompleted, Completes, Concludes
<1>3. task = NoTask
  BY <1>2 DEF FdInv, CoreInv, TaskOk
<1> DEFINE e == Release(Context(c))
<1>4. e.fd = c /\ e.k.dead
  <2>1. Context(c).fd = c /\ Context(c).k = conn[c] /\ conn[c] \in Connection
    BY <1>1, ContextGood DEF FdInv, CoreInv, TypeOK
  <2>. QED  BY <1>1, <2>1 DEF Release, Context, Connection
<1> HIDE DEF e
<1>5. TasksOk' /\ NoEpoll' /\ WaitsOk' /\ ExitOk'
  BY <1>1, <1>2, <1>3, <1>4, StoredKept DEF NoTask, Task, e
<1>. QED  BY <1>1, <1>5 DEF FdInv

\* The poll of c has completed: its flag is cleared, its reference is held.
LEMMA InputEndedGood ==
    ASSUME CoreInv, NEW c \in Fds, Completes("input"), Head(cq).op = Input(c)
    PROVE  LET e == InputEnded(c)
           IN /\ c \in connections /\ task = NoTask /\ QueueKept(c)
              /\ Good(e, EndedOps', 1) /\ e.fd = c /\ e.s = ssl[c]
              /\ e.sq = sq /\ e.kernel = kernel
              /\ e.k.dead = conn[c].dead /\ ~e.k.input_active
<1> DEFINE d == Context(c)
           l == [conn[c] EXCEPT !.input_active = FALSE]
           e == With(d, l)
<1>1. /\ pc \in {"wait", "reap"} /\ cq # <<>> /\ cq' = Tail(cq)
  BY DEF Completes
<1>2. Input(c) \in ConnectionOps(c) /\ Input(c) # Output(c)
  BY OperationNames DEF ConnectionOps
<1>3. /\ c \in connections /\ task = NoTask /\ QueueKept(c) /\ Input(c) \in Pending
      /\ Accounts(c, conn[c], Pending, 0)
      /\ \A f : f.sq = sq /\ f.kernel = kernel => Live(f, EndedOps') = Pending \ {Input(c)}
      /\ \A f : Queues(f, EndedOps) => Queues(f, EndedOps')
  BY <1>1, <1>2, ConnectionCqe
<1>4. /\ d.fd = c /\ d.k = conn[c] /\ d.s = ssl[c] /\ d.sq = sq /\ d.kernel = kernel
      /\ Queues(d, EndedOps) /\ d \in Contexts
  BY <1>3, ContextGood DEF Good
<1>5. InBounds(conn[c]) /\ conn[c] \in Connection
  BY <1>3 DEF Accounts, InBounds
<1>6. InputEnded(c) = e
  BY <1>4 DEF InputEnded, With
<1> HIDE DEF d
<1>7. /\ l \in Connection /\ l.references = conn[c].references /\ l.dead = conn[c].dead
      /\ ~l.input_active /\ l.output_active = conn[c].output_active
      /\ l.input_cancelled = conn[c].input_cancelled
      /\ l.output_cancelled = conn[c].output_cancelled
      /\ l.phase = conn[c].phase /\ l.input = conn[c].input /\ l.reply = conn[c].reply
  BY <1>5 DEF Connection
<1> HIDE DEF l
<1>8. InBounds(l)
  BY <1>5, <1>7 DEF InBounds
<1>9. Accounts(c, l, Pending \ {Input(c)}, 1)
  BY <1>2, <1>3, <1>7, <1>8, AccountsEnded
<1>10. /\ e \in Contexts /\ e.k = l /\ e.fd = c /\ e.s = ssl[c]
       /\ e.sq = sq /\ e.kernel = kernel
  BY <1>4, <1>7, WithConnection
<1> HIDE DEF e
<1>11. Queues(e, EndedOps')
  <2>1. Queues(e, EndedOps)
    BY <1>4, <1>10 DEF Queues
  <2>. QED  BY <1>3, <2>1
<1>12. Good(e, EndedOps', 1)
  BY <1>3, <1>9, <1>10, <1>11 DEF Good
<1>. QED  BY <1>3, <1>6, <1>7, <1>10, <1>12

LEMMA InputStep ==
    ASSUME FdInv, NEW c \in Fds, InputCompleted(c)
    PROVE  FdInv'
<1> DEFINE d == InputEnded(c)
<1>1. /\ Completes("input") /\ Head(cq).op = Input(c)
      /\ \/ conn[c].dead /\ Concludes(Release(d))
         \/ ~conn[c].dead /\ Concludes(Release(Finish(d)))
         \/ ~conn[c].dead /\ Drives(d, "release")
  BY DEF InputCompleted
<1>2. /\ c \in connections /\ task = NoTask /\ QueueKept(c)
      /\ Good(d, EndedOps', 1) /\ d.fd = c /\ d.s = ssl[c] /\ d.sq = sq /\ d.kernel = kernel
      /\ d.k.dead = conn[c].dead /\ ~d.k.input_active
  BY <1>1, InputEndedGood DEF FdInv
<1> HIDE DEF d
<1>3. pc \in {"wait", "reap"} /\ ShutdownUnchanged
  BY <1>1 DEF Completes, ShutdownUnchanged
<1>4. ssl[c].fetched <= socket[c].arrived
  BY DEF FdInv, CoreInv, SocketsOk
<1>5. ASSUME NEW f, Good(f, EndedOps', 0 + 1), f.fd = c, f.s = ssl[c], f.k.dead,
             Prepares(f, ConnectionOps(c)), Concludes(Release(f))
      PROVE  FdInv'
  <2> DEFINE e == Release(f)
  <2>1. /\ Good(e, EndedOps', 0) /\ e.fd = c /\ e.s = ssl[c] /\ e.sq = f.sq
        /\ e.kernel = f.kernel /\ e.k.dead
    BY <1>5, ReleaseGood DEF Grows
  <2>2. Concludes(e)
    BY <1>5
  <2> HIDE DEF e
  <2>3. Prepares(e, ConnectionOps(c))
    BY <1>5, <2>1 DEF Prepares
  <2>4. CoreInv' /\ EpollKept
    BY <1>2, <1>3, <1>4, <2>1, <2>2, <2>3, ConcludesKeeps DEF FdInv
  <2>5. Store(e) /\ pc' = "reap" /\ task' = task
    BY <2>2 DEF Concludes
  <2>6. TasksOk' /\ NoEpoll' /\ WaitsOk' /\ ExitOk'
    BY <1>2, <2>1, <2>4, <2>5, StoredKept DEF NoTask, Task
  <2>. QED  BY <2>4, <2>6 DEF FdInv
<1>6. CASE conn[c].dead /\ Concludes(Release(d))
  <2>1. Prepares(d, ConnectionOps(c))
    BY <1>2 DEF Prepares
  <2>2. Good(d, EndedOps', 0 + 1) /\ d.k.dead
    BY <1>2, <1>6
  <2>3. Concludes(Release(d))
    BY <1>6
  <2>. QED  BY <1>2, <1>5, <2>1, <2>2, <2>3
<1>7. CASE ~conn[c].dead /\ Concludes(Release(Finish(d)))
  <2> DEFINE f == Finish(d)
  <2>1. Good(f, EndedOps', 1) /\ Grows(d, f, EndedOps', ConnectionOps(c)) /\ f.k.dead
    BY <1>2, FinishGood
  <2>2. Concludes(Release(f))
    BY <1>7
  <2> HIDE DEF f
  <2>3. Prepares(f, ConnectionOps(c)) /\ f.fd = c /\ f.s = ssl[c]
    BY <1>2, <2>1 DEF Grows, Prepares
  <2>. QED  BY <1>5, <2>1, <2>2, <2>3
<1>8. CASE ~conn[c].dead /\ Drives(d, "release")
  <2>1. Prepares(d, ConnectionOps(c))
    BY <1>2 DEF Prepares
  <2>2. CoreInv' /\ EpollKept
    BY <1>2, <1>3, <1>4, <1>8, <2>1, DrivesKeeps DEF FdInv
  <2>3. Store(d) /\ pc' = "drive" /\ task' = Task(c, "release")
    BY <1>2, <1>8 DEF Drives
  <2>4. task'.fd = c /\ task'.then = "release" /\ Driving(c)' /\ task.fd = NULL
    BY <1>2, <2>3 DEF Task, NoTask, Driving
  <2>5. TasksOk' /\ NoEpoll' /\ WaitsOk' /\ ExitOk'
    BY <1>2, <2>2, <2>3, <2>4, StoredKept
  <2>. QED  BY <2>2, <2>5 DEF FdInv
<1>. QED  BY <1>1, <1>6, <1>7, <1>8

-----------------------------------------------------------------------------
(* drive().                                                                *)

LEMMA DriveFacts ==
    ASSUME FdInv, NEW c \in Fds, Driving(c)
    PROVE  /\ c \in connections /\ ~conn[c].dead /\ ~conn[c].input_active
           /\ task.fd = c /\ task.then \in {"release", "accept"} /\ pc = "drive"
<1>1. pc = "drive" /\ task.fd = c /\ task.then # "none" /\ c \in connections /\ ~conn[c].dead
  BY DEF Driving, FdInv, CoreInv, TaskOk
<1>. QED  BY <1>1 DEF FdInv, TasksOk, WaitsOk

\* drive() returns with a connection that is dead, or that waits.
LEMMA LeaveStep ==
    ASSUME FdInv, NEW c \in Fds, Driving(c), DriveUnchanged,
           NEW d, Good(d, EndedOps, Held(c)), d.fd = c, Prepares(d, ConnectionOps(c)),
           d.s.fetched <= socket[c].arrived, Leave(d),
           d.k.dead \/ Waits(d.k, d.s)
    PROVE  FdInv'
<1>1. /\ CoreInv' /\ EpollKept /\ c \in connections
      /\ \E e : Store(e) /\ e.fd = c /\ e.s = d.s /\ e.k \in {d.k, Released(d.k)}
  BY LeaveKeeps DEF FdInv
<1>2. PICK e : Store(e) /\ e.fd = c /\ e.s = d.s /\ e.k \in {d.k, Released(d.k)}
  BY <1>1
<1>3. task' = NoTask /\ pc' \in {"events", "reap"} /\ task.fd = c
  BY DEF Leave, Driving
<1>4. d.k \in Connection
  BY DEF Good, Accounts, InBounds
<1>5. ~Driving(c)'
  BY <1>3 DEF Driving
<1>6. ~e.k.dead => Waits(e.k, e.s)
  <2>1. CASE e.k = d.k
    BY <1>2, <2>1
  <2>2. CASE e.k = Released(d.k)
    <3> DEFINE k == d.k
               l == Released(k)
    <3>1. /\ l.dead = k.dead /\ l.input_active = k.input_active
          /\ l.poll_events = k.poll_events
          /\ l.phase = k.phase /\ l.input = k.input /\ l.reply = k.reply
          /\ l.read_eof = k.read_eof
      BY <1>4, ReleasedFields
    <3> HIDE DEF l
    <3>2. /\ NeedsInput(k, d.s) => NeedsInput(l, d.s)
          /\ NeedsOutput(k, d.s) => NeedsOutput(l, d.s)
      BY <1>4, <3>1, NeedsKept
    <3>3. ~l.dead => Waits(l, d.s)
      BY <3>1, <3>2 DEF Waits
    <3>. QED  BY <1>2, <2>2, <3>3 DEF l
  <2>. QED  BY <1>2, <2>1, <2>2
<1>7. TasksOk' /\ NoEpoll' /\ WaitsOk' /\ ExitOk'
  BY <1>1, <1>2, <1>3, <1>5, <1>6, StoredKept DEF NoTask, Task
<1>. QED  BY <1>1, <1>7 DEF FdInv

LEMMA TurnFacts ==
    ASSUME FdInv, NEW c \in Fds, Turning(c), NEW i, i = Turn(c)
    PROVE  /\ Driving(c) /\ DriveUnchanged /\ c \in connections
           /\ TurnResult(Context(c), Bios(c), i)
           /\ Good(i.d, EndedOps, Held(c)) /\ i.d.fd = c /\ ~i.d.k.dead
           /\ i.d.sq = sq /\ i.d.kernel = kernel /\ i.d.k.references > 0
           /\ i.d.s.fetched <= socket[c].arrived
           /\ InBounds(i.d.k) /\ i.d.s \in Ssl /\ ~i.d.k.input_active
<1>1. Driving(c) /\ conn[c].phase # "draining" /\ DriveUnchanged
  BY DEF Turning, DriveUnchanged
<1>2. c \in connections /\ ~conn[c].input_active
  BY <1>1, DriveFacts
<1>3. /\ TurnResult(Context(c), Bios(c), i)
      /\ Good(i.d, EndedOps, Held(c)) /\ i.d.fd = c /\ ~i.d.k.dead
      /\ i.d.sq = sq /\ i.d.kernel = kernel /\ i.d.k.references > 0
      /\ i.d.s.fetched <= Bios(c).available
      /\ SameAccounts(conn[c], i.d.k) /\ InBounds(i.d.k) /\ i.d.s \in Ssl
  BY <1>1, BiosAreOk, TurnGood DEF FdInv, Turn
<1>4. ~i.d.k.input_active
  BY <1>2, <1>3 DEF SameAccounts
<1>. QED  BY <1>1, <1>2, <1>3, <1>4, BiosAreOk DEF FdInv

LEMMA DriveStep ==
    ASSUME FdInv, NEW c \in Fds, DriveOn(c) \/ DriveWaits(c) \/ DriveFails(c) \/ DriveDrained(c)
    PROVE  FdInv'
<1> DEFINE i == Turn(c)
           d == i.d
<1>1. CASE DriveOn(c)
  <2>1. Turning(c) /\ Continue(d)
    BY <1>1 DEF DriveOn, DriveContinues
  <2>2. /\ Driving(c) /\ DriveUnchanged /\ c \in connections
        /\ Good(d, EndedOps, Held(c)) /\ d.fd = c /\ ~d.k.dead
        /\ d.sq = sq /\ d.kernel = kernel /\ d.k.references > 0
        /\ d.s.fetched <= socket[c].arrived /\ ~d.k.input_active
    BY <2>1, TurnFacts
  <2> HIDE DEF i, d
  <2>3. CoreInv' /\ EpollKept
    <3>1. Prepares(d, ConnectionOps(c))
      BY <2>2 DEF Prepares
    <3>. QED  BY <2>1, <2>2, <3>1, ContinueKeeps DEF FdInv
  <2>4. Store(d) /\ UNCHANGED <<pc, task>>
    BY <2>1 DEF Continue
  <2>5. Driving(c)' /\ task.fd = c /\ task'.fd = c /\ pc' # "exited"
        /\ task'.then \in {"none", "release", "accept"}
    BY <2>2, <2>4 DEF Driving, FdInv, TasksOk
  <2>6. TasksOk' /\ NoEpoll' /\ WaitsOk' /\ ExitOk'
    BY <2>2, <2>3, <2>4, <2>5, StoredKept
  <2>. QED  BY <2>3, <2>6 DEF FdInv
<1>2. CASE DriveWaits(c)
  <2>1. Turning(c)
    BY <1>2 DEF DriveWaits
  <2>2. /\ Driving(c) /\ DriveUnchanged /\ c \in connections
        /\ TurnResult(Context(c), Bios(c), i)
        /\ Good(d, EndedOps, Held(c)) /\ d.fd = c /\ ~d.k.dead
        /\ d.sq = sq /\ d.kernel = kernel
        /\ d.s.fetched <= socket[c].arrived /\ InBounds(d.k) /\ d.s \in Ssl
        /\ ~d.k.input_active
    BY <2>1, TurnFacts
  <2>3. \E events \in {"in", "out"} :
           /\ Leave(SubmitInput(d, events))
           /\ IF events = "in" THEN NeedsInput(d.k, d.s) ELSE NeedsOutput(d.k, d.s)
    <3>1. CASE ~CanProceed(c) /\ Leave(WaitForIo(d, i.verdict))
      <4>1. i.verdict \in {"want_read", "want_write"}
        BY <3>1 DEF CanProceed
      <4>2. CASE i.verdict = "want_read"
        <5>1. Leave(SubmitInput(d, "in"))
          BY <2>2, <3>1, <4>2 DEF WaitForIo
        <5>2. NeedsInput(d.k, d.s)
          BY <2>2, <4>2 DEF TurnResult
        <5>. QED  BY <5>1, <5>2
      <4>3. CASE i.verdict = "want_write"
        <5>1. Leave(SubmitInput(d, "out"))
          BY <2>2, <3>1, <4>3 DEF WaitForIo
        <5>2. NeedsOutput(d.k, d.s)
          BY <2>2, <4>3 DEF TurnResult
        <5>. QED  BY <5>1, <5>2
      <4>. QED  BY <4>1, <4>2, <4>3
    <3>2. CASE WaitsAfterReply(i) /\ Leave(WaitForIo(d, "want_read"))
      <4>1. Leave(SubmitInput(d, "in"))
        BY <2>2, <3>2 DEF WaitForIo
      <4>2. NeedsInput(d.k, d.s)
        BY <2>2, <3>2, IdleNeedsInput DEF WaitsAfterReply
      <4>. QED  BY <4>1, <4>2
    <3>. QED  BY <1>2, <3>1, <3>2 DEF DriveWaits
  <2>4. PICK events \in {"in", "out"} :
           /\ Leave(SubmitInput(d, events))
           /\ IF events = "in" THEN NeedsInput(d.k, d.s) ELSE NeedsOutput(d.k, d.s)
    BY <2>3
  <2> DEFINE e == SubmitInput(d, events)
  <2> HIDE DEF i, d
  <2>5. Held(c) \in Nat
    BY DEF Held, Count
  <2>6. /\ Good(e, EndedOps, Held(c)) /\ Grows(d, e, EndedOps, ConnectionOps(c))
        /\ e.k.input_active /\ e.k.poll_events = events
        /\ e.k.phase = d.k.phase /\ e.k.input = d.k.input /\ e.k.reply = d.k.reply
        /\ e.k.read_eof = d.k.read_eof
    BY <2>2, <2>5, SubmitInputGood
  <2>7. Leave(e)
    BY <2>4
  <2> HIDE DEF e
  <2>8. Prepares(e, ConnectionOps(c)) /\ e.fd = c /\ e.s = d.s
    BY <2>2, <2>6, GrowsPrepares
  <2>9. /\ NeedsInput(d.k, d.s) => NeedsInput(e.k, e.s)
        /\ NeedsOutput(d.k, d.s) => NeedsOutput(e.k, e.s)
    BY <2>2, <2>6, <2>8, NeedsKept DEF InBounds
  <2>10. Waits(e.k, e.s)
    BY <2>4, <2>6, <2>9 DEF Waits
  <2>. QED  BY <2>2, <2>6, <2>7, <2>8, <2>10, LeaveStep
<1>3. ASSUME NEW f, Driving(c), DriveUnchanged, Good(f, EndedOps, Held(c)), f.fd = c,
             f.sq = sq, f.kernel = kernel, f.s.fetched <= socket[c].arrived, Leave(Finish(f))
      PROVE  FdInv'
  <2> DEFINE e == Finish(f)
  <2>1. Held(c) \in Nat
    BY DEF Held, Count
  <2>2. Good(e, EndedOps, Held(c)) /\ Grows(f, e, EndedOps, ConnectionOps(c)) /\ e.k.dead
    BY <1>3, <2>1, FinishGood
  <2>3. Leave(e)
    BY <1>3
  <2> HIDE DEF e
  <2>4. Prepares(e, ConnectionOps(c)) /\ e.fd = c /\ e.s = f.s
    BY <1>3, <2>2, GrowsPrepares
  <2>. QED  BY <1>3, <2>2, <2>3, <2>4, LeaveStep
<1>4. CASE DriveFails(c)
  <2>1. Turning(c) /\ Leave(Finish(d))
    BY <1>4 DEF DriveFails
  <2>. QED  BY <1>3, <2>1, TurnFacts
<1>5. CASE DriveDrained(c)
  <2>1. Driving(c) /\ DriveUnchanged /\ Leave(Finish(Context(c)))
    BY <1>5 DEF DriveDrained, DriveUnchanged
  <2>2. c \in connections
    BY <2>1, DriveFacts
  <2>3. ssl[c].fetched <= socket[c].arrived
    BY DEF FdInv, CoreInv, SocketsOk
  <2>. QED  BY <1>3, <2>1, <2>2, <2>3, ContextGood DEF FdInv
<1>. QED  BY <1>1, <1>2, <1>4, <1>5

-----------------------------------------------------------------------------
(* The invariant and what follows from it.                                 *)

LEMMA FdInvInitially == Init => FdInv
<1> SUFFICES ASSUME Init PROVE FdInv
  OBVIOUS
<1>1. CoreInv /\ Pending = {AcceptOp}
  BY CoreInit DEF Init
<1>2. NoEpoll
  BY <1>1, OperationNames DEF NoEpoll
<1>3. TasksOk /\ WaitsOk /\ ExitOk
  BY DEF Init, TasksOk, WaitsOk, ExitOk, NoTask, Task
<1>. QED  BY <1>1, <1>2, <1>3 DEF FdInv

LEMMA FdInvKept == FdInv /\ [Next]_vars => FdInv'
<1> SUFFICES ASSUME FdInv, [Next]_vars PROVE FdInv'
  OBVIOUS
<1>1. CASE Thread
  <2>1. CASE Complete
    BY <2>1, ListenStep, CancelStep, InputStep DEF Complete
  <2>2. CASE Drive
    BY <2>2, DriveStep DEF Drive
  <2>. QED  BY <1>1, <2>1, <2>2, MainStep DEF Thread
<1>2. CASE Signal
  BY <1>2, SignalStep
<1>3. CASE Kernel
  BY <1>3, KernelStep
<1>4. CASE UNCHANGED vars
  <2>1. UNCHANGED <<task, connections, conn, ssl, pc>>
    BY <1>4 DEF vars
  <2>2. CoreInv' /\ EpollKept
    BY <1>4, QuietFacts, QuietStep DEF FdInv, vars
  <2>3. pc' = "exited" => ~Draining'
    BY <1>4 DEF FdInv, ExitOk, Draining, vars
  <2>. QED  BY <2>1, <2>2, <2>3, RestKept DEF FdInv
<1>. QED  BY <1>1, <1>2, <1>3, <1>4 DEF Next, Terminated

\* In every state of a one-shot poll worker the connections, the queues, the
\* listener and the sockets agree, and a connection that nobody drives waits,
\* with a poll in flight, for what OpenSSL lacks.
THEOREM FdInvariant == Spec => []FdInv
  BY FdInvInitially, FdInvKept, PTL DEF Spec

\* References count the owner, the outstanding operations and the completion in
\* progress, and the flags tell which operations those are: release() neither
\* frees a connection early nor leaks it (release and submit_poll of tls-fd).
THEOREM ReferencesAlwaysMatch == Spec => []ReferencesMatchOperations
<1>1. FdInv => ReferencesMatchOperations
  BY ReferencesFollow DEF FdInv
<1>. QED  BY <1>1, FdInvariant, PTL

\* Each CQE ends its operation once and hands its descriptor over once, however
\* small the submission queue and whenever the listener ends by itself.
THEOREM CompletionsAlwaysAccounted == Spec => []CompletionsAccounted
<1>1. FdInv => CompletionsAccounted
  BY CompletionsFollow DEF FdInv
<1>. QED  BY <1>1, FdInvariant, PTL

\* When main frees the ring the kernel holds no operation, no completion is left
\* and no descriptor is open.
THEOREM ExitIsClean == Spec => []CleanExit
<1>1. FdInv => CleanExit
  BY NothingLeft DEF FdInv, NoEpoll, ExitOk, Draining, CleanExit
<1>. QED  BY <1>1, FdInvariant, PTL

LEMMA WakeupFollows ==
    ASSUME FdInv
    PROVE  NoLostWakeup
<1>1. ASSUME NEW c \in Fds, Alive(c), ~Driving(c)
      PROVE  /\ Outstanding(Input(c))
             /\ CanProceed(c) => PollReady(c)
  <2>1. c \in connections /\ ~conn[c].dead
    BY <1>1 DEF Alive
  <2>2. Waits(conn[c], ssl[c])
    BY <1>1, <2>1 DEF FdInv, WaitsOk
  <2>3. Accounts(c, conn[c], Pending, Held(c))
    BY <2>1 DEF FdInv, CoreInv, ConnectionsOk
  <2>4. Outstanding(Input(c))
    BY <2>2, <2>3, OutstandingIsPending, OperationNames DEF Waits, Accounts, ConnectionOps
  <2>5. /\ Context(c).k = conn[c] /\ Context(c).s = ssl[c] /\ ssl[c] \in Ssl
        /\ InBounds(conn[c]) /\ conn[c].poll_events \in {"in", "out"}
    BY <2>1, <2>3, ContextGood DEF FdInv, CoreInv, TypeOK, Accounts, InBounds, Connection
  <2>6. /\ BiosOk(Bios(c)) /\ ssl[c].fetched <= Bios(c).available
        /\ Bios(c).available = socket[c].arrived /\ Bios(c).behind = socket[c].behind
        /\ Bios(c).limit = socket[c].read + SendBuffer
    BY BiosAreOk DEF FdInv
  <2>7. CASE conn[c].poll_events = "in"
    <3>1. SUFFICES ASSUME ~Readable(c) PROVE ~CanProceed(c)
      BY <2>4, <2>7 DEF PollReady
    <3>2. ssl[c].fetched = Bios(c).available /\ Bios(c).behind = "more"
      BY <2>5, <2>6, <3>1 DEF Readable, Ssl, BiosOk
    <3>3. Turn(c).verdict = "want_read"
      BY <2>2, <2>5, <2>6, <2>7, <3>2, StarvedTurn DEF Turn, Waits
    <3>. QED  BY <3>3 DEF CanProceed
  <2>8. CASE conn[c].poll_events = "out"
    <3>1. SUFFICES ASSUME ~Writable(c) PROVE ~CanProceed(c)
      BY <2>4, <2>8 DEF PollReady
    <3>2. ssl[c].written >= Bios(c).limit /\ Bios(c).behind # "reset"
      BY <2>5, <2>6, <3>1 DEF Writable, Ssl, BiosOk
    <3>3. Turn(c).verdict = "want_write"
      BY <2>2, <2>5, <2>6, <2>8, <3>2, BlockedTurn DEF Turn, Waits
    <3>. QED  BY <3>3 DEF CanProceed
  <2>. QED  BY <2>4, <2>5, <2>7, <2>8
<1>. QED  BY <1>1 DEF NoLostWakeup

\* No wakeup is lost: a connection that nobody drives has a poll in flight or
\* its completion queued, and whenever OpenSSL could go on the poll fires.
THEOREM WakeupNeverLost == Spec => []NoLostWakeup
<1>1. FdInv => NoLostWakeup
  BY WakeupFollows
<1>. QED  BY <1>1, FdInvariant, PTL

-----------------------------------------------------------------------------
(* What the peers were told.                                               *)

LEMMA InputCompletedTold ==
    ASSUME FdInv, PeersTold, NEW c \in Fds, InputCompleted(c)
    PROVE  PeersTold'
<1> DEFINE d == InputEnded(c)
<1>1. /\ Completes("input") /\ Head(cq).op = Input(c) /\ UNCHANGED socket
      /\ Store(Release(d)) \/ Store(Release(Finish(d))) \/ Store(d)
  BY DEF InputCompleted, Completes, Concludes, Drives
<1>2. /\ CoreInv /\ ScriptsKept /\ c \in connections
      /\ Good(d, EndedOps', 1) /\ d.fd = c /\ d.s = ssl[c]
  BY <1>1, InputEndedGood, ScriptsKeptBySteps DEF FdInv
<1>3. /\ d \in Contexts /\ d.fd = c
      /\ Finish(d) \in Contexts /\ Finish(d).fd = c /\ Finish(d).s = d.s
  BY <1>2, FinishGood DEF Good, Queues, Grows
<1>4. Told(d.k, d.s, socket[c].script)
  <2>1. conn[c] \in Connection /\ Context(c) \in Contexts /\ Context(c).k = conn[c]
    BY <1>2, ContextGood DEF CoreInv, TypeOK
  <2>2. d.k = [conn[c] EXCEPT !.input_active = FALSE]
    BY <2>1 DEF InputEnded, Contexts
  <2>3. SameTalk(conn[c], d.k)
    BY <2>1, <2>2, ConnectionTalk
  <2>4. Told(conn[c], ssl[c], socket[c].script)
    BY <1>2 DEF PeersTold
  <2>. QED  BY <1>2, <2>3, <2>4, SameTalkTold
<1>5. Told(Finish(d).k, d.s, socket[c].script)
  BY <1>3, <1>4, EndedTold
<1> HIDE DEF d
<1>. QED  BY <1>1, <1>2, <1>3, <1>4, <1>5, ConcludedTold, StoredTold

LEMMA DriveTold ==
    ASSUME FdInv, PeersTold, NEW c \in Fds,
           DriveOn(c) \/ DriveWaits(c) \/ DriveFails(c) \/ DriveDrained(c)
    PROVE  PeersTold'
<1>1. CASE DriveDrained(c)
  <2>1. Driving(c) /\ DriveUnchanged /\ Leave(Finish(Context(c))) /\ CoreInv
    BY <1>1 DEF DriveDrained, DriveUnchanged, FdInv
  <2>2. c \in connections /\ ssl[c].fetched <= socket[c].arrived
    BY <2>1, DriveFacts DEF CoreInv, SocketsOk
  <2>3. Told(conn[c], ssl[c], socket[c].script)
    BY <2>2 DEF PeersTold
  <2>. QED  BY <2>1, <2>2, <2>3, ContextGood, FinishTold
<1>2. CASE DriveOn(c) \/ DriveWaits(c) \/ DriveFails(c)
  <2>1. Turning(c) /\ CoreInv /\ conn[c].phase # "draining"
    BY <1>2 DEF DriveOn, DriveContinues, DriveWaits, DriveFails, Turning, FdInv
  <2>2. PICK i : i = Turn(c)
    OBVIOUS
  <2>3. PICK d : d = i.d
    OBVIOUS
  <2>4. /\ Driving(c) /\ DriveUnchanged /\ c \in connections
        /\ Good(d, EndedOps, Held(c)) /\ d.fd = c /\ d.sq = sq /\ d.kernel = kernel
        /\ d.s.fetched <= socket[c].arrived /\ ~d.k.input_active
    BY <2>1, <2>2, <2>3, TurnFacts
  <2>5. Told(d.k, d.s, socket[c].script)
    <3>1. BiosOk(Bios(c)) /\ ssl[c].fetched <= Bios(c).available
      BY <2>1, BiosAreOk
    <3>2. Bios(c).script = socket[c].script
      BY DEF Bios
    <3>3. i = Iteration(Context(c), Bios(c))
      BY <2>2 DEF Turn
    <3>. QED  BY <2>1, <2>3, <2>4, <3>1, <3>2, <3>3, TurnTold
  <2>6. CASE DriveOn(c)
    <3>1. Continue(d)
      BY <2>2, <2>3, <2>6 DEF DriveOn, DriveContinues
    <3>. QED  BY <2>1, <2>4, <2>5, <3>1, ContinueTold
  <2>7. CASE DriveWaits(c)
    <3>1. PICK events \in {"in", "out"} : Leave(SubmitInput(d, events))
      <4>1. ~d.k.input_active
        BY <2>4
      <4>. QED  BY <2>2, <2>3, <2>7, <4>1 DEF DriveWaits, WaitForIo
    <3>2. PICK e : e = SubmitInput(d, events)
      OBVIOUS
    <3>3. Held(c) \in Nat
      BY DEF Held, Count
    <3>4. Good(e, EndedOps, Held(c)) /\ Grows(d, e, EndedOps, ConnectionOps(c))
      BY <2>4, <3>2, <3>3, SubmitInputGood
    <3>5. Prepares(e, ConnectionOps(c)) /\ e.fd = c /\ e.s = d.s
      BY <2>4, <3>4, GrowsPrepares
    <3>6. SameTalk(d.k, e.k)
      BY <2>4, <3>2, SubmitInputTalk DEF Good, Queues
    <3>7. Told(e.k, e.s, socket[c].script)
      BY <2>5, <3>5, <3>6, SameTalkTold
    <3>8. Leave(e) /\ e.s.fetched <= socket[c].arrived
      BY <2>4, <3>1, <3>2, <3>5
    <3>. QED  BY <2>1, <2>4, <3>4, <3>5, <3>7, <3>8, LeaveTold
  <2>8. CASE DriveFails(c)
    <3>1. Leave(Finish(d))
      BY <2>2, <2>3, <2>8 DEF DriveFails
    <3>. QED  BY <2>1, <2>4, <2>5, <3>1, FinishTold
  <2>. QED  BY <1>2, <2>6, <2>7, <2>8
<1>. QED  BY <1>1, <1>2

LEMMA PeersToldKept == FdInv /\ PeersTold /\ [Next]_vars => PeersTold'
<1> SUFFICES ASSUME FdInv, PeersTold, [Next]_vars PROVE PeersTold'
  OBVIOUS
<1>1. CoreInv
  BY DEF FdInv
<1>2. ASSUME UNCHANGED <<connections, conn, ssl>>, ScriptsKept PROVE PeersTold'
  BY <1>2, ToldElsewhere
<1>3. CASE Complete
  <2>1. CASE Listen
    BY <1>1, <2>1, ListenTold
  <2>2. ASSUME NEW c \in Fds, CancelCompleted(c) PROVE PeersTold'
    BY <1>1, <2>2, CancelTold
  <2>3. ASSUME NEW c \in Fds, InputCompleted(c) PROVE PeersTold'
    BY <2>3, InputCompletedTold
  <2>. QED  BY <1>3, <2>1, <2>2, <2>3 DEF Complete
<1>4. CASE Drive
  BY <1>4, DriveTold DEF Drive
<1>5. CASE Main
  <2>1. CASE StartShutdown(Draining, {})
    BY <1>1, <2>1, StartShutdownTold
  <2>2. CASE Submit(Draining) \/ NoCqeLeft \/ Exit(Draining)
    <3>1. UNCHANGED <<connections, conn, ssl, socket>>
      BY <2>2 DEF Submit, NoCqeLeft, Exit
    <3>. QED  BY <1>2, <3>1, ScriptsKeptBySteps
  <2>. QED  BY <1>5, <2>1, <2>2 DEF Main
<1>6. CASE Signal \/ Terminated \/ UNCHANGED vars
  <2>1. UNCHANGED <<connections, conn, ssl, socket>>
    BY <1>6 DEF Signal, SignalStop, SubmitInterrupted, Terminated, vars
  <2>. QED  BY <1>2, <2>1, ScriptsKeptBySteps
<1>7. CASE Kernel
  <2>1. UNCHANGED worker
    BY <1>7 DEF Kernel, KernelAcceptFails, CancelSteps, KernelFindsTarget, KernelEndsTarget,
         KernelCancels, KernelAccepts, KernelFails, KernelPolls, Completed,
         PeerSends, PeerLeaves, PeerReads
  <2>2. ScriptsKept
    <3>1. CASE KernelAcceptFails \/ CancelSteps
      <4>1. UNCHANGED socket
        BY <3>1 DEF KernelAcceptFails, CancelSteps, KernelFindsTarget, KernelEndsTarget,
             KernelCancels
      <4>. QED  BY <4>1, ScriptsKeptBySteps
    <3>2. ASSUME NEW c \in Fds, KernelFails(Input(c)) \/ KernelPolls(c) PROVE ScriptsKept
      <4>1. UNCHANGED socket
        BY <3>2 DEF KernelFails, KernelPolls
      <4>. QED  BY <4>1, ScriptsKeptBySteps
    <3>3. ASSUME NEW c \in Fds,
                 KernelAccepts(c) \/ PeerSends(c) \/ PeerLeaves(c) \/ PeerReads(c, ssl[c].written)
          PROVE  ScriptsKept
      BY <1>1, <3>3, ScriptsKeptBySteps
    <3>. QED  BY <1>7, <3>1, <3>2, <3>3 DEF Kernel
  <2>. QED  BY <1>2, <2>1, <2>2 DEF worker
<1>. QED  BY <1>3, <1>4, <1>5, <1>6, <1>7 DEF Next, Thread

\* What is encrypted for each peer is its handshake, then the replies that the
\* lines it sent call for, in their order and each once, then close_notify.
THEOREM DialogueAlwaysInOrder == Spec => []EncryptedInOrder
<1>1. Init => FdInv /\ PeersTold
  BY FdInvInitially DEF Init, PeersTold
<1>2. (FdInv /\ PeersTold) /\ [Next]_vars => (FdInv /\ PeersTold)'
  BY FdInvKept, PeersToldKept
<1>3. FdInv /\ PeersTold => EncryptedInOrder
  BY PeersToldInOrder DEF FdInv, CoreInv
<1>. QED  BY <1>1, <1>2, <1>3, PTL DEF Spec

-----------------------------------------------------------------------------
(* The steps of a worker, and whose turn it is.                            *)

LEMMA SocketTurn ==
    ASSUME CoreInv, TurnsOk, OrderlyPeers, NEW c \in connections, conn[c].phase # "draining"
    PROVE  /\ InTurn(Turn(c).d.k, Turn(c).d.s)
           /\ Excused(ssl[c], Turn(c), socket[c].behind)
<1>1. c \in Fds
  BY DEF CoreInv, TypeOK
<1>2. PICK bios : bios = Bios(c)
  OBVIOUS
<1>3. /\ BiosOk(bios) /\ ssl[c].fetched <= bios.available /\ bios.behind = socket[c].behind
      /\ bios.script = socket[c].script
  BY <1>1, <1>2, BiosAreOk DEF Bios
<1>4. Turn(c) = Iteration(Context(c), bios)
  BY <1>2 DEF Turn
<1>. QED  BY <1>3, <1>4, TurnInTurn

LEMMA InputKeepsTurns ==
    ASSUME FdInv, TurnsOk, NEW c \in Fds, InputCompleted(c)
    PROVE  TurnsOk'
<1> DEFINE d == InputEnded(c)
<1>1. /\ Completes("input") /\ Head(cq).op = Input(c)
      /\ Store(Release(d)) \/ Store(Release(Finish(d))) \/ Store(d)
  BY DEF InputCompleted, Completes, Concludes, Drives
<1>2. /\ CoreInv /\ c \in connections
      /\ Good(d, EndedOps', 1) /\ d.fd = c /\ d.s = ssl[c]
  BY <1>1, InputEndedGood DEF FdInv
<1>3. /\ d \in Contexts /\ d.fd = c
      /\ Finish(d) \in Contexts /\ Finish(d).fd = c /\ Finish(d).s = d.s
  BY <1>2, FinishGood DEF Good, Queues, Grows
<1>4. InTurn(d.k, d.s)
  <2>1. conn[c] \in Connection /\ Context(c) \in Contexts /\ Context(c).k = conn[c]
    BY <1>2, ContextGood DEF CoreInv, TypeOK
  <2>2. d.k = [conn[c] EXCEPT !.input_active = FALSE]
    BY <2>1 DEF InputEnded, Contexts
  <2>3. SameTalk(conn[c], d.k)
    BY <2>1, <2>2, ConnectionTalk
  <2>4. InTurn(conn[c], ssl[c])
    BY <1>2 DEF TurnsOk
  <2> HIDE DEF d
  <2>. QED  BY <1>2, <2>3, <2>4, SameTalkInTurn
<1>5. InTurn(Finish(d).k, d.s)
  <2>1. SameTalk(d.k, Finish(d).k)
    BY <1>3, FinishTalk
  <2> HIDE DEF d
  <2>. QED  BY <1>4, <2>1, SameTalkInTurn
<1> HIDE DEF d
<1>6. CASE Store(Release(d))
  BY <1>2, <1>3, <1>4, <1>6, ConcludedInTurn
<1>7. CASE Store(Release(Finish(d)))
  BY <1>2, <1>3, <1>5, <1>7, ConcludedInTurn
<1>8. CASE Store(d)
  BY <1>2, <1>3, <1>4, <1>8, StoredInTurn
<1>. QED  BY <1>1, <1>6, <1>7, <1>8

LEMMA DriveKeepsTurns ==
    ASSUME FdInv, TurnsOk, OrderlyPeers, NEW c \in Fds,
           DriveOn(c) \/ DriveWaits(c) \/ DriveFails(c) \/ DriveDrained(c)
    PROVE  TurnsOk'
<1>1. CASE DriveDrained(c)
  <2>1. Driving(c) /\ DriveUnchanged /\ Leave(Finish(Context(c))) /\ CoreInv
    BY <1>1 DEF DriveDrained, DriveUnchanged, FdInv
  <2>2. c \in connections /\ ssl[c].fetched <= socket[c].arrived
    BY <2>1, DriveFacts DEF CoreInv, SocketsOk
  <2>3. InTurn(conn[c], ssl[c])
    BY <2>2 DEF TurnsOk
  <2>. QED  BY <2>1, <2>2, <2>3, ContextGood, FinishInTurn
<1>2. CASE DriveOn(c) \/ DriveWaits(c) \/ DriveFails(c)
  <2>1. Turning(c) /\ CoreInv /\ conn[c].phase # "draining"
    BY <1>2 DEF DriveOn, DriveContinues, DriveWaits, DriveFails, Turning, FdInv
  <2>2. PICK i : i = Turn(c)
    OBVIOUS
  <2>3. PICK d : d = i.d
    OBVIOUS
  <2>4. /\ Driving(c) /\ DriveUnchanged /\ c \in connections
        /\ Good(d, EndedOps, Held(c)) /\ d.fd = c /\ d.sq = sq /\ d.kernel = kernel
        /\ d.s.fetched <= socket[c].arrived /\ ~d.k.input_active
    BY <2>1, <2>2, <2>3, TurnFacts
  <2>5. InTurn(d.k, d.s)
    BY <2>1, <2>2, <2>3, <2>4, SocketTurn
  <2>6. CASE DriveOn(c)
    <3>1. Store(d)
      BY <2>2, <2>3, <2>6 DEF DriveOn, DriveContinues, Continue
    <3>. QED  BY <2>1, <2>4, <2>5, <3>1, StoredInTurn
  <2>7. CASE DriveWaits(c)
    <3>1. PICK events \in {"in", "out"} : Leave(SubmitInput(d, events))
      <4>1. ~d.k.input_active
        BY <2>4
      <4>. QED  BY <2>2, <2>3, <2>7, <4>1 DEF DriveWaits, WaitForIo
    <3>2. PICK e : e = SubmitInput(d, events)
      OBVIOUS
    <3>3. Held(c) \in Nat
      BY DEF Held, Count
    <3>4. Good(e, EndedOps, Held(c)) /\ Grows(d, e, EndedOps, ConnectionOps(c))
      BY <2>4, <3>2, <3>3, SubmitInputGood
    <3>5. Prepares(e, ConnectionOps(c)) /\ e.fd = c /\ e.s = d.s
      BY <2>4, <3>4, GrowsPrepares
    <3>6. SameTalk(d.k, e.k)
      BY <2>4, <3>2, SubmitInputTalk DEF Good, Queues
    <3>7. InTurn(e.k, e.s)
      BY <2>5, <3>5, <3>6, SameTalkInTurn
    <3>8. Leave(e) /\ e.s.fetched <= socket[c].arrived
      BY <2>4, <3>1, <3>2, <3>5
    <3>. QED  BY <2>1, <2>4, <3>4, <3>5, <3>7, <3>8, LeaveInTurn
  <2>8. CASE DriveFails(c)
    <3>1. Leave(Finish(d))
      BY <2>2, <2>3, <2>8 DEF DriveFails
    <3>. QED  BY <2>1, <2>4, <2>5, <3>1, FinishInTurn
  <2>. QED  BY <1>2, <2>6, <2>7, <2>8
<1>. QED  BY <1>1, <1>2

\* The other steps leave the connections alone.
LEMMA StepsApart ==
    ASSUME NoCqeLeft \/ Submit(Draining) \/ Exit(Draining) \/ Signal \/ Kernel \/ Terminated
               \/ UNCHANGED vars \/ AcceptedWhileStopping \/ AcceptEnded \/ CancelAcceptCompleted
    PROVE  UNCHANGED <<connections, conn, ssl>>
<1>1. CASE Kernel
  BY <1>1 DEF Kernel, KernelAcceptFails, CancelSteps, KernelFindsTarget, KernelEndsTarget,
       KernelCancels, KernelAccepts, KernelFails, KernelPolls, Completed,
       PeerSends, PeerLeaves, PeerReads, worker
<1>2. CASE AcceptedWhileStopping \/ AcceptEnded \/ CancelAcceptCompleted
  BY <1>2 DEF AcceptedWhileStopping, AcceptEnded, CancelAcceptCompleted
<1>3. CASE NoCqeLeft \/ Submit(Draining) \/ Exit(Draining) \/ Signal \/ Terminated \/ UNCHANGED vars
  BY <1>3 DEF NoCqeLeft, Submit, Exit, Signal, SignalStop, SubmitInterrupted, Terminated, vars
<1>. QED  BY <1>1, <1>2, <1>3

LEMMA TurnsKept == OrderlyPeers /\ FdInv /\ TurnsOk /\ [Next]_vars => TurnsOk'
<1> SUFFICES ASSUME OrderlyPeers, FdInv, TurnsOk, [Next]_vars PROVE TurnsOk'
  OBVIOUS
<1>1. CoreInv
  BY DEF FdInv
<1>2. ASSUME UNCHANGED <<connections, conn, ssl>> PROVE TurnsOk'
  BY <1>2 DEF TurnsOk
<1>3. ASSUME NEW c \in Fds, CancelCompleted(c) PROVE TurnsOk'
  <2>1. c \in connections /\ Store(Release(Context(c)))
    BY <1>1, <1>3, CancelCompletedKeeps
  <2>2. /\ Context(c) \in Contexts /\ Context(c).fd = c
        /\ Context(c).k = conn[c] /\ Context(c).s = ssl[c]
    BY <1>1, <2>1, ContextGood
  <2>3. InTurn(conn[c], ssl[c])
    BY <2>1 DEF TurnsOk
  <2>. QED  BY <1>1, <2>1, <2>2, <2>3, ConcludedInTurn
<1>4. CASE Complete
  <2>1. CASE Listen
    BY <1>1, <1>2, <2>1, AcceptedInTurn, StepsApart DEF Listen
  <2>. QED  BY <1>3, <1>4, <2>1, InputKeepsTurns DEF Complete
<1>5. CASE Drive
  BY <1>5, DriveKeepsTurns DEF Drive
<1>6. CASE Main
  BY <1>1, <1>2, <1>6, ShutdownKeepsTurns, StepsApart DEF Main
<1>7. CASE Signal \/ Kernel \/ Terminated \/ UNCHANGED vars
  BY <1>2, <1>7, StepsApart
<1>. QED  BY <1>4, <1>5, <1>6, <1>7 DEF Next, Thread

\* A write that OpenSSL has not finished is repeated with the same contents, and
\* fails only when the peer has left, if peers follow the protocol.
THEOREM RetriesAlwaysRepeat == OrderlyPeers /\ Spec => []RetriesRepeat
<1>1. OrderlyPeers /\ Init => OrderlyPeers /\ FdInv /\ TurnsOk
  BY FdInvInitially DEF Init, TurnsOk
<1>2. (OrderlyPeers /\ FdInv /\ TurnsOk) /\ [Next]_vars => (OrderlyPeers /\ FdInv /\ TurnsOk)'
  <2>1. OrderlyPeers => OrderlyPeers'
    BY DEF OrderlyPeers, Orderly, FlightsRead
  <2>. QED  BY <2>1, FdInvKept, TurnsKept
<1>3. OrderlyPeers /\ FdInv /\ TurnsOk => RetriesRepeat
  <2> SUFFICES ASSUME OrderlyPeers, FdInv, TurnsOk, NEW c \in Fds,
                      Driving(c), ssl[c].writing # NULL, Turn(c).verdict = "failed"
               PROVE  socket[c].behind # "more"
    BY DEF RetriesRepeat
  <2>1. c \in connections /\ CoreInv
    BY DriveFacts DEF FdInv
  <2>2. conn[c].phase # "draining"
    BY <2>1 DEF TurnsOk, InTurn
  <2>3. Excused(ssl[c], Turn(c), socket[c].behind)
    BY <2>1, <2>2, SocketTurn
  <2>. QED  BY <2>3 DEF Excused
<1>. QED  BY <1>1, <1>2, <1>3, PTL DEF Spec

-----------------------------------------------------------------------------
(* Why a connection is finished.                                           *)

\* A poll is cancelled only for a connection that is finished already.
CancelsDue ==
    \A c \in Fds :
        /\ \A i \in DOMAIN cq : cq[i].op = Input(c) =>
              cq[i].res \in {"ok", "error"} \/ conn[c].dead
        /\ Input(c) \in doomed => conn[c].dead

PollsOwned ==
    \A c \in Fds :
        Input(c) \in doomed \/ (\E i \in DOMAIN cq : cq[i].op = Input(c)) => c \in connections

LEMMA PollsAreOwned == CoreInv => PollsOwned
<1> SUFFICES ASSUME CoreInv, NEW c \in Fds,
                    Input(c) \in doomed \/ (\E i \in DOMAIN cq : cq[i].op = Input(c))
             PROVE  c \in connections
  BY DEF PollsOwned
<1>1. /\ Input(c) \in Operations /\ Input(c) # AcceptOp /\ Input(c) \in ConnectionOps(c)
  BY OperationNames DEF ConnectionOps, WorkerOps
<1>2. Input(c) \in Pending
  <2>1. CASE Input(c) \in doomed
    BY <2>1 DEF CoreInv, QueuesOk, Pending
  <2>2. ASSUME NEW i \in DOMAIN cq, cq[i].op = Input(c) PROVE Input(c) \in Pending
    <3>1. ~cq[i].more
      BY <1>1, <2>2 DEF CoreInv, CqWellFormed
    <3>2. Input(c) \in EndedOps
      BY <1>1, <2>2, <3>1 DEF EndedOps, Ended
    <3>. QED  BY <3>2 DEF Pending
  <2>. QED  BY <2>1, <2>2
<1>. QED  BY <1>1, <1>2 DEF CoreInv, OthersOk

DeadKept == \A c \in connections \cap connections' : conn[c].dead => conn'[c].dead

\* A step of the thread takes a CQE or none.
LEMMA ThreadKeepsDue ==
    ASSUME CoreInv, CoreInv', CancelsDue, DeadKept, doomed' = doomed,
           cq' = cq \/ (cq # <<>> /\ cq' = Tail(cq))
    PROVE  CancelsDue'
<1>1. PollsOwned
  BY PollsAreOwned
<1>2. PollsOwned'
  BY PollsAreOwned, PTL
<1>3. ASSUME NEW i \in DOMAIN cq' PROVE \E j \in DOMAIN cq : cq'[i] = cq[j]
  <2>1. CASE cq' = cq
    BY <2>1
  <2>2. CASE cq # <<>> /\ cq' = Tail(cq)
    <3>1. cq \in Seq(Cqes)
      BY DEF CoreInv, TypeOK
    <3>2. i \in 1..(Len(cq) - 1) /\ cq'[i] = cq[i + 1]
      BY <2>2, <3>1
    <3>3. i + 1 \in DOMAIN cq
      BY <3>1, <3>2
    <3>. QED  BY <3>2, <3>3
  <2>. QED  BY <2>1, <2>2
<1>4. ASSUME NEW c \in Fds, NEW i \in DOMAIN cq', cq'[i].op = Input(c)
      PROVE  cq'[i].res \in {"ok", "error"} \/ conn'[c].dead
  <2>1. PICK j \in DOMAIN cq : cq'[i] = cq[j]
    BY <1>3
  <2>2. c \in connections /\ c \in connections'
    BY <1>1, <1>2, <1>4, <2>1 DEF PollsOwned
  <2>3. cq[j].res \in {"ok", "error"} \/ conn[c].dead
    BY <1>4, <2>1 DEF CancelsDue
  <2>. QED  BY <2>1, <2>2, <2>3 DEF DeadKept
<1>5. ASSUME NEW c \in Fds, Input(c) \in doomed' PROVE conn'[c].dead
  <2>1. c \in connections /\ c \in connections'
    BY <1>1, <1>2, <1>5 DEF PollsOwned
  <2>. QED  BY <1>5, <2>1 DEF CancelsDue, DeadKept
<1>. QED  BY <1>4, <1>5 DEF CancelsDue

LEMMA StoredDead ==
    ASSUME CoreInv, NEW c \in connections, NEW e, e.fd = c, Store(e), conn[c].dead => e.k.dead
    PROVE  DeadKept
<1>1. /\ \A b \in connections' : b # c => conn'[b] = conn[b]
      /\ c \in connections' => conn'[c] = e.k
  BY StoredConnections
<1>. QED  BY <1>1 DEF DeadKept

\* What drive() leaves of the connection it drives.
LEMMA DriveStores ==
    ASSUME FdInv, NEW c \in Fds, DriveOn(c) \/ DriveWaits(c) \/ DriveFails(c) \/ DriveDrained(c)
    PROVE  /\ c \in connections /\ ~conn[c].dead /\ DriveUnchanged
           /\ \E e : /\ Store(e) /\ e.fd = c
                     /\ DriveOn(c) \/ DriveWaits(c) => ~e.k.dead /\ e.k.references > 0
<1>1. CASE DriveDrained(c)
  <2>1. Driving(c) /\ DriveUnchanged /\ Leave(Finish(Context(c))) /\ CoreInv
    BY <1>1 DEF DriveDrained, DriveUnchanged, FdInv
  <2>2. c \in connections /\ ~conn[c].dead /\ ssl[c].fetched <= socket[c].arrived
    BY <2>1, DriveFacts DEF CoreInv, SocketsOk
  <2>3. ~DriveOn(c) /\ ~DriveWaits(c)
    BY <1>1 DEF DriveDrained, DriveOn, DriveContinues, DriveWaits, Turning
  <2>4. PICK d : d = Context(c)
    OBVIOUS
  <2>5. Good(d, EndedOps, Held(c)) /\ d.fd = c /\ d.sq = sq /\ d.kernel = kernel /\ d.s = ssl[c]
    BY <2>1, <2>2, <2>4, ContextGood
  <2>6. PICK e : e = Finish(d)
    OBVIOUS
  <2>7. Good(e, EndedOps, Held(c)) /\ Prepares(e, ConnectionOps(c)) /\ e.fd = c /\ e.s = d.s
    <3>1. Held(c) \in Nat
      BY DEF Held, Count
    <3>2. Good(e, EndedOps, Held(c)) /\ Grows(d, e, EndedOps, ConnectionOps(c))
      BY <2>5, <2>6, <3>1, FinishGood
    <3>. QED  BY <2>5, <3>2, GrowsPrepares
  <2>8. Leave(e) /\ e.s.fetched <= socket[c].arrived
    BY <2>1, <2>2, <2>4, <2>5, <2>6, <2>7
  <2>9. \E f : Store(f) /\ f.fd = c
    BY <2>1, <2>7, <2>8, LeaveKeeps
  <2>. QED  BY <2>1, <2>2, <2>3, <2>9
<1>2. CASE DriveOn(c) \/ DriveWaits(c) \/ DriveFails(c)
  <2>1. Turning(c) /\ CoreInv
    BY <1>2 DEF DriveOn, DriveContinues, DriveWaits, DriveFails, FdInv
  <2>2. PICK i : i = Turn(c)
    OBVIOUS
  <2>3. PICK d : d = i.d
    OBVIOUS
  <2>4. /\ Driving(c) /\ DriveUnchanged /\ c \in connections /\ ~conn[c].dead
        /\ Good(d, EndedOps, Held(c)) /\ d.fd = c /\ d.sq = sq /\ d.kernel = kernel
        /\ d.s.fetched <= socket[c].arrived /\ ~d.k.input_active
        /\ ~d.k.dead /\ d.k.references > 0
    BY <2>1, <2>2, <2>3, TurnFacts, DriveFacts
  <2>5. Held(c) \in Nat
    BY DEF Held, Count
  <2>6. CASE DriveOn(c)
    <3>1. Store(d)
      BY <2>2, <2>3, <2>6 DEF DriveOn, DriveContinues, Continue
    <3>. QED  BY <2>4, <3>1
  <2>7. CASE DriveWaits(c)
    <3>1. PICK events \in {"in", "out"} : Leave(SubmitInput(d, events))
      <4>1. ~d.k.input_active
        BY <2>4
      <4>. QED  BY <2>2, <2>3, <2>7, <4>1 DEF DriveWaits, WaitForIo
    <3>2. PICK e : e = SubmitInput(d, events)
      OBVIOUS
    <3>3. /\ Good(e, EndedOps, Held(c)) /\ Grows(d, e, EndedOps, ConnectionOps(c))
          /\ e.k.dead = d.k.dead
      BY <2>4, <2>5, <3>2, SubmitInputGood
    <3>4. Prepares(e, ConnectionOps(c)) /\ e.fd = c /\ e.s = d.s
      BY <2>4, <3>3, GrowsPrepares
    <3>5. Leave(e) /\ e.s.fetched <= socket[c].arrived /\ ~e.k.dead
      BY <2>4, <3>1, <3>2, <3>3, <3>4
    <3>6. PICK f : Store(f) /\ f.fd = c /\ f.k \in {e.k, Released(e.k)} /\ f.k.references > 0
      BY <2>1, <2>4, <3>3, <3>4, <3>5, LeaveKeeps
    <3>7. ~f.k.dead
      <4>1. e.k \in Connection
        BY <3>3 DEF Good, Accounts, InBounds
      <4>. QED  BY <3>5, <3>6, <4>1, ReleasedFields
    <3>. QED  BY <2>4, <3>6, <3>7
  <2>8. CASE DriveFails(c)
    <3>1. ~DriveOn(c) /\ ~DriveWaits(c)
      BY <2>8 DEF DriveFails, DriveOn, DriveContinues, DriveWaits, Continues, CanProceed, WaitsAfterReply
    <3>2. PICK e : e = Finish(d)
      OBVIOUS
    <3>3. Leave(e)
      BY <2>2, <2>3, <2>8, <3>2 DEF DriveFails
    <3>4. Good(e, EndedOps, Held(c)) /\ Grows(d, e, EndedOps, ConnectionOps(c))
      BY <2>4, <2>5, <3>2, FinishGood
    <3>5. Prepares(e, ConnectionOps(c)) /\ e.fd = c /\ e.s = d.s
      BY <2>4, <3>4, GrowsPrepares
    <3>6. \E f : Store(f) /\ f.fd = c
      BY <2>1, <2>4, <3>3, <3>4, <3>5, LeaveKeeps
    <3>. QED  BY <2>4, <3>1, <3>6
  <2>. QED  BY <1>2, <2>6, <2>7, <2>8
<1>. QED  BY <1>1, <1>2

\* What the completion of a poll leaves of its connection.
LEMMA InputStores ==
    ASSUME FdInv, NEW c \in Fds, InputCompleted(c)
    PROVE  /\ c \in connections /\ Head(cq).op = Input(c) /\ cq # <<>> /\ cq' = Tail(cq)
           /\ doomed' = doomed
           /\ \E e : /\ Store(e) /\ e.fd = c
                     /\ conn[c].dead => e.k.dead
                     /\ ~conn[c].dead /\ Head(cq).res = "ok" => ~e.k.dead /\ e.k.references > 0
<1> DEFINE d == InputEnded(c)
<1>1. /\ Completes("input") /\ Head(cq).op = Input(c)
      /\ cq # <<>> /\ cq' = Tail(cq) /\ doomed' = doomed
  BY DEF InputCompleted, Completes
<1>2. \/ conn[c].dead /\ Store(Release(d))
      \/ ~conn[c].dead /\ Head(cq).res # "ok" /\ Store(Release(Finish(d)))
      \/ ~conn[c].dead /\ Head(cq).res = "ok" /\ Store(d)
  BY DEF InputCompleted, Concludes, Drives
<1>3. c \in connections /\ Good(d, EndedOps', 1) /\ d.fd = c /\ d.k.dead = conn[c].dead
  BY <1>1, InputEndedGood DEF FdInv
<1>4. d \in Contexts /\ d.k \in Connection
  BY <1>3 DEF Good, Queues, Contexts
<1> HIDE DEF d
<1>5. CASE conn[c].dead /\ Store(Release(d))
  <2>1. Release(d).fd = c /\ Release(d).k = Released(d.k)
    BY <1>3, <1>4 DEF Release, Contexts, Released
  <2>2. Release(d).k.dead
    BY <1>3, <1>4, <1>5, <2>1, ReleasedFields
  <2>. QED  BY <1>1, <1>3, <1>5, <2>1, <2>2
<1>6. CASE ~conn[c].dead /\ Head(cq).res # "ok" /\ Store(Release(Finish(d)))
  <2>1. Release(Finish(d)).fd = c
    BY <1>3, <1>4, FinishGood DEF Grows, Queues, Release, Contexts
  <2>. QED  BY <1>1, <1>3, <1>6, <2>1
<1>7. CASE ~conn[c].dead /\ Head(cq).res = "ok" /\ Store(d)
  <2>1. d.k.references > 0
    BY <1>3, <1>4, <1>7 DEF Good, Accounts, Count
  <2>. QED  BY <1>1, <1>3, <1>7, <2>1
<1>. QED  BY <1>2, <1>5, <1>6, <1>7

LEMMA ThreadKeepsCancels ==
    ASSUME FdInv, FdInv', CancelsDue, Thread
    PROVE  CancelsDue'
<1>1. CoreInv /\ CoreInv'
  BY DEF FdInv
<1>2. ASSUME NEW c \in connections, NEW e, e.fd = c, Store(e), conn[c].dead => e.k.dead
      PROVE  DeadKept
  BY <1>1, <1>2, StoredDead
<1>3. ASSUME UNCHANGED conn PROVE DeadKept
  BY <1>3 DEF DeadKept
<1>4. CASE AcceptedConnection
  <2>1. cq # <<>> /\ cq' = Tail(cq) /\ doomed' = doomed
    BY <1>4 DEF AcceptedConnection, Completes
  <2>2. Head(cq).fd \in Fds \ connections /\ conn' = [conn EXCEPT ![Head(cq).fd] = NewConnection]
    BY <1>1, <1>4, AcceptedConnectionKeeps
  <2>3. DeadKept
    <3>1. conn \in [Fds -> Connection] /\ connections \subseteq Fds
      BY <1>1 DEF CoreInv, TypeOK
    <3>. QED  BY <2>2, <3>1 DEF DeadKept
  <2>. QED  BY <1>1, <2>1, <2>3, ThreadKeepsDue
<1>5. CASE AcceptedWhileStopping \/ AcceptEnded \/ CancelAcceptCompleted
  <2>1. cq # <<>> /\ cq' = Tail(cq) /\ doomed' = doomed /\ UNCHANGED conn
    BY <1>5 DEF AcceptedWhileStopping, AcceptEnded, CancelAcceptCompleted, Completes
  <2>. QED  BY <1>1, <1>3, <2>1, ThreadKeepsDue
<1>6. ASSUME NEW c \in Fds, CancelCompleted(c) PROVE CancelsDue'
  <2>1. cq # <<>> /\ cq' = Tail(cq) /\ doomed' = doomed
    BY <1>6 DEF CancelCompleted, Completes
  <2>2. c \in connections /\ Store(Release(Context(c)))
    BY <1>1, <1>6, CancelCompletedKeeps
  <2>3. /\ Context(c) \in Contexts /\ Context(c).fd = c /\ Context(c).k = conn[c]
        /\ conn[c] \in Connection
    BY <1>1, <2>2, ContextGood DEF CoreInv, TypeOK
  <2>4. PICK e : e = Release(Context(c))
    OBVIOUS
  <2>5. e.fd = c /\ e.k = Released(conn[c])
    BY <2>3, <2>4 DEF Release, Contexts, Released
  <2>6. e.k.dead = conn[c].dead
    BY <2>3, <2>5, ReleasedFields
  <2>7. DeadKept
    BY <1>2, <2>2, <2>4, <2>5, <2>6
  <2>. QED  BY <1>1, <2>1, <2>7, ThreadKeepsDue
<1>7. ASSUME NEW c \in Fds, InputCompleted(c) PROVE CancelsDue'
  <2>1. /\ c \in connections /\ cq # <<>> /\ cq' = Tail(cq) /\ doomed' = doomed
        /\ \E e : /\ Store(e) /\ e.fd = c
                  /\ conn[c].dead => e.k.dead
    BY <1>7, InputStores
  <2>2. DeadKept
    BY <1>2, <2>1
  <2>. QED  BY <1>1, <2>1, <2>2, ThreadKeepsDue
<1>8. CASE Drive
  <2>1. PICK c \in Fds : DriveOn(c) \/ DriveWaits(c) \/ DriveFails(c) \/ DriveDrained(c)
    BY <1>8 DEF Drive
  <2>2. c \in connections /\ ~conn[c].dead /\ DriveUnchanged /\ \E e : Store(e) /\ e.fd = c
    BY <2>1, DriveStores
  <2>3. DeadKept
    BY <1>2, <2>2
  <2>. QED  BY <1>1, <2>2, <2>3, ThreadKeepsDue DEF DriveUnchanged
<1>9. CASE StartShutdown(Draining, {})
  <2>1. \A c \in connections' : conn'[c].dead
    BY <1>1, <1>9, StartShutdownKeeps
  <2>2. cq' = cq /\ doomed' = doomed
    BY <1>9 DEF StartShutdown
  <2>. QED  BY <1>1, <2>1, <2>2, ThreadKeepsDue DEF DeadKept
<1>10. CASE Submit(Draining) \/ NoCqeLeft \/ Exit(Draining)
  <2>1. cq' = cq /\ doomed' = doomed /\ UNCHANGED conn
    BY <1>10 DEF Submit, NoCqeLeft, Exit
  <2>. QED  BY <1>1, <1>3, <2>1, ThreadKeepsDue
<1>. QED  BY <1>4, <1>5, <1>6, <1>7, <1>8, <1>9, <1>10 DEF Thread, Complete, Listen, Main

\* A step of the kernel may post a CQE, and may doom an operation.
LEMMA KernelKeepsDue ==
    ASSUME CoreInv, CancelsDue, UNCHANGED conn,
           doomed' \subseteq doomed, NEW cqe, cq' = Append(cq, cqe),
           \A c \in Fds : cqe.op = Input(c) => cqe.res \in {"ok", "error"} \/ conn[c].dead
    PROVE  CancelsDue'
<1>1. cq \in Seq(Cqes)
  BY DEF CoreInv, TypeOK
<1>2. ASSUME NEW i \in DOMAIN cq' PROVE (i \in DOMAIN cq /\ cq'[i] = cq[i]) \/ cq'[i] = cqe
  BY <1>1
<1>3. ASSUME NEW c \in Fds, NEW i \in DOMAIN cq', cq'[i].op = Input(c)
      PROVE  cq'[i].res \in {"ok", "error"} \/ conn'[c].dead
  BY <1>2, <1>3 DEF CancelsDue
<1>. QED  BY <1>3 DEF CancelsDue

LEMMA CancelFinds ==
    ASSUME CoreInv, NEW op \in kernel \cap Cancels, NEW c \in Fds, Target[op] = Input(c)
    PROVE  conn[c].dead
<1>1. op = CancelInput(c)
  <2>1. op \in Operations
    BY DEF CoreInv, TypeOK
  <2>2. \/ \E b \in Fds : op = CancelInput(b) \/ op = CancelOutput(b)
        \/ op = CancelAccept \/ op = CancelEpoll
    BY DEF Cancels, Target
  <2>3. Input(c)[1] = "input" /\ Input(c)[2] = c
    BY DEF Input
  <2>4. ASSUME NEW b \in Fds, op = CancelInput(b) PROVE op = CancelInput(c)
    <3>1. Target[op] = Input(b)
      BY <2>4, OperationKinds DEF Target, Cancels, CancelInput
    <3>. QED  BY <2>3, <2>4, <3>1 DEF Input
  <2>5. ASSUME NEW b \in Fds, op = CancelOutput(b) PROVE FALSE
    <3>1. Target[op] = Output(b)
      BY <2>5, OperationKinds DEF Target, Cancels, CancelOutput
    <3>. QED  BY <2>3, <3>1 DEF Output
  <2>6. op # CancelAccept
    <3>1. Target[CancelAccept] = AcceptOp
      BY OperationKinds DEF Target, Cancels, CancelAccept
    <3>. QED  BY <2>3, <3>1 DEF AcceptOp
  <2>7. op # CancelEpoll
    <3>1. Target[CancelEpoll] = EpollOp
      BY OperationKinds DEF Target, Cancels, CancelEpoll
    <3>. QED  BY <2>3, <3>1 DEF EpollOp
  <2>. QED  BY <2>2, <2>4, <2>5, <2>6, <2>7
<1>2. CancelInput(c) \in Pending /\ CancelInput(c) \in ConnectionOps(c)
  BY <1>1 DEF Pending, ConnectionOps
<1>3. c \in connections
  BY <1>2 DEF CoreInv, OthersOk
<1>. QED  BY <1>2, <1>3 DEF CoreInv, ConnectionsOk, Accounts

LEMMA KernelKeepsCancels ==
    ASSUME FdInv, CancelsDue, Kernel
    PROVE  CancelsDue'
<1>1. CoreInv
  BY DEF FdInv
<1>2. \A c \in Fds : Input(c)[1] = "input" /\ Input(c) # AcceptOp
  BY OperationKinds DEF Input, AcceptOp
<1>3. ASSUME NEW op, NEW res, Completed(Cqe(op, res, FALSE)),
             \A c \in Fds : op = Input(c) => res \in {"ok", "error"} \/ conn[c].dead
      PROVE  CancelsDue'
  <2>1. UNCHANGED conn /\ cq' = Append(cq, Cqe(op, res, FALSE)) /\ doomed' \subseteq doomed
    BY <1>3 DEF Completed, worker, Post, EndUnlessMore, Terminate, Cqe
  <2>2. Cqe(op, res, FALSE).op = op /\ Cqe(op, res, FALSE).res = res
    BY DEF Cqe
  <2>. QED  BY <1>1, <1>3, <2>1, <2>2, KernelKeepsDue
<1>4. CASE KernelAcceptFails
  BY <1>2, <1>3, <1>4 DEF KernelAcceptFails
<1>5. ASSUME NEW op \in Operations,
             KernelFindsTarget(op) \/ KernelEndsTarget(op) \/ KernelCancels(op)
      PROVE  CancelsDue'
  <2>1. CASE KernelFindsTarget(op)
    <3>1. /\ op \in kernel \cap Cancels /\ doomed' = doomed \cup {Target[op]}
          /\ cq' = cq /\ conn' = conn
      BY <2>1 DEF KernelFindsTarget, worker
    <3>2. \A c \in Fds : Target[op] = Input(c) => conn[c].dead
      BY <1>1, <3>1, CancelFinds
    <3>. QED  BY <3>1, <3>2 DEF CancelsDue
  <2>2. CASE KernelEndsTarget(op)
    <3>1. op \in doomed /\ Completed(Cqe(op, "canceled", FALSE))
      BY <2>2 DEF KernelEndsTarget
    <3>2. \A c \in Fds : op = Input(c) => conn[c].dead
      BY <3>1 DEF CancelsDue
    <3>. QED  BY <1>3, <3>1, <3>2
  <2>3. CASE KernelCancels(op)
    BY <1>3, <2>3 DEF KernelCancels
  <2>. QED  BY <1>5, <2>1, <2>2, <2>3
<1>6. ASSUME NEW b \in Fds, KernelAccepts(b)
      PROVE  CancelsDue'
  <2>1. PICK more : /\ Post([Cqe(AcceptOp, "ok", more) EXCEPT !.fd = b])
                    /\ EndUnlessMore(AcceptOp, more)
    BY <1>6 DEF KernelAccepts
  <2>2. PICK cqe : cqe = [Cqe(AcceptOp, "ok", more) EXCEPT !.fd = b]
    OBVIOUS
  <2>3. cqe.op = AcceptOp
    BY <2>2 DEF Cqe
  <2>4. UNCHANGED conn /\ cq' = Append(cq, cqe) /\ doomed' \subseteq doomed
    BY <1>6, <2>1, <2>2 DEF KernelAccepts, worker, Post, EndUnlessMore, Terminate
  <2>. QED  BY <1>1, <1>2, <2>3, <2>4, KernelKeepsDue
<1>7. ASSUME NEW c \in Fds, KernelFails(Input(c)) \/ KernelPolls(c) PROVE CancelsDue'
  BY <1>3, <1>7 DEF KernelFails, KernelPolls
<1>8. ASSUME NEW c \in Fds, PeerSends(c) \/ PeerLeaves(c) \/ PeerReads(c, ssl[c].written)
      PROVE  CancelsDue'
  <2>1. UNCHANGED <<conn, cq, doomed>>
    BY <1>8 DEF PeerSends, PeerLeaves, PeerReads, worker
  <2>. QED  BY <2>1 DEF CancelsDue
<1>. QED  BY <1>4, <1>5, <1>6, <1>7, <1>8 DEF Kernel, CancelSteps

LEMMA CancelsKept == FdInv /\ CancelsDue /\ [Next]_vars => CancelsDue'
<1> SUFFICES ASSUME FdInv, CancelsDue, [Next]_vars PROVE CancelsDue'
  OBVIOUS
<1>1. CASE Thread
  BY <1>1, FdInvKept, ThreadKeepsCancels
<1>2. CASE Kernel
  BY <1>2, KernelKeepsCancels
<1>3. CASE Signal \/ Terminated \/ UNCHANGED vars
  <2>1. UNCHANGED <<conn, cq, doomed>>
    BY <1>3 DEF Signal, SignalStop, SubmitInterrupted, Terminated, vars
  <2>. QED  BY <2>1 DEF CancelsDue
<1>. QED  BY <1>1, <1>2, <1>3 DEF Next

\* The reasons for which a connection is finished.
Reason(c) ==
    \/ stopping
    \/ cq # <<>> /\ Head(cq).op \in {Input(c), Output(c)} /\ Head(cq).res = "error"
    \/ Driving(c) /\ (socket[c].behind # "more" \/ ~Handshaken(ssl[c]))
    \/ Driving(c) /\ conn[c].phase = "draining" /\ Last(ssl[c].out) = "close_notify"
           /\ Unwritten(ssl[c]) = 0

LEMMA InputEndsForReason ==
    ASSUME FdInv, CancelsDue, NEW b \in Fds, InputCompleted(b), NEW c \in Fds,
           Alive(c), ~Alive(c)'
    PROVE  Reason(c)
<1>1. CoreInv
  BY DEF FdInv
<1>2. /\ b \in connections /\ Head(cq).op = Input(b) /\ cq # <<>>
      /\ \E e : /\ Store(e) /\ e.fd = b
                /\ ~conn[b].dead /\ Head(cq).res = "ok" => ~e.k.dead /\ e.k.references > 0
  BY InputStores
<1>3. c = b /\ Head(cq).res # "ok"
  BY <1>1, <1>2, StoredAlive DEF Alive
<1>4. Head(cq).res \in {"ok", "error"} \/ conn[b].dead
  <2>1. 1 \in DOMAIN cq /\ Head(cq) = cq[1]
    BY <1>1, <1>2, OldestCqe DEF CoreInv, TypeOK
  <2>. QED  BY <1>2, <2>1 DEF CancelsDue
<1>. QED  BY <1>2, <1>3, <1>4 DEF Reason, Alive

LEMMA DriveEndsForReason ==
    ASSUME FdInv, TurnsOk, OrderlyPeers, Drive, NEW c \in Fds, Alive(c), ~Alive(c)'
    PROVE  Reason(c)
<1>1. CoreInv
  BY DEF FdInv
<1>2. PICK b \in Fds : DriveOn(b) \/ DriveWaits(b) \/ DriveFails(b) \/ DriveDrained(b)
  BY DEF Drive
<1>3. /\ b \in connections
      /\ \E e : /\ Store(e) /\ e.fd = b
                /\ DriveOn(b) \/ DriveWaits(b) => ~e.k.dead /\ e.k.references > 0
  BY <1>2, DriveStores
<1>4. c = b /\ ~DriveOn(b) /\ ~DriveWaits(b)
  BY <1>1, <1>3, StoredAlive
<1>5. CASE DriveFails(b)
  <2>1. /\ Driving(c) /\ conn[c].phase # "draining" /\ Turn(c).verdict = "failed"
        /\ c \in connections
    BY <1>3, <1>4, <1>5 DEF DriveFails, Turning
  <2>2. Excused(ssl[c], Turn(c), socket[c].behind)
    BY <1>1, <2>1, SocketTurn
  <2>. QED  BY <2>1, <2>2 DEF Excused, Reason
<1>6. CASE DriveDrained(b)
  <2>1. Driving(c) /\ conn[c].phase = "draining" /\ c \in connections
    BY <1>3, <1>4, <1>6 DEF DriveDrained
  <2>2. Closed(ssl[c]) /\ Unwritten(ssl[c]) = 0
    BY <2>1 DEF TurnsOk, InTurn
  <2>. QED  BY <2>1, <2>2 DEF Closed, Last, Reason
<1>. QED  BY <1>2, <1>4, <1>5, <1>6

LEMMA FinishedWithReason ==
    ASSUME FdInv, TurnsOk, CancelsDue, OrderlyPeers, [Next]_vars, NEW c \in Fds,
           Alive(c), ~Alive(c)'
    PROVE  Reason(c)
<1>1. CoreInv
  BY DEF FdInv
<1>2. ASSUME UNCHANGED <<connections, conn, ssl>> PROVE FALSE
  BY <1>2 DEF Alive
<1>3. ~AcceptedConnection
  <2>1. SUFFICES ASSUME AcceptedConnection PROVE Alive(c)'
    OBVIOUS
  <2>2. /\ Head(cq).fd \notin connections /\ connections' = connections \cup {Head(cq).fd}
        /\ conn' = [conn EXCEPT ![Head(cq).fd] = NewConnection]
    BY <1>1, <2>1, AcceptedConnectionKeeps DEF AcceptedConnection
  <2>. QED  BY <2>2 DEF Alive
<1>4. ASSUME NEW b \in Fds, CancelCompleted(b) PROVE FALSE
  <2>1. b \in connections /\ conn[b].dead /\ Store(Release(Context(b)))
    BY <1>1, <1>4, CancelCompletedKeeps
  <2>2. PICK e : e = Release(Context(b))
    OBVIOUS
  <2>3. e.fd = b
    BY <2>2 DEF Release, Context
  <2>. QED  BY <1>1, <2>1, <2>2, <2>3, StoredAlive DEF Alive
<1>5. CASE Complete
  <2>1. ~Listen
    BY <1>2, <1>3, StepsApart DEF Listen
  <2>. QED  BY <1>4, <1>5, <2>1, InputEndsForReason DEF Complete
<1>6. CASE Drive
  BY <1>6, DriveEndsForReason
<1>7. CASE StartShutdown(Draining, {})
  BY <1>7 DEF StartShutdown, Reason
<1>. QED  BY <1>2, <1>5, <1>6, <1>7, StepsApart DEF Next, Thread, Main

\* A connection is finished for a reason only: its peer left, its handshake or
\* an operation failed, a stop, or the end of the dialogue, close_notify last
\* and written; if peers follow the protocol.
THEOREM FinishesForReason == OrderlyPeers /\ Spec => FinishedForReason
<1> DEFINE Inv == OrderlyPeers /\ FdInv /\ TurnsOk /\ CancelsDue
           Justified == \A c \in Fds : Alive(c) /\ ~Alive(c)' => Reason(c)
<1>1. OrderlyPeers /\ Init => Inv
  <2>1. Init => TurnsOk
    BY DEF Init, TurnsOk
  <2>2. Init => CancelsDue
    BY DEF Init, CancelsDue
  <2>. QED  BY <2>1, <2>2, FdInvInitially
<1>2. Inv /\ [Next]_vars => Inv'
  <2>1. OrderlyPeers => OrderlyPeers'
    BY DEF OrderlyPeers, Orderly, FlightsRead
  <2>. QED  BY <2>1, FdInvKept, TurnsKept, CancelsKept
<1>3. Inv /\ [Next]_vars => [Justified]_vars
  BY FinishedWithReason
<1>4. FinishedForReason <=> [][Justified]_vars
  BY DEF FinishedForReason, Reason
<1> HIDE DEF Inv, Justified
<1>. QED  BY <1>1, <1>2, <1>3, <1>4, PTL DEF Spec
=============================================================================
