------------------------------- MODULE TlsFd --------------------------------
(***************************************************************************)
(* The workers that give OpenSSL the socket (SSL_set_fd) and wait for it   *)
(* with one-shot polls: tls-fd, tls-fd-ring, tls-fd-ahead, tls-fd-read and *)
(* tls-fd-ready.  They differ in OpenSSL's read-ahead, in how main submits *)
(* and waits, and tls-fd-ready in a shortcut after a reply.                *)
(***************************************************************************)
EXTENDS TlsSocket

CONSTANTS
    ReadinessDirected, \* the shortcut of tls-fd-ready
    SubmitAndWait      \* main submits and waits in one call (ring, ahead)

ASSUME VariantAssumption == ReadinessDirected \in BOOLEAN /\ SubmitAndWait \in BOOLEAN

\* Mutant of WaitForIo: a blocked write waits for input.
WaitForInput(d, verdict) == IF d.k.input_active THEN d ELSE SubmitInput(d, "in")

\* wait_for_io
WaitForIo(d, verdict) ==
    IF d.k.input_active THEN d
    ELSE SubmitInput(d, IF verdict = "want_write" THEN "out" ELSE "in")

\* Mutant of WaitsAfterReply: the bytes OpenSSL has taken are not considered.
WaitsUnlessPipelined(i) ==
    /\ ReadinessDirected
    /\ i.verdict = "ok" /\ i.performed = "writing"
    /\ i.d.k.phase = "reading" /\ i.d.k.input = <<>> /\ ~i.d.k.read_eof

\* tls-fd-ready: after a reply, with nothing buffered, wait instead of reading.
WaitsAfterReply(i) ==
    /\ ReadinessDirected
    /\ i.verdict = "ok" /\ i.performed = "writing"
    /\ i.d.k.phase = "reading" /\ i.d.k.input = <<>> /\ ~i.d.k.read_eof
    /\ ~HasPending(i.d.s)

-----------------------------------------------------------------------------
(* drive(): the iterations of its loop.                                    *)

DriveOn(c) == DriveContinues(c) /\ ~WaitsAfterReply(Turn(c))

DriveWaits(c) ==
    /\ Turning(c)
    /\ \/ /\ ~CanProceed(c)
          /\ Leave(WaitForIo(Turn(c).d, Turn(c).verdict))
       \/ /\ WaitsAfterReply(Turn(c))
          /\ Leave(WaitForIo(Turn(c).d, "want_read"))

-----------------------------------------------------------------------------
(* The poll of a connection, in complete() and in the kernel.              *)

InputEnded(c) == [Context(c) EXCEPT !.k.input_active = FALSE]

InputCompleted(c) ==
    /\ Completes("input")
    /\ Head(cq).op = Input(c)
    /\ \/ conn[c].dead /\ Concludes(Release(InputEnded(c)))
       \/ ~conn[c].dead /\ Head(cq).res # "ok" /\ Concludes(Release(Finish(InputEnded(c))))
       \/ ~conn[c].dead /\ Head(cq).res = "ok" /\ Drives(InputEnded(c), "release")

PollReady(c) == IF conn[c].poll_events = "in" THEN Readable(c) ELSE Writable(c)

KernelPolls(c) ==
    /\ Input(c) \in kernel /\ PollReady(c)
    /\ Completed(Cqe(Input(c), "ok", FALSE))
    /\ UNCHANGED socket

-----------------------------------------------------------------------------
Complete ==
    \/ Listen
    \/ \E c \in Fds : CancelCompleted(c) \/ InputCompleted(c)

Drive == \E c \in Fds : DriveOn(c) \/ DriveWaits(c) \/ DriveFails(c) \/ DriveDrained(c)

Main == StartShutdown(Draining, {}) \/ Submit(Draining) \/ NoCqeLeft \/ Exit(Draining)

Thread == Complete \/ Drive \/ Main

Signal == SignalStop \/ (~SubmitAndWait /\ SubmitInterrupted(Draining))

Kernel ==
    \/ KernelAcceptFails \/ CancelSteps
    \/ \E c \in Fds : KernelAccepts(c) \/ KernelFails(Input(c)) \/ KernelPolls(c)
    \/ \E c \in Fds : PeerSends(c) \/ PeerLeaves(c) \/ PeerReads(c, ssl[c].written)

\* The worker's end is not a deadlock.
Terminated == pc = "exited" /\ UNCHANGED vars

Next == Thread \/ Signal \/ Kernel \/ Terminated

Spec == Init /\ [][Next]_vars

(***************************************************************************)
(* The thread runs and its waits time out; the kernel executes cancels and *)
(* reports readiness.  Nothing makes a peer connect, send, read or leave.  *)
(***************************************************************************)
Fairness ==
    /\ ThreadRuns
    /\ \A op \in Cancels : WF_vars(KernelFindsTarget(op)) /\ WF_vars(KernelCancels(op))
                           /\ WF_vars(KernelEndsTarget(Target[op]))
    /\ \A c \in Fds : WF_vars(KernelPolls(c))

FairSpec == Spec /\ Fairness

-----------------------------------------------------------------------------
(* Properties.                                                             *)

\* No wakeup is lost: a connection that nobody drives has a poll in flight or
\* its CQE queued, and when OpenSSL could go on, with what is in its buffers,
\* in the socket or with room in it, the poll is one that fires.
NoLostWakeup ==
    \A c \in Fds : Alive(c) /\ ~Driving(c) =>
        /\ Outstanding(Input(c))
        /\ Ended(Input(c)) \/ (CanProceed(c) => PollReady(c))

\* When peers read what they are sent, the requests that have arrived are
\* answered, or the connection or the worker ends.
PeersRead == \A c \in Fds : WF_vars(PeerReads(c, ssl[c].written))
ReadersAnswered == PeersRead => RequestsAnswered
=============================================================================
