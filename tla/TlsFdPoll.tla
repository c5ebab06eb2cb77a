----------------------------- MODULE TlsFdPoll ------------------------------
(***************************************************************************)
(* tls-fd-poll/server.c: one multishot poll for input lasts as long as the *)
(* connection; while OpenSSL waits to write, a one-shot poll for output is *)
(* added and events of the first one are ignored.                          *)
(***************************************************************************)
EXTENDS TlsSocket

VARIABLE woken  \* sockets with an input event the multishot poll has not reported

pollVars == <<vars, woken>>

\* Mutant of WaitForIo: one poll in flight is taken to be enough.
WaitForIoOnce(d, verdict) ==
    LET e == [d EXCEPT !.k.waiting_write = verdict = "want_write"]
    IN IF d.k.input_active \/ d.k.output_active THEN e
       ELSE IF verdict = "want_write" THEN SubmitOutput(e) ELSE SubmitInput(e, "in")

\* wait_for_io
WaitForIo(d, verdict) ==
    LET e == [d EXCEPT !.k.waiting_write = verdict = "want_write"]
    IN IF verdict = "want_write"
       THEN IF d.k.output_active THEN e ELSE SubmitOutput(e)
       ELSE IF d.k.input_active THEN e ELSE SubmitInput(e, "in")

DriveWaits(c) ==
    /\ Turning(c) /\ ~CanProceed(c)
    /\ Leave(WaitForIo(Turn(c).d, Turn(c).verdict))

-----------------------------------------------------------------------------
(* complete(), for both polls.                                             *)

InputEnded(c) == [Context(c) EXCEPT !.k.input_active = @ /\ Head(cq).more]

\* Only the last CQE of the multishot poll releases its reference.
ReleaseLast(d) == IF Head(cq).more THEN d ELSE Release(d)

\* Mutant of InputCompleted: every CQE of the multishot poll releases it.
InputCompletedReleasing(c) ==
    /\ Completes("input")
    /\ Head(cq).op = Input(c)
    /\ LET k == conn[c]
       IN \/ k.dead /\ Concludes(Release(InputEnded(c)))
          \/ ~k.dead /\ Head(cq).res # "ok" /\ Concludes(Release(Finish(InputEnded(c))))
          \/ ~k.dead /\ Head(cq).res = "ok" /\ k.waiting_write /\ Concludes(Release(InputEnded(c)))
          \/ ~k.dead /\ Head(cq).res = "ok" /\ ~k.waiting_write /\ Drives(InputEnded(c), "release")

InputCompleted(c) ==
    /\ Completes("input")
    /\ Head(cq).op = Input(c)
    /\ LET k == conn[c]
       IN \/ k.dead /\ Concludes(ReleaseLast(InputEnded(c)))
          \/ ~k.dead /\ Head(cq).res # "ok" /\ Concludes(ReleaseLast(Finish(InputEnded(c))))
          \/ ~k.dead /\ Head(cq).res = "ok" /\ k.waiting_write /\ Concludes(ReleaseLast(InputEnded(c)))
          \/ ~k.dead /\ Head(cq).res = "ok" /\ ~k.waiting_write
                /\ Drives(InputEnded(c), IF Head(cq).more THEN "keep" ELSE "release")

OutputEnded(c) == [Context(c) EXCEPT !.k.output_active = FALSE]

OutputCompleted(c) ==
    /\ Completes("output")
    /\ Head(cq).op = Output(c)
    /\ \/ conn[c].dead /\ Concludes(Release(OutputEnded(c)))
       \/ ~conn[c].dead /\ Head(cq).res # "ok" /\ Concludes(Release(Finish(OutputEnded(c))))
       \/ ~conn[c].dead /\ Head(cq).res = "ok"
             /\ Drives([OutputEnded(c) EXCEPT !.k.waiting_write = FALSE], "release")

-----------------------------------------------------------------------------
(***************************************************************************)
(* The polls: external.  A multishot poll reports the events that occur    *)
(* while it is armed, several at a time perhaps, and what it finds when it *)
(* is armed.                                                               *)
(***************************************************************************)
KernelPollsInput(c) ==
    /\ Input(c) \in kernel /\ c \in woken
    /\ \E more \in MayContinue : Completed(Cqe(Input(c), "ok", more))
    /\ woken' = woken \ {c}
    /\ UNCHANGED socket

KernelPollsOutput(c) ==
    /\ Output(c) \in kernel /\ Writable(c)
    /\ Completed(Cqe(Output(c), "ok", FALSE))
    /\ UNCHANGED <<socket, woken>>

\* What the worker's own steps wake: a poll it submits for a socket that is
\* readable, a poll of a socket that finish() shuts.
WorkerWakes ==
    woken' = {c \in Fds :
                \/ c \in woken /\ c \in connections'
                \/ Readable(c)' /\ conn[c]'.input_active /\ ~conn[c].input_active
                \/ conn[c]'.dead /\ ~conn[c].dead}

Wakes(c) == woken' = woken \cup {c}

-----------------------------------------------------------------------------
Complete == Listen \/ \E c \in Fds : CancelCompleted(c) \/ InputCompleted(c) \/ OutputCompleted(c)

Drive == \E c \in Fds : DriveContinues(c) \/ DriveWaits(c) \/ DriveFails(c) \/ DriveDrained(c)

Main == StartShutdown(Draining, {}) \/ Submit(Draining) \/ NoCqeLeft \/ Exit(Draining)

Thread == (Complete \/ Drive \/ Main) /\ WorkerWakes

Kernel ==
    \/ (KernelAcceptFails \/ CancelSteps) /\ UNCHANGED woken
    \/ \E c \in Fds : \/ KernelAccepts(c) /\ woken' = woken \ {c}
                      \/ (KernelFails(Input(c)) \/ KernelFails(Output(c))) /\ UNCHANGED woken
                      \/ KernelPollsInput(c) \/ KernelPollsOutput(c)
                      \/ PeerSends(c) /\ Wakes(c)
                      \/ PeerLeaves(c) /\ Wakes(c)
                      \/ PeerReads(c, ssl[c].written) /\ UNCHANGED woken

\* The worker's end is not a deadlock.
Terminated == pc = "exited" /\ UNCHANGED pollVars

Next == Thread \/ (SignalStop /\ UNCHANGED woken) \/ Kernel \/ Terminated

Spec == Init /\ woken = {} /\ [][Next]_pollVars

(***************************************************************************)
(* The thread runs and its waits time out; the kernel executes cancels and *)
(* reports readiness; peers read what they are sent.                       *)
(***************************************************************************)
Fairness ==
    /\ ThreadRuns
    /\ \A op \in Cancels : WF_pollVars(KernelFindsTarget(op) /\ UNCHANGED woken)
                           /\ WF_pollVars(KernelCancels(op) /\ UNCHANGED woken)
                           /\ WF_pollVars(KernelEndsTarget(Target[op]) /\ UNCHANGED woken)
    /\ \A c \in Fds : WF_pollVars(KernelPollsInput(c)) /\ WF_pollVars(KernelPollsOutput(c))
                      /\ WF_pollVars(PeerReads(c, ssl[c].written) /\ UNCHANGED woken)

FairSpec == Spec /\ Fairness

-----------------------------------------------------------------------------
(* Properties.                                                             *)

Queued(op) == \E i \in DOMAIN cq : cq[i].op = op

\* No wakeup is lost: a connection that nobody drives waits for output with a
\* poll that fires when OpenSSL can go on; or it waits for input, and OpenSSL
\* can go on only if the multishot poll has an event to report or has reported
\* it already.  Input events ignored while it waited for output count for nothing.
NoLostWakeup ==
    \A c \in Fds : Alive(c) /\ ~Driving(c) =>
        IF conn[c].waiting_write
        THEN /\ Outstanding(Output(c))
             /\ Queued(Output(c)) \/ (CanProceed(c) => Writable(c))
        ELSE /\ Outstanding(Input(c))
             /\ Queued(Input(c)) \/ (CanProceed(c) => c \in woken)
=============================================================================
