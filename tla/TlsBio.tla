------------------------------- MODULE TlsBio -------------------------------
(***************************************************************************)
(* tls-bio/server.c: OpenSSL works on memory BIOs, and the worker moves    *)
(* ciphertext between them and the socket with one-shot receives and       *)
(* sends, one of each at a time.                                           *)
(***************************************************************************)
EXTENDS TlsWorker

CONSTANT WireCapacity  \* WIRE_CAPACITY, in pieces for input and units for output

ASSUME WireAssumption == WireCapacity \in Nat \ {0}

VARIABLE wire          \* the units the kernel has taken for each peer

bioVars == <<vars, wire>>

\* The memory BIOs: read_bio has what was fed, write_bio takes everything.
Bios(d) == [script |-> socket[d.fd].script, available |-> d.k.fed,
            behind |-> IF d.s.eof THEN "eof" ELSE "more",
            limit |-> d.s.written + RecordUnits * (Len(HandshakeSteps) + 1)]

\* BIO_ctrl_pending(write_bio)
Queued(d) == d.s.written - d.k.staged

\* flush_output: stage what OpenSSL produced, unless a send is in flight.
FlushOutput(d) ==
    IF d.k.output_active \/ Queued(d) = 0 THEN d
    ELSE LET count == Min({Queued(d), WireCapacity})
         IN [SubmitOutput(d) EXCEPT !.k.staged = @ + count,
                                    !.k.wire_length = count, !.k.wire_offset = 0]

\* wait_for_io: the receive ends in wire_input.
WaitForIo(d) == IF d.k.input_active THEN d ELSE SubmitInput(d, "in")

-----------------------------------------------------------------------------
(* drive(): the iterations of its loop.                                    *)

\* Mutant of Blocked: queued ciphertext is not bounded.
BlockedNever(d) == FALSE

\* Too much ciphertext is queued behind a send.
Blocked(d) == Queued(d) > WireCapacity

Drained(d) == ~d.k.output_active /\ Queued(d) = 0

Unchanging == UNCHANGED <<stopping, shutdown_started, accept_cancel_active, doomed, cq,
                          arrivals, socket, wire>>

\* Too much is queued: the completion of the send goes on.
DriveBlocked(c) ==
    /\ Driving(c)
    /\ LET d == FlushOutput(Context(c)) IN Blocked(d) /\ Leave(d)
    /\ Unchanging

\* close_notify was produced: finish when all is sent.
DriveDraining(c) ==
    /\ Driving(c) /\ conn[c].phase = "draining"
    /\ LET d == FlushOutput(Context(c))
       IN ~Blocked(d) /\ Leave(IF Drained(d) THEN Finish(d) ELSE d)
    /\ Unchanging

\* The call of OpenSSL in this iteration; handshakes, reads and shutdowns also
\* produce ciphertext to flush.
Turn(d) == Iteration(d, Bios(d))

DriveContinues(c) ==
    /\ Driving(c) /\ conn[c].phase # "draining"
    /\ LET d == FlushOutput(Context(c))
           i == Turn(d)
       IN ~Blocked(d) /\ Continues(i) /\ Continue(FlushOutput(i.d))
    /\ Unchanging

DriveWaits(c) ==
    /\ Driving(c) /\ conn[c].phase # "draining"
    /\ LET d == FlushOutput(Context(c))
           i == Turn(d)
       IN /\ ~Blocked(d) /\ i.verdict = "want_read"
          /\ Leave(WaitForIo(FlushOutput(i.d)))
    /\ Unchanging

DriveFails(c) ==
    /\ Driving(c) /\ conn[c].phase # "draining"
    /\ LET d == FlushOutput(Context(c))
           i == Turn(d)
       IN ~Blocked(d) /\ i.verdict = "failed" /\ Leave(Finish(i.d))
    /\ Unchanging

-----------------------------------------------------------------------------
(* complete(), for receives and sends.                                     *)

InputEnded(c) == [Context(c) EXCEPT !.k.input_active = FALSE]

\* BIO_write, or at the end of the stream BIO_set_mem_eof_return.
Fed(d, cqe) == IF cqe.res = "eof" THEN [d EXCEPT !.s.eof = TRUE]
                                  ELSE [d EXCEPT !.k.fed = @ + cqe.count]

InputCompleted(c) ==
    /\ Completes("input")
    /\ Head(cq).op = Input(c)
    /\ LET d == InputEnded(c)
       IN \/ conn[c].dead /\ Concludes(Release(d))
          \/ ~conn[c].dead /\ Head(cq).res \in {"error", "canceled"}
                /\ Concludes(Release(Finish(d)))
          \/ ~conn[c].dead /\ Head(cq).res \in {"ok", "eof"}
                /\ Drives(Fed(d, Head(cq)), "release")
    /\ UNCHANGED wire

\* Mutant of Sent: a partial send is repeated from the start.
SentAgain(d, count) == [d EXCEPT !.k.output_active = FALSE,
                                 !.k.wire_offset = IF @ + count < d.k.wire_length THEN @ ELSE @ + count]

Sent(d, count) == [d EXCEPT !.k.output_active = FALSE, !.k.wire_offset = @ + count]

Emptied(d) == [d EXCEPT !.k.wire_offset = 0, !.k.wire_length = 0]

\* Mutant of OutputCompleted: the connection is not driven when its output is out.
OutputCompletedUndriven(c) ==
    /\ Completes("output")
    /\ Head(cq).op = Output(c)
    /\ LET d == Sent(Context(c), Head(cq).count)
       IN \/ conn[c].dead /\ Concludes(Release(d))
          \/ ~conn[c].dead /\ Head(cq).res # "ok" /\ Concludes(Release(Finish(d)))
          \/ ~conn[c].dead /\ Head(cq).res = "ok" /\ d.k.wire_offset < d.k.wire_length
                /\ Concludes(Release(SubmitOutput(d)))
          \/ ~conn[c].dead /\ Head(cq).res = "ok" /\ d.k.wire_offset = d.k.wire_length
                /\ Concludes(Release(Emptied(d)))
    /\ UNCHANGED wire

OutputCompleted(c) ==
    /\ Completes("output")
    /\ Head(cq).op = Output(c)
    /\ LET d == Sent(Context(c), Head(cq).count)
       IN \/ conn[c].dead /\ Concludes(Release(d))
          \/ ~conn[c].dead /\ Head(cq).res # "ok" /\ Concludes(Release(Finish(d)))
          \/ ~conn[c].dead /\ Head(cq).res = "ok" /\ d.k.wire_offset < d.k.wire_length
                /\ Concludes(Release(SubmitOutput(d)))
          \/ ~conn[c].dead /\ Head(cq).res = "ok" /\ d.k.wire_offset = d.k.wire_length
                /\ Drives(Emptied(d), "release")
    /\ UNCHANGED wire

-----------------------------------------------------------------------------
(* The kernel's side of a receive and of a send: external.                 *)

Arrived(c) == socket[c].arrived - conn[c].fed

KernelReceives(c) ==
    /\ Input(c) \in kernel /\ Arrived(c) > 0
    /\ Completed([Cqe(Input(c), "ok", FALSE) EXCEPT !.count = Min({Arrived(c), WireCapacity})])
    /\ UNCHANGED <<socket, wire>>

\* Nothing is left, and the peer has left or finish() has shut the socket.
KernelReceivesEnd(c) ==
    /\ Input(c) \in kernel /\ Arrived(c) = 0
    /\ \/ socket[c].behind = "reset" /\ Completed(Cqe(Input(c), "error", FALSE))
       \/ /\ socket[c].behind = "eof" \/ conn[c].dead
          /\ Completed(Cqe(Input(c), "eof", FALSE))
    /\ UNCHANGED <<socket, wire>>

Room(c) == socket[c].read + SendBuffer - Len(wire[c])

\* The kernel reads wire_output as it is when it executes the send.
KernelSends(c) ==
    /\ Output(c) \in kernel /\ Room(c) > 0
    /\ socket[c].behind # "reset" /\ ~conn[c].dead
    /\ LET k == conn[c]
           n == Min({Room(c), k.wire_length - k.wire_offset})
           from == k.staged - k.wire_length + k.wire_offset
       IN /\ Completed([Cqe(Output(c), "ok", FALSE) EXCEPT !.count = n])
          /\ wire' = [wire EXCEPT ![c] = @ \o [i \in 1..n |-> from + i]]
    /\ UNCHANGED socket

KernelSendFails(c) ==
    /\ Output(c) \in kernel /\ (socket[c].behind = "reset" \/ conn[c].dead)
    /\ Completed(Cqe(Output(c), "error", FALSE))
    /\ UNCHANGED <<socket, wire>>

-----------------------------------------------------------------------------
Complete == \/ (Listen \/ \E c \in Fds : CancelCompleted(c)) /\ UNCHANGED wire
            \/ \E c \in Fds : InputCompleted(c) \/ OutputCompleted(c)

Drive == \E c \in Fds : \/ DriveBlocked(c) \/ DriveDraining(c) \/ DriveContinues(c)
                        \/ DriveWaits(c) \/ DriveFails(c)

Main == /\ StartShutdown(Draining, {}) \/ Submit(Draining) \/ NoCqeLeft \/ Exit(Draining)
        /\ UNCHANGED wire

Thread == Complete \/ Drive \/ Main

Signal == (SignalStop \/ SubmitInterrupted(Draining)) /\ UNCHANGED wire

Kernel ==
    \/ (KernelAcceptFails \/ CancelSteps) /\ UNCHANGED wire
    \/ \E c \in Fds : \/ KernelAccepts(c) /\ wire' = [wire EXCEPT ![c] = <<>>]
                      \/ (KernelFails(Input(c)) \/ KernelFails(Output(c))) /\ UNCHANGED wire
                      \/ KernelReceives(c) \/ KernelReceivesEnd(c)
                      \/ KernelSends(c) \/ KernelSendFails(c)
                      \/ PeerSends(c) /\ UNCHANGED wire
                      \/ PeerLeaves(c) /\ UNCHANGED wire
                      \/ PeerReads(c, Len(wire[c])) /\ UNCHANGED wire

\* The worker's end is not a deadlock.
Terminated == pc = "exited" /\ UNCHANGED bioVars

BioInit == Init /\ wire = [c \in Fds |-> <<>>]
Next == Thread \/ Signal \/ Kernel \/ Terminated

Spec == BioInit /\ [][Next]_bioVars

-----------------------------------------------------------------------------
(* Properties.                                                             *)

\* The socket gets what OpenSSL produced, in order, each unit once: over
\* staging, partial sends and sends prepared while OpenSSL produces more.
WireInOrder == \A c \in connections : wire[c] = [i \in 1..Len(wire[c]) |-> i]

\* No wakeup is lost: a connection that nobody drives has a send in flight when
\* queued ciphertext or close_notify holds it back; else a receive, and unless
\* its CQE is queued OpenSSL can do nothing without it.
NoLostWakeup ==
    \A c \in Fds : Alive(c) /\ ~Driving(c) =>
        LET d == Context(c)
        IN IF Blocked(d) \/ conn[c].phase = "draining"
           THEN Outstanding(Output(c))
           ELSE /\ Outstanding(Input(c))
                /\ Ended(Input(c)) \/ Turn(d).verdict = "want_read"
                /\ Queued(d) > 0 => Outstanding(Output(c))

\* The records one call of OpenSSL may produce: the flights of a handshake, or
\* else one.
Flights == Cardinality({i \in DOMAIN HandshakeSteps : HandshakeSteps[i] = "write"})
RecordsPerCall == IF Flights > 1 THEN Flights ELSE 1

\* Queued ciphertext is bounded although the peer does not read: drive() stops
\* when it exceeds the capacity, and one call goes on from there.
CiphertextBounded ==
    \A c \in connections : Queued(Context(c)) <= WireCapacity + RecordUnits * RecordsPerCall
=============================================================================
