------------------------------ MODULE TlsSocket ------------------------------
(***************************************************************************)
(* What the workers that give OpenSSL the socket (SSL_set_fd) have in      *)
(* common: OpenSSL reads and writes it in drive(), and the kernel only     *)
(* reports that it is readable or writable.                                *)
(***************************************************************************)
EXTENDS TlsWorker

\* The socket as OpenSSL's read and write BIO.
Bios(c) == [script |-> socket[c].script, available |-> socket[c].arrived,
            behind |-> socket[c].behind, limit |-> socket[c].read + SendBuffer]

\* An iteration of drive() for the connection as it is.
Turn(c) == Iteration(Context(c), Bios(c))

Turning(c) ==
    /\ Driving(c) /\ conn[c].phase # "draining"
    /\ UNCHANGED <<stopping, shutdown_started, accept_cancel_active, doomed, cq, arrivals, socket>>

DriveContinues(c) == Turning(c) /\ Continues(Turn(c)) /\ Continue(Turn(c).d)

\* ssl_failure
DriveFails(c) == Turning(c) /\ Turn(c).verdict = "failed" /\ Leave(Finish(Turn(c).d))

\* close_notify is with the kernel.
DriveDrained(c) ==
    /\ Driving(c) /\ conn[c].phase = "draining"
    /\ Leave(Finish(Context(c)))
    /\ UNCHANGED <<stopping, shutdown_started, accept_cancel_active, doomed, cq, arrivals, socket>>

-----------------------------------------------------------------------------
(* The socket: external.                                                   *)

\* POLLIN and POLLOUT; finish() shuts the socket, which wakes both.
Readable(c) == \/ ssl[c].fetched < socket[c].arrived
               \/ socket[c].behind # "more"
               \/ conn[c].dead
Writable(c) == \/ ssl[c].written < socket[c].read + SendBuffer
               \/ socket[c].behind = "reset"
               \/ conn[c].dead

-----------------------------------------------------------------------------
(* Properties.                                                             *)

\* OpenSSL could go on with a connection: a call would not want more.
CanProceed(c) == Turn(c).verdict \notin {"want_read", "want_write"}

\* A write that OpenSSL has not finished is repeated with the same contents,
\* whatever happened in between: SSL_write_ex would fail with "bad write retry",
\* and end a connection whose peer has done nothing wrong.
RetriesRepeat ==
    \A c \in Fds :
        Driving(c) /\ ssl[c].writing # NULL /\ Turn(c).verdict = "failed"
            => socket[c].behind # "more"

\* A connection is finished for a reason only: its peer left, its handshake or
\* an operation failed, a stop, or the end of the dialogue, with all that was
\* encrypted, close_notify last, handed to the kernel.
FinishedForReason ==
    [][\A c \in Fds : Alive(c) /\ ~Alive(c)' =>
          \/ stopping
          \/ cq # <<>> /\ Head(cq).op \in {Input(c), Output(c)} /\ Head(cq).res = "error"
          \/ Driving(c) /\ (socket[c].behind # "more" \/ ~Handshaken(ssl[c]))
          \/ Driving(c) /\ conn[c].phase = "draining" /\ Last(ssl[c].out) = "close_notify"
                 /\ Unwritten(ssl[c]) = 0]_vars

\* What the requests that have arrived call for is written, unless the
\* connection or the worker ends.
MaxReplies == 2
RequestsAnswered ==
    \A c \in Fds : \A n \in 1..MaxReplies :
        (Alive(c) /\ Len(Answered(Lines(c, socket[c].arrived \div RecordPieces)).replies) >= n)
            ~> (~Alive(c) \/ (RepliesUpTo(c, Len(ssl[c].out)) >= n /\ Unwritten(ssl[c]) = 0))
=============================================================================
