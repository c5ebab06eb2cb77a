------------------------------ MODULE KtlsDemo ------------------------------
(***************************************************************************)
(* ktls-custom-bio/demo.c: one accepted connection, one newline-terminated *)
(* message, one echo, through a filter BIO over OpenSSL's socket BIO.      *)
(*                                                                         *)
(* An action is one call that may fail or block, with what the program     *)
(* does until the next one; within an SSL call, one call of the filter.    *)
(* OpenSSL's record layer, the kernel and the peer are external.           *)
(***************************************************************************)
EXTENDS Integers, Sequences, SequencesExt

CONSTANTS
    Scripts,     \* what the peer may send: sequences of records
    Capacity,    \* sizeof(plaintext), 16384 in the code
    Deadline,    \* 15000 ms in the code, here in ticks
    RecordUnits, \* pieces in which a record travels
    SendBuffer   \* pieces the kernel keeps for a peer that does not read

Newline == 0

PeerRecord == [kind : {"hello", "keys", "finished", "data", "close_notify", "bad"},
               bytes : Seq(Nat)]

\* The records of a peer's handshake, which carry no bytes of its application,
\* and then data: "bad" stands for any record in another one's place.
InPlace(i) == IF i <= 3 THEN <<"hello", "keys", "finished">>[i] ELSE "data"

ASSUME DemoAssumption ==
    /\ Scripts \subseteq Seq(PeerRecord)
    /\ \A script \in Scripts : \A i \in 1 .. Len(script) :
          /\ script[i].kind \in {InPlace(i), "close_notify", "bad"}
          /\ i <= 3 => script[i].bytes = <<>>
    /\ {Capacity, Deadline, RecordUnits, SendBuffer} \subseteq Nat \ {0}

VARIABLES
    world,  \* the peer's script, the mode, and what the kernel offloads
    pc,     \* where main is
    wait,   \* the loop that waits in wait_socket, and for what
    clock,  \* ticks since the deadline was set
    status, \* main's result
    heap,   \* what became of every object
    ptr,    \* which of main's variables name an object
    chain,  \* how far the filter's ownership moved: "apart", "pushed", "installed"
    bio,    \* the retry flags of the filter and of the socket BIO
    ssl,    \* OpenSSL's state
    sock,   \* the connection, as the kernel sees it
    wire,   \* records handed to the kernel whole
    app,    \* main's buffer and counters
    seen    \* history: who decrypted the application's records, and whether
            \* a call that is not about the peer failed for good

vars == <<world, pc, wait, clock, status, heap, ptr, chain, bio, ssl, sock, wire, app, seen>>
objects == <<heap, ptr, chain>>
session == <<bio, ssl, sock, wire, app>>
program == <<pc, wait, status, objects, bio, ssl, wire, app, seen>>

Objects == {"ctx", "method", "listener", "fd", "ssl", "filter", "socket_bio"}
Flags == SUBSET {"read", "write"}
NoWrite == [what |-> "none", bytes |-> <<>>, left |-> 0]

\* A full TLS 1.2 handshake, as the server sees it.  "keys" ends with the
\* peer's ChangeCipherSpec.
Flights == <<[dir |-> "in", what |-> "hello"], [dir |-> "out", what |-> "hello"],
             [dir |-> "in", what |-> "keys"], [dir |-> "in", what |-> "finished"],
             [dir |-> "out", what |-> "finished"]>>

Init ==
    /\ world \in [script : Scripts, userspace : BOOLEAN, offload : SUBSET {"rx", "tx"}]
    /\ pc = "configure"
    /\ wait = [back |-> "accept", events |-> "in"]
    /\ clock = 0
    /\ status = 1
    /\ heap = [o \in Objects |-> "none"]
    /\ ptr = [o \in Objects |-> FALSE]
    /\ chain = "apart"
    /\ bio = [filter |-> {}, socket |-> {}]
    /\ ssl = [step |-> 1, plain |-> <<>>, writing |-> NoWrite, active |-> {}]
    /\ sock = [arrived |-> 0, taken |-> 0, end |-> "open", unread |-> 0]
    /\ wire = <<>>
    /\ app = [plaintext |-> [i \in 1 .. Capacity |-> Newline], used |-> 0, sent |-> 0,
              ktls_read_calls |-> 0, before_calls |-> 0]
    /\ seen = [by |-> {}, failed |-> FALSE]

-----------------------------------------------------------------------------
(* Setting up: each object is allocated, named by a variable of main, and   *)
(* released by the cleanup if that variable still names it.                 *)

\* The objects of got exist now and main's variables name them.
Create(got) ==
    /\ heap' = [o \in Objects |-> IF o \in got THEN "live" ELSE heap[o]]
    /\ ptr' = [o \in Objects |-> o \in got \/ ptr[o]]

GiveUp == pc' = "cleanup" /\ seen' = [seen EXCEPT !.failed = TRUE]

\* SSL_CTX_new and its settings, BIO_meth_new, socket and listen, in this order.
SetUp(here, object, next) ==
    /\ pc = here
    /\ \E got \in SUBSET {object} :
        /\ Create(got)
        /\ \/ got # {} /\ pc' = next /\ UNCHANGED seen
           \/ GiveUp \* the object, or what is set on it
    /\ UNCHANGED <<world, clock, status, chain, session>>

Configure == SetUp("configure", "ctx", "method") /\ UNCHANGED wait
CreateMethod == SetUp("method", "method", "listen") /\ UNCHANGED wait
Listen == SetUp("listen", "listener", "wait") /\ wait' = [back |-> "accept", events |-> "in"]

\* accept4 found a connection; the listener is closed, and TCP_ULP attached.
Accept ==
    /\ pc = "accept"
    /\ heap' = [heap EXCEPT !["fd"] = "live", !["listener"] = "freed"]
    /\ ptr' = [ptr EXCEPT !["fd"] = TRUE, !["listener"] = FALSE]
    /\ \/ pc' = "allocate" /\ UNCHANGED seen
       \/ ~world.userspace /\ GiveUp
    /\ UNCHANGED <<world, wait, clock, status, chain, session>>

\* EAGAIN or EINTR: wait again.  Anything else is an error.
AcceptFails ==
    /\ pc = "accept"
    /\ \/ pc' = "wait" /\ UNCHANGED seen
       \/ GiveUp
    /\ UNCHANGED <<world, wait, clock, status, objects, session>>

\* The three allocations are tested together.
AllocateTls ==
    /\ pc = "allocate"
    /\ \E got \in SUBSET {"ssl", "filter", "socket_bio"} :
        /\ Create(got)
        /\ IF got = {"ssl", "filter", "socket_bio"} THEN pc' = "attach" /\ UNCHANGED seen
                                                    ELSE GiveUp
    /\ UNCHANGED <<world, wait, clock, status, chain, session>>

\* Mutant of AttachBios: main keeps naming the socket BIO the chain owns.
AttachBiosKeepsSocketBio ==
    /\ pc = "attach"
    /\ chain' = "installed"
    /\ ptr' = [ptr EXCEPT !["filter"] = FALSE]
    /\ pc' = "handshake"
    /\ UNCHANGED <<world, wait, clock, status, heap, session, seen>>

\* BIO_push makes the socket BIO the filter's, SSL_set_bio the filter the SSL's.
AttachBios ==
    /\ pc = "attach"
    /\ chain' = "installed"
    /\ ptr' = [ptr EXCEPT !["socket_bio"] = FALSE, !["filter"] = FALSE]
    /\ pc' = "handshake"
    /\ UNCHANGED <<world, wait, clock, status, heap, session, seen>>

-----------------------------------------------------------------------------
(* The filter BIO.                                                          *)

ClearRetryFlags(b) == [b EXCEPT !.filter = {}]

\* Mutant of CopyNextRetry: the filter does not say that its next would block.
CopyNextRetryOmitted(b) == b
CopyNextRetry(b) == [b EXCEPT !.filter = @ \cup b.socket]

\* The socket BIO clears its flags and sets one when it would block.
SocketBio(b, result, flag) == [b EXCEPT !.socket = IF result = "again" THEN {flag} ELSE {}]

FilterRead(b, result) == CopyNextRetry(SocketBio(ClearRetryFlags(b), result, "read"))
FilterWrite(b, result) == CopyNextRetry(SocketBio(ClearRetryFlags(b), result, "write"))

\* Control operations are forwarded, and fail without a next BIO.
FilterCtrl(answer) == IF chain = "apart" THEN {} ELSE answer

\* What SSL_get_error makes of a call that wanted to read or to write.
SslError(b, want) ==
    LET other == IF want = "read" THEN "write" ELSE "read"
    IN IF want \in b.filter THEN want ELSE IF other \in b.filter THEN other ELSE "failed"

\* Mutant of RetrySsl: it polls for the other direction.
RetrySslSwapped(error) ==
    IF error = "failed" THEN pc' = "cleanup" /\ UNCHANGED wait
    ELSE /\ pc' = "wait"
         /\ wait' = [back |-> pc, events |-> IF error = "read" THEN "out" ELSE "in"]

\* retry_ssl: wait for the direction that is wanted, or fail.
RetrySsl(error) ==
    IF error = "failed" THEN pc' = "cleanup" /\ UNCHANGED wait
    ELSE /\ pc' = "wait"
         /\ wait' = [back |-> pc, events |-> IF error = "read" THEN "in" ELSE "out"]

-----------------------------------------------------------------------------
(* wait_socket: every wait of the program ends at the same deadline.        *)

\* Mutant of Remaining: each wait has the whole time again.
RemainingPerWait == Deadline

Remaining == Deadline - clock
PollReady ==
    IF wait.back = "accept" THEN TRUE
    ELSE IF wait.events = "in" THEN sock.arrived > sock.taken \/ sock.end # "open"
                               ELSE sock.unread < SendBuffer \/ sock.end = "reset"

WaitExpires ==
    /\ pc = "wait" /\ Remaining = 0
    /\ pc' = "cleanup"
    /\ UNCHANGED <<world, wait, clock, status, objects, session, seen>>

\* An EINTR or a poll that times out goes round, and leaves this state.
WaitEnds ==
    /\ pc = "wait" /\ Remaining > 0 /\ PollReady
    /\ pc' = wait.back
    /\ UNCHANGED <<world, wait, clock, status, objects, session, seen>>

\* poll fails, or says POLLNVAL.
WaitFails ==
    /\ pc = "wait" /\ Remaining > 0
    /\ GiveUp
    /\ UNCHANGED <<world, wait, clock, status, objects, session>>

-----------------------------------------------------------------------------
(* Reading.  Without read-ahead OpenSSL asks for what the record lacks; the *)
(* kernel's record layer delivers whole records.                            *)

\* The loop main is in, also while it waits.
Loop == IF pc = "wait" THEN wait.back ELSE pc
Handshaking == Loop = "handshake"
Flight == Flights[ssl.step]
Reads == (Handshaking /\ Flight.dir = "in") \/ (Loop = "read" /\ ssl.plain = <<>>)

KernelReads == "rx" \in FilterCtrl(ssl.active)
Lacking == RecordUnits - (sock.taken % RecordUnits)
Queued == sock.arrived - sock.taken
Takes == IF Queued >= Lacking THEN Lacking ELSE IF KernelReads THEN 0 ELSE Queued
ReadResult == IF Takes > 0 THEN "ok" ELSE IF sock.end = "open" THEN "again" ELSE "failed"
Record == world.script[sock.taken \div RecordUnits + 1]

\* What every call of filter_read leaves behind.
ReadThroughFilter ==
    /\ pc = Loop
    /\ bio' = FilterRead(bio, ReadResult)
    /\ sock' = [sock EXCEPT !.taken = @ + Takes]
    /\ app' = [app EXCEPT !.ktls_read_calls =
                   IF ReadResult = "ok" /\ KernelReads THEN @ + 1 ELSE @]
    /\ UNCHANGED <<world, clock, status, objects, wire>>

ReadBlocks ==
    /\ Reads /\ ReadResult # "ok"
    /\ ReadThroughFilter
    /\ RetrySsl(SslError(FilterRead(bio, ReadResult), "read"))
    /\ UNCHANGED <<ssl, seen>>

\* Part of a record: OpenSSL asks again.
ReadsPart ==
    /\ Reads /\ 0 < Takes /\ Takes < Lacking
    /\ ReadThroughFilter
    /\ UNCHANGED <<pc, wait, ssl, seen>>

Offloads(direction) == FilterCtrl(world.offload \cap {direction})
NextStep(s) == [s EXCEPT !.step = @ + 1]
StepsOn == pc' = IF ssl.step = Len(Flights) THEN "gate" ELSE pc

\* A flight of the peer; its ChangeCipherSpec makes OpenSSL try to hand
\* reading to the kernel.
ReadsFlight ==
    /\ Handshaking /\ Reads /\ Takes = Lacking /\ Record.kind = Flight.what
    /\ ReadThroughFilter
    /\ ssl' = NextStep([ssl EXCEPT !.active =
                  IF Flight.what = "keys" THEN @ \cup Offloads("rx") ELSE @])
    /\ StepsOn
    /\ UNCHANGED <<wait, seen>>

ReadsData ==
    /\ pc = "read" /\ Reads /\ Takes = Lacking /\ Record.kind = "data"
    /\ ReadThroughFilter
    /\ ssl' = [ssl EXCEPT !.plain = Record.bytes]
    /\ seen' = [seen EXCEPT !.by = @ \cup {IF KernelReads THEN "kernel" ELSE "user"}]
    /\ UNCHANGED <<pc, wait>>

\* close_notify, or a record out of place: the call fails.
ReadRefused ==
    /\ Reads /\ Takes = Lacking
    /\ Record.kind # IF Handshaking THEN Flight.what ELSE "data"
    /\ ReadThroughFilter
    /\ pc' = "cleanup"
    /\ UNCHANGED <<wait, ssl, seen>>

-----------------------------------------------------------------------------
(* Writing.                                                                 *)

Message == SubSeq(app.plaintext, 1, app.used)

\* What the loop asks OpenSSL to write.
Asked == CASE Loop = "handshake" -> [what |-> Flight.what, bytes |-> <<>>]
           [] Loop = "write" -> [what |-> "data", bytes |-> SubSeq(Message, app.sent + 1, app.used)]
           [] Loop = "shutdown" -> [what |-> "close_notify", bytes |-> <<>>]

Writes == (Handshaking /\ Flight.dir = "out") \/ Loop \in {"write", "shutdown"}

\* A write that blocked has to be repeated as it was.
BadRetry == ssl.writing # NoWrite /\ Asked # [what |-> ssl.writing.what, bytes |-> ssl.writing.bytes]
Writing ==
    IF ssl.writing = NoWrite THEN [what |-> Asked.what, bytes |-> Asked.bytes, left |-> RecordUnits]
                             ELSE ssl.writing

Room == SendBuffer - sock.unread
Gives == IF Writing.left < Room THEN Writing.left ELSE Room
WriteResult == IF sock.end = "reset" \/ BadRetry THEN "failed" ELSE IF Gives = 0 THEN "again" ELSE "ok"

WriteThroughFilter(result) ==
    /\ pc = Loop
    /\ bio' = FilterWrite(bio, result)
    /\ UNCHANGED <<world, clock, objects, seen>>

WriteBlocks ==
    /\ Writes /\ WriteResult # "ok"
    /\ WriteThroughFilter(WriteResult)
    /\ ssl' = [ssl EXCEPT !.writing = Writing]
    /\ RetrySsl(SslError(FilterWrite(bio, WriteResult), "write"))
    /\ UNCHANGED <<status, sock, wire, app>>

\* The kernel takes part of the record: OpenSSL goes on with the rest.
WritesPart ==
    /\ Writes /\ WriteResult = "ok" /\ Gives < Writing.left
    /\ WriteThroughFilter("ok")
    /\ ssl' = [ssl EXCEPT !.writing = [Writing EXCEPT !.left = @ - Gives]]
    /\ sock' = [sock EXCEPT !.unread = @ + Gives]
    /\ UNCHANGED <<pc, wait, status, wire, app>>

Written(s) == [s EXCEPT !.writing = NoWrite]

\* The record is with the kernel.
WritesRest ==
    /\ Writes /\ WriteResult = "ok" /\ Gives = Writing.left
    /\ WriteThroughFilter("ok")
    /\ sock' = [sock EXCEPT !.unread = @ + Gives]
    /\ wire' = Append(wire, Asked)
    /\ UNCHANGED wait

\* A flight; after the last one OpenSSL tries to hand writing to the kernel.
WritesFlight ==
    /\ Handshaking /\ WritesRest
    /\ ssl' = NextStep([Written(ssl) EXCEPT !.active =
                  IF Flight.what = "finished" THEN @ \cup Offloads("tx") ELSE @])
    /\ StepsOn
    /\ UNCHANGED <<status, app>>

\* Without SSL_MODE_ENABLE_PARTIAL_WRITE a write that returns wrote it all.
WritesEcho ==
    /\ pc = "write" /\ WritesRest
    /\ ssl' = Written(ssl)
    /\ app' = [app EXCEPT !.sent = @ + Len(Asked.bytes)]
    /\ pc' = "shutdown"
    /\ UNCHANGED status

\* close_notify is with the kernel: the demonstration passed.
WritesCloseNotify ==
    /\ pc = "shutdown" /\ WritesRest
    /\ ssl' = Written(ssl)
    /\ status' = 0
    /\ pc' = "cleanup"
    /\ UNCHANGED app

-----------------------------------------------------------------------------
(* main between the loops.                                                  *)

\* No userspace fallback is accepted as a kTLS result, nor kTLS as a control.
Activated ==
    LET active == FilterCtrl(ssl.active)
    IN IF world.userspace THEN active = {} ELSE "rx" \in active

ActivationGate ==
    /\ pc = "gate"
    /\ pc' = IF Activated THEN "read" ELSE "cleanup"
    /\ app' = [app EXCEPT !.before_calls = app.ktls_read_calls]
    /\ UNCHANGED <<world, wait, clock, status, objects, bio, ssl, sock, wire, seen>>

\* Mutant of ReadInto: each read starts at the front of the buffer.
ReadIntoFront(a, bytes) ==
    [a EXCEPT !.plaintext = [i \in 1 .. Capacity |-> IF i \in 1 .. Len(bytes) THEN bytes[i] ELSE @[i]],
              !.used = @ + Len(bytes)]

\* SSL_read_ex copies what is decrypted behind what the buffer holds.
ReadInto(a, bytes) ==
    [a EXCEPT !.plaintext = [i \in 1 .. Capacity |->
                  IF i \in a.used + 1 .. a.used + Len(bytes) THEN bytes[i - a.used] ELSE @[i]],
              !.used = @ + Len(bytes)]

Complete(a) == \E i \in 1 .. a.used : a.plaintext[i] = Newline
Observed(a) == world.userspace \/ a.ktls_read_calls # a.before_calls

\* The message is complete, does not fit, or goes on.
ReadReturns ==
    /\ pc = "read" /\ ssl.plain # <<>>
    /\ LET room == Capacity - app.used
           n == IF Len(ssl.plain) < room THEN Len(ssl.plain) ELSE room
           a == ReadInto(app, SubSeq(ssl.plain, 1, n))
       IN /\ app' = a
          /\ ssl' = [ssl EXCEPT !.plain = SubSeq(@, n + 1, Len(@))]
          /\ pc' = IF Complete(a) THEN IF Observed(a) THEN "write" ELSE "cleanup"
                   ELSE IF a.used = Capacity THEN "cleanup" ELSE "read"
    /\ UNCHANGED <<world, wait, clock, status, objects, bio, sock, wire, seen>>

-----------------------------------------------------------------------------
(* The cleanup.                                                             *)

\* Releasing what is not live corrupts it.
Free(h, freed) ==
    [o \in Objects |-> IF o \notin freed THEN h[o]
                       ELSE IF h[o] = "live" THEN "freed" ELSE "corrupt"]

\* The socket BIO is BIO_NOCLOSE: it leaves the descriptor alone.
SocketBioOwns == {}
FreeSocketBio(h) == Free(h, {"socket_bio"} \cup SocketBioOwns)

\* BIO_free calls filter_destroy, through the method.
FreeFilter(h) == Free(h, {"filter"} \cup IF h["method"] = "live" THEN {} ELSE {"method"})
FreeChain(h) == IF chain = "apart" THEN FreeFilter(h) ELSE FreeSocketBio(FreeFilter(h))
FreeSsl(h) == Free(IF chain = "installed" THEN FreeChain(h) ELSE h, {"ssl"})

\* Each release of the cleanup does nothing for a variable that names nothing.
Released(h) ==
    LET h1 == IF ptr["filter"] THEN FreeChain(h) ELSE h
        h2 == IF ptr["socket_bio"] THEN FreeSocketBio(h1) ELSE h1
        h3 == IF ptr["ssl"] THEN FreeSsl(h2) ELSE h2
    IN Free(h3, {o \in {"method", "ctx", "fd", "listener"} : ptr[o]})

Cleanup ==
    /\ pc = "cleanup"
    /\ heap' = Released(heap)
    /\ pc' = "exited"
    /\ UNCHANGED <<world, wait, clock, status, ptr, chain, session, seen>>

-----------------------------------------------------------------------------
(* The clock and the peer (external).                                       *)

Tick ==
    /\ pc \notin {"configure", "method", "listen", "exited"} /\ clock < Deadline
    /\ clock' = clock + 1
    /\ UNCHANGED <<world, sock, program>>

Flew(what) == \E i \in 1 .. Len(wire) : wire[i].what = what

\* The peer sends a piece of its next record, keys after the server's flight;
\* data need not wait for the server's Finished.
PeerSends ==
    /\ heap["fd"] = "live" /\ sock.end = "open"
    /\ sock.arrived < RecordUnits * Len(world.script)
    /\ LET next == world.script[sock.arrived \div RecordUnits + 1].kind
       IN next \in {"keys", "finished", "data"} => Flew("hello")
    /\ sock' = [sock EXCEPT !.arrived = @ + 1]
    /\ UNCHANGED <<world, clock, program>>

PeerReads ==
    /\ heap["fd"] = "live" /\ sock.unread > 0
    /\ sock' = [sock EXCEPT !.unread = 0]
    /\ UNCHANGED <<world, clock, program>>

\* It ends its stream or resets the connection, when it likes.
PeerEnds ==
    /\ heap["fd"] = "live" /\ sock.end = "open"
    /\ \E how \in {"fin", "reset"} : sock' = [sock EXCEPT !.end = how]
    /\ UNCHANGED <<world, clock, program>>

-----------------------------------------------------------------------------
Program ==
    \/ Configure \/ CreateMethod \/ Listen \/ Accept \/ AcceptFails \/ AllocateTls \/ AttachBios
    \/ WaitExpires \/ WaitEnds \/ WaitFails
    \/ ReadBlocks \/ ReadsPart \/ ReadsFlight \/ ReadsData \/ ReadRefused \/ ReadReturns
    \/ WriteBlocks \/ WritesPart \/ WritesFlight \/ WritesEcho \/ WritesCloseNotify
    \/ ActivationGate \/ Cleanup

Exited == pc = "exited" /\ UNCHANGED vars

Next == Program \/ Tick \/ PeerSends \/ PeerReads \/ PeerEnds \/ Exited

Spec == Init /\ [][Next]_vars

\* The program runs and time passes; nothing is assumed of the peer.
FairSpec == Spec /\ WF_vars(Program) /\ WF_vars(Tick)

-----------------------------------------------------------------------------
(* Properties.                                                              *)

\* Whichever call fails, every object the program made is released exactly
\* once, the filter while its method is there: owners change between three
\* allocations, BIO_push and SSL_set_bio, and the cleanup knows only pointers.
ReleasedOnce ==
    /\ \A o \in Objects : heap[o] # "corrupt"
    /\ pc = "exited" => \A o \in Objects : heap[o] # "live"

Bytes(records) == FlattenSeq([i \in 1 .. Len(records) |-> records[i].bytes])

\* The result is 0 only if the peer was sent, once and in order, all that was
\* read up to a newline, and close_notify after it, and if the layer the mode
\* asks for decrypted all of it; nothing else is ever echoed.
PassIsEarned ==
    LET message == SubSeq(Bytes(world.script), 1, app.used)
    IN /\ Bytes(wire) \in {<<>>, message}
       /\ status = 0 =>
             /\ Bytes(wire) = message
             /\ Newline \in {message[i] : i \in 1 .. Len(message)}
             /\ Last(wire).what = "close_notify"
             /\ seen.by = {IF world.userspace THEN "user" ELSE "kernel"}
             /\ world.userspace => ssl.active = {}

TookRefused ==
    \E i \in 1 .. sock.taken \div RecordUnits : world.script[i].kind \in {"bad", "close_notify"}
WrongLayer == IF world.userspace THEN world.offload # {} ELSE "rx" \notin world.offload
TooLong ==
    LET sent == Bytes(world.script)
    IN Len(sent) >= Capacity /\ \A i \in 1 .. Capacity : sent[i] # Newline

\* It fails only when a set-up or system call did, time ran out, the peer ended
\* or sent what it may not, the wrong layer was active, or no newline came in
\* 16 KiB: an operation that would block never fails, whatever it passed through.
FailsForReason ==
    pc = "exited" /\ status # 0 =>
        seen.failed \/ clock = Deadline \/ sock.end # "open" \/ TookRefused \/ WrongLayer \/ TooLong

\* It waits only for what it needs: while poll has nothing to report, the call
\* to be repeated would block, and nothing decrypted lies unread in OpenSSL.
NoLostWakeup ==
    pc = "wait" /\ wait.back # "accept" /\ ~PollReady =>
        \/ Reads /\ ReadResult = "again"
        \/ Writes /\ WriteResult = "again"

\* It ends, whatever the peer does or leaves undone: every wait of every loop
\* is cut off by the one deadline.
Terminates == <>(pc = "exited")
=============================================================================
