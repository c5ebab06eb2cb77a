# Verification of the transport experiments

This directory holds TLA+ models of the programs in this repository, TLC
configurations that check them on small instances, and proofs, checked by TLAPS,
of what holds for instances of every size. `PROJECT.json` lists the runs, the
mutants that show each property can fail, the lines each definition stands for,
and the hazards the properties are aimed at.

    tlc -workers 2 -config MCMultishot.cfg MCPlaintextWorker
    tlc -workers 2 -config MCTlsFdHybrid.cfg MCTlsFdHybrid
    tlc -workers 2 -config MCTransportApplications.cfg MCTransportApplications
    tlapm PlaintextWorkerProofs.tla

## 1. The repository

Most of `src/` is prose: proposals for a .NET transport API (`api.md`, `tls.md`,
`backends.md`, ...), which nothing here implements, with examples of applications
written for it. The code is

| component | source | state it keeps |
|---|---|---|
| HTTP framing | `parse_request` in every `experiments/io-uring-http/*/server.c` | none: a function of the bytes buffered |
| plaintext workers | `oneshot/server.c`, `multishot/server.c` | connections with their references and lanes, submission queue, provided buffers, accept, shutdown flags |
| TLS over memory BIOs | `tls-bio/server.c` | the same, with a phase, `SSL` state, and ciphertext staged in both directions |
| TLS over descriptors | `tls-fd`, `tls-fd-ring`, `tls-fd-ahead`, `tls-fd-read` | a phase, `SSL` state, one poll per connection |
| readiness shortcut | `tls-fd-ready/server.c` | as tls-fd; skips the read that is likely to want more |
| persistent polls | `tls-fd-poll/server.c` | a multishot POLLIN, a one-shot POLLOUT, `waiting_write` |
| epoll inside io_uring | `tls-fd-hybrid/server.c` | edge-triggered registrations, one poll of the epoll descriptor |
| kTLS BIO demo | `ktls-custom-bio/demo.c` | one connection, a BIO chain and its owners |
| launchers | `oneshot.sh`, `multishot.sh`, `tls-*/run.sh` | the pids of four workers |
| lease and push examples | `examples/DispatchedReceive.cs`, `RetainedEchoApplication.cs`, `ServerPushApplication.cs` | a bounded queue of leased requests and its processor, leases lent to writes, a registry of peers with their locks |
| no behaviour of their own | `validation/`, the other examples, load and set-up scripts | - |

### How the parts interact

A worker is one process with one thread and one io_uring. `main` loops: it
submits what was prepared, waits at most 100 ms, and calls `complete` on each
CQE of the batch. `complete` calls `drive_connection`, which parses input and
prepares sends, receives and cancels; `get_sqe` submits early when the queue is
full. The kernel executes what was submitted, concurrently with all of it. The
signal handler sets `stopping` at any instruction. Workers share nothing: the
kernel spreads connections over their listeners (SO_REUSEPORT), and a launcher
stops all when one exits. The TLS workers have the same skeleton, with OpenSSL
between the socket and the parser.

The kTLS demo is a process of its own: one thread, one connection, one deadline for all
its waits, and a filter BIO between OpenSSL and its socket BIO. The example applications are
called back by an engine that exists only as a proposal: callbacks of one connection one at a
time, those of different connections at the same time, beside the threads the applications
bring themselves (the processor of `DispatchedReceive`, whoever calls `Broadcast`).

### What is hard

- A connection has up to three operations in flight (receive, send, cancel),
  which end in any order; the last CQE of the last one frees it.
- Pausing a receive is a cancel, whose CQE races with that of the receive, with
  data the receive had already queued, and with a signal.
- `stopping` is read several times by one completion.
- Provided buffers are shared by all connections and may run out.
- Streams arrive fragmented and pipelined, and replies leave in parts.
- OpenSSL reads ahead, writes in parts and wants whatever it wants: a wakeup is
  lost when a connection waits for its socket while what it needs is in user
  space, or for the wrong direction. Multishot polls and edge-triggered events
  are reported once.
- A shutdown, by a signal or by a failing accept, has to end everything,
  whatever was in flight, and to free nothing the kernel still uses.
- Ownership moves: from a variable of main to a BIO chain to an SSL while any step may fail;
  from a callback to a queue to a processor, or to a write that completes later.
- A filter BIO is asked to say on its next BIO's behalf that it would block.
- Connections end, for reasons of their own, while a request waits in a queue or a peer is
  being written to by another thread.

### What makes each component correct

- *Framing*: it accepts the requests of a grammar, with the right length and
  persistence; its verdict does not depend on fragmentation; a request it waits
  for fits the input.
- *Plaintext workers*: references match operations; user data is unique among
  operations in flight; buffers and descriptors are conserved; replies are those
  the stream calls for, in order, whole, once; a served connection never idles
  for ever; a connection ends only for a reason; a signal ends the worker, with
  nothing left in flight.
- *TLS workers*: the same for references and shutdown; no wait for a descriptor
  or a send while what would make progress is already in user space; staged
  ciphertext bounded; `SSL_shutdown` only after its reply and never after a
  fatal error.
- *kTLS demo*: every object freed once on every path; a pass only for an echo of what was
  read through the layer the mode asks for; a failure only for a reason; one deadline for all.
- *Launchers*: no worker survives its launcher.
- *Lease and push examples*: each lease has one holder and is disposed once, also when the
  queue is full or completed and when commands throw; replies in order; a broadcast reaches
  every peer of its snapshot that is open, and writes to a connection one thread at a time.

## 2. Modules

Done:

| module | what it is |
|---|---|
| `HttpFraming` | `parse_request` as the operator `ParseRequest`, pure |
| `HttpReplies` | which reply a request gets; what a whole stream calls for |
| `HttpFramingCheck` | a stream growing line by line, and the grammar as reference definition |
| `MCHttpFraming` | the alphabet for TLC |
| `HttpFramingProofs` | theorems about the operators, for every limit and stream; the properties of `HttpFramingCheck`, proved; what a stream calls for, request by request |
| `PlaintextWorker` | one worker, both kinds of receive, with io_uring and the peers; its properties |
| `MCPlaintextWorker` | scripts and symmetry for its four configurations |
| `OperationLifetime` | abstract: objects that operations in flight hold and that are freed with the last; `PlaintextWorker` implements it |
| `PlaintextWorkerProofs` | its inductive invariant, the theorems it gives, and the refinement |
| `TlsEngine` | OpenSSL as the TLS workers see it (external) |
| `TlsWorker` | the skeleton of all TLS workers, io_uring and the peers; the properties they share |
| `TlsBio` | tls-bio: memory BIOs, staging, backpressure |
| `TlsSocket` | what the workers that give OpenSSL the socket share |
| `TlsFd` | tls-fd, tls-fd-ring, tls-fd-ahead, tls-fd-read, tls-fd-ready: one-shot polls |
| `TlsFdPoll` | tls-fd-poll: a multishot and a one-shot poll |
| `TlsFdHybrid` | tls-fd-hybrid: epoll inside io_uring |
| `TlsWorkerProofs` | lemmas about OpenSSL, `drive` and the skeleton; the invariant the TLS workers share, and that every shared step keeps it |
| `TlsBioProofs`, `TlsFdProofs`, `TlsFdHybridProofs` | the inductive invariants of tls-bio, of the one-shot poll workers and of tls-fd-hybrid, and the theorems they give |
| `TlsScripts`, `MCTlsBio`, `MCTlsFd`, `MCTlsFdPoll`, `MCTlsFdHybrid` | what peers send; instances for TLC |
| `KtlsDemo`, `MCKtlsDemo` | the kTLS demo from its first allocation to its exit, with OpenSSL, kernel and peer; its scripts |
| `KtlsDemoProofs` | ownership in the demo, what its waits are for, and the way of the message through it, proved |
| `TransportApplications`, `MCTransportApplications` | the three example applications and the engine that runs them; an instance |
| `TransportApplicationsProofs` | ownership of receive leases, the order of replies and whom a broadcast reaches, proved |

`HttpFraming` is extended by `HttpReplies`, that by `PlaintextWorker` and by `TlsEngine`;
`TlsWorker` extends `TlsEngine`, `TlsBio` and `TlsSocket` extend `TlsWorker`, and the three
modules of socket workers extend `TlsSocket`. A definition that all workers share is written
once, and `PROJECT.json` maps it to one of the copies the sources hold of that code.

Left of the plan, in this order:

1. Proofs for `TlsFdPoll`; that the TLS workers implement `OperationLifetime`.
2. An abstract dialogue (requests in, replies out, close) that every worker,
   plaintext or TLS, implements.
3. `ConnectionList`: the doubly linked list, that it represents the set
   `connections`, also under removal while main's loop walks it.

## 3. The models

### HttpFraming

A stream is a sequence of lines, each with its CRLF, and lengths are counted in
lines. A line is a request line, a field by what the code does with it, or
blank; a Content-Length field carries its digits. "\r\n\r\n" is then a blank line
other than the first. Digits stay digits, because the overflow guard
`body_length > (INPUT_CAPACITY - digit) / 10` is about them.

Left out: where in a line a fragment ends (a partial line is like its absence to
the code, which looks for "\r\n\r\n" first, except for the length tested against
HEADER_LIMIT), letter case, blanks around values, the characters of a request line.

### PlaintextWorker

| code | model |
|---|---|
| `connections`, `struct connection` | `connections`, `conn[c]`, by descriptor; field by field, with the input as lines |
| `accept_active`, `accept_cancel_active`, `stopping`, `shutdown_started` | the same |
| the submission queue | `sq`, submitted to `kernel` by `Submit` or by `GetSqe` |
| the completion queue | `cq`, in order; `Completes` takes the oldest |
| the buffer ring | `free`, the ids the kernel can select |
| open descriptors | `open` |
| main's position | `pc`: "loop" (before the shutdown test), "wait", "reap", "exited" |
| one call of `complete` | one of `AcceptedConnection`, `AcceptedWhileStopping`, `AcceptEnded`, `AcceptCancelCompleted`, `CancelCompleted`, `ReceiveCompleted`, `SendCompleted` |
| `drive_connection`, `cancel_receive`, ... | operators from a context (the connection and the two queues) to a context |
| `on_signal` | `OnSignal`, and `Reads`: the values one completion may see |

A completion is one action: the thread is not preempted in it in any way that
matters, but for the signal handler and the kernel. For the first, `Reads` lets
`stopping` become true between any two reads by the same completion. The second
sees early what `get_sqe` submits early; that it would run before the completion
is over makes no difference, because completions read nothing the kernel writes
but their CQE.

`oneshot` and `multishot` differ in the receive they prepare, and so does the
model: `Multishot` says whether a receive's CQE may leave it armed.

External, from how the code uses it: a submitted operation may complete at any
time; a receive takes one provided buffer for each piece of the peer's stream
and fails without one; an accept or multishot receive may end with a successful
CQE; a send may be partial and reads `output` and `sent` when it executes; a
cancel finds its target or does not, and the target ends with -ECANCELED before
or after the cancel's own CQE, or with a result that overtook it. Peers send a
script of requests, cut anywhere between lines, and may end at any line. What of
this a run allows is its `Environment`.

Left out: statistics, logs and socket options; `fail()`, which ends the process;
an overflow of the completion queue (the Linux versions the code asks for keep such
CQEs aside); the links of the connection list; reuse of a
descriptor by another part of the process (there is none). `io_uring_submit` is
interrupted only by the first signal, and then submits nothing.

### TlsEngine

OpenSSL is external. An `SSL` is what the workers can tell of it: how far the
handshake is, what it has taken from its read BIO (`fetched`), which of that it
has processed (`consumed`), what is decrypted and unread (`plain`), what it has produced
(`out`) and how much of that its write BIO took (`written`), and the write that has to be
repeated (`writing`). Ciphertext is counted: a record of the peer is two pieces, so that it
may have arrived in part, and a record of the worker's `RecordUnits` units. With read-ahead a read takes
all that has arrived, without it what the next record lacks. A handshake is a sequence of
flights, that of TLS 1.3 or of TLS 1.2, and has at most `MaxFlights` of them: the five of a
TLS 1.3 handshake with a HelloRetryRequest. Fatal are: an end of stream or reset before
close_notify, a record out of place, a bad write retry, SSL_shutdown during a handshake.
Not modelled: key updates, renegotiation, tickets (the workers switch them off).

### TlsWorker and the modules above it

| code | model |
|---|---|
| `struct connection` | `conn[c]`; the fields of one variant only are unused in the others |
| `c->ssl` | `ssl[c]` |
| main's position | `pc` as above, with "drive" (inside `drive`) and "events" (in a batch of epoll events) |
| what `complete` does after `drive` returns | `task.then`: release the operation's reference, keep it (multishot poll), rearm the listener, go on with the batch |
| one iteration of the loop in `drive` | one of `DriveContinues` / `DriveOn`, `DriveWaits`, `DriveFails`, `DriveDrained`, `DriveDraining`, `DriveBlocked` |
| `finish`, `release`, `get_sqe`, `wait_for_io`, `flush_output` | operators from a context to a context |
| the poll, receive or send of a connection | `Input(c)`, `Output(c)` |
| `io_uring_submit`, then wait; or both in one call | `Submit`; `SubmitInterrupted` only where submitting is a call of its own |

Unlike a completion of the plaintext workers, `drive` is not one action: it
calls OpenSSL on a socket that changes meanwhile. Each iteration is an action, so that data may
arrive and a signal may come between any two calls.

The kernel reports readiness: a one-shot poll when its condition holds (`PollReady`); the multishot
poll of `TlsFdPoll` the events that occur while it is armed and what it finds when it is
armed (`woken`); epoll the edges of registered sockets and what it finds when a
registration is added or changed (`epoll.ready`). finish() shuts the socket, which makes
a one-shot poll, a receive and a send end. A peer sends record after record, after
the flights of the worker it depends on, may stop anywhere, end its stream with or without
close_notify, or reset it, and reads what it was sent or does not (`socket[c].read`).

In `TlsBio` the wire is the sequence of units the kernel took (`wire`), each named by its
position in what OpenSSL produced, and the kernel reads `wire_output` when it executes the
send, so a buffer refilled too early shows.

Left out: what `PlaintextWorker` leaves out; the head of HEAD requests (their
replies lack the body); tls-bio's `fail` when OpenSSL wants to write to a memory BIO,
which grows as needed; errors of `epoll_ctl`, `setsockopt` and allocation, which end the process.

### OperationLifetime

Objects (a worker's connections) that are `alive` with a set of `outstanding` operations. An
object is created with its first operations; operations of several live objects may begin in
one step; one completes at a time, for good or with more to come, and its completion may begin
others; the object goes in the step that leaves it none: never before, never after. `PlaintextWorker`
maps its connections to the objects, and an operation is in flight from the submission
queue to the completion of its last CQE (`OutstandingKinds`). References and flags, which
decide in the code when a connection is freed, do not appear: that they come to this is
what the refinement says.

### KtlsDemo

| code | model |
|---|---|
| main's position | `pc`; `wait.back` is the loop that called `wait_socket` |
| `deadline - milliseconds()` | `Remaining`: ticks left of `Deadline` |
| the objects main allocates | `heap[o]`: "none", "live", "freed", or "corrupt" when released and not live |
| main's variables | `ptr[o]`: the variable still names the object |
| who owns the BIO chain | `chain`: nobody, or the SSL |
| the retry flags of the filter and of its next BIO | `bio` |
| `plaintext`, `used`, `sent`, the counters | `app` |
| status | `status` |

One action is one call that may fail or block, with what the program does up to the next one;
inside an SSL call, one call of the filter. Every set-up call may fail; every allocation too, in
every combination of the three that are tested together. `userspace` and what the kernel
offloads (`offload`) are chosen at first and independent. External: a full TLS 1.2 handshake in
five flights, records in `RecordUnits` pieces, a kernel that after the handoff delivers whole
records, a send buffer, a peer that may send, read, end or reset at any time, and a clock.

Left out: the usage check, what is printed (errno is only printed), the exit() when
`clock_gettime` fails. EINTR and polls that time out early leave the state as it is.

### TransportApplications

The variable `application` says which of the three examples the engine runs.

| code | model |
|---|---|
| a `TransportReceiveLease` | the connection and number of the payload; `held` while retained and not disposed |
| a `ReceivedRequest` | a record: connection, payload, leased or copied, completed |
| OnReceive of `DispatchedReceive` | `DispatchReceives`, which retains, then `Offered` or `Refused` (TryWrite) |
| the channel | `queue`, `channel` |
| `ProcessRequestsAsync` | `processor`: what it is about to do, and its request |
| OnReceive of `RetainedEcho` | `EchoReceives`, the whole callback |
| OnWriteCompleted, of both | `WriteCompleted` |
| `_peers`, `_closed`, `_sync` | `peers`, `peer_closed`, `lock` |
| OnClosed of `ServerPush` | `RemovesPeer`, then `MarkClosed` |
| `Broadcast`, `ServerPeer.Send` | `Broadcasts`, `EntersPeer`, `LeavesPeer`, `BroadcastEnds`, by each thread |

The engine is external and taken from what `api.md` promises: callbacks of a connection
are serialized and those of others concurrent; retention may be refused; accepted writes
complete in order, with or without an error, and before OnClosed; a command on a connection
that is terminal throws, and a connection may become terminal at any time, also
during a callback. ConcurrentDictionary's enumeration is taken as a snapshot (`Values`
returns one). Left out: the `Accept` of every connection that arrives, exceptions of the
handler (it returns), what messages say.

## 4. The runs

| run | configuration | question |
|---|---|---|
| `http_framing` | `MCHttpFraming.cfg` | Does the code accept the grammar, whatever the fragments? |
| `plaintext_oneshot` | `MCOneshot.cfg` | Is nothing left unanswered and are inputs bounded with one-shot receives? |
| `plaintext_multishot` | `MCMultishot.cfg` | Do cancels, late data and ends of multishot receives leave the bookkeeping and the replies right? |
| `plaintext_connections` | `MCConnections.cfg` | Do two connections and a signal at any point leave no descriptor behind, and is each connection freed exactly with its last operation? |
| `plaintext_liveness` | `MCShutdown.cfg` | Does it end, answer and free what it must? |
| `tls_fd_ready` | `MCTlsFd.cfg` | Do read-ahead, blocked writes and the readiness shortcut lose a wakeup or spoil a reply? Does a stop end it, whatever peers do, and are requests answered? |
| `tls_fd_ring` | `MCTlsFdRing.cfg` | Do two connections, a listener that ends and a stop leave operations and descriptors right? |
| `tls_bio` | `MCTlsBio.cfg` | Does ciphertext reach the wire whole, in order and bounded, with no wakeup lost behind a send? |
| `tls_fd_poll` | `MCTlsFdPoll.cfg` | Are ignored events harmless and references of a multishot poll right? |
| `tls_fd_hybrid` | `MCTlsFdHybrid.cfg` | Are edges, batches and pointers in events safe, and the poll of the epoll descriptor over before the worker? |
| `ktls_demo` | `MCKtlsDemo.cfg` | Whatever fails or stalls: is everything released once, is the verdict right, does it end? |
| `transport_applications` | `MCTransportApplications.cfg` | Do leases, replies and broadcasts survive full queues, ends of connections and throwing commands? |

**Bounds.** `http_framing`: heads of up to four lines, which has room for two
fields in every combination; a capacity of 12, so that one- and two-digit lengths
fall on both sides of it and of the guard. `plaintext_oneshot`: capacity 9, buffers
of 4 lines and scripts of 10 to 14 lines, so that a stream passes the pause
threshold; one script mixes a body, HTTP/1.0 keep-alive and a rejected request.
`plaintext_multishot`: two buffers, and a burst of 14 lines against a capacity of 9, so
that data arrives after the pause and past the capacity, or the mixed script; replies of two units, so
that sends are partial. `plaintext_connections`: one buffer for two connections, so that the
pool runs out (ENOBUFS), and a submission queue of one entry, so that every second
`get_sqe` submits early. `plaintext_liveness`: four pipelined requests, enough to pause
and to rearm; no symmetry. `MaxArrivals` bounds the connections of a behaviour;
descriptors are reused as soon as they are closed. `MaxReplies` bounds only what the
liveness property ranges over, and exceeds what the scripts can produce.

TLS runs: two units in a record and three in a send buffer, so that a
record is written in part and a second one blocks; scripts with a request split over two records,
several in one, a stream that ends inside a request, one that closes, a refused one, and none.
Where "fragments" is in `Environment`, records arrive in pieces.
`tls_fd_ring` has two connections, the flights of TLS 1.2 and records of one unit; what it asks is about references,
descriptors and the listener, which payloads do not change. `tls_bio` has
`WireCapacity` 2: OpenSSL produces more than the wire buffer
holds, and three pipelined replies pass the bound of `Blocked`. `tls_fd_poll` has a multishot
poll that may end, fail, or be cancelled. `tls_fd_hybrid` has two connections and
`MaxEvents` 1 where the code has 512: what matters is that the ready list may be longer than a
batch. `QueueDepth` is 1 or 2 where the code has 2048, so that `get_sqe` submits early.

`ktls_demo`: a buffer of three bytes, against messages of two, three and four bytes, in one or two
records, with bytes behind the newline, cut short, or replaced by a bad record; records in two
pieces and room for one in the send buffer, so that every read and write can block in the
middle of a record; two ticks, so that the deadline can pass in any wait. `transport_applications`:
two connections, of two and one payloads, a queue of two (128 in the code) and two
leases at a time, so that the queue and the retention limit are both reached; two threads that
broadcast once each. It ends in a deadlock for TLC when nothing is left to do, hence
CHECK_DEADLOCK FALSE.

**Properties.**

- `AgreesWithGrammar`, `VerdictIsStable`, `IncompleteLeavesRoom`: section 1.
- `ReferencesMatchOperations`: the flags, the references and the operations in
  flight say the same; freed connections have none.
- `CompletionsAreExclusive`: no operation has two last CQEs, or is submitted while it
  is in flight; a CQE with F_MORE is followed by another.
- `BuffersConserved`, `DescriptorsAccounted`: each is in exactly one place.
- `NoStalledConnection`: idle lane, nothing to answer, and input on its way.
- `OneshotInputFits`: the pause threshold is enough for a one-shot receive.
- `WireCarriesReplies`: what is on the wire are the replies to the stream received.
- `DroppedForReason`: what a step may never do. (`ReplyStableWhileSending`,
  `NoReceiveArmedDuringCancel`, `ListenerArmed`, the plaintext workers' `CleanExit` and
  `TypeOK` are proved and no run repeats them.)
- `ImplementsLifetime`: the refinement of `OperationLifetime`.
- `CompletionsAccounted` (TLS): `CompletionsAreExclusive` and `DescriptorsAccounted`.
- `CleanExit` (hybrid): nothing in flight when the ring is freed.
- `NoLostWakeup` (TLS, per variant): a connection nobody drives waits for
  something that will come: when OpenSSL could go on, its poll fires, its send is in flight,
  or its event is on a list that will be read. In the hybrid worker `EpollWatched` is part of
  it: what a batch leaves behind is not forgotten. In the demo: it polls only for what the call
  to be repeated lacks.
- `RetriesRepeat`, `EncryptedInOrder`, `WireInOrder`: what OpenSSL is asked to encrypt, what
  it encrypts, and what the socket gets of it.
- `CiphertextBounded`: the backpressure of tls-bio is enough: beyond the capacity it queues what
  one call of OpenSSL produces, which is a record, or the flights of a handshake that come without
  input between them (`RecordsPerCall`).
- `EventsNameConnections`: no event names a connection that was finished or freed.
- `FinishedForReason`: a connection is finished only when its peer or the
  worker ends, something failed, or close_notify and all before it is with the kernel.
- `StoppingEnds`, `RequestsAnswered`, `ReadersAnswered`, `ClosingConnectionsFreed`: what must happen.
- `ReleasedOnce`, `PassIsEarned`, `FailsForReason`, `Terminates` (demo): section 1.
- `LeasesHeldOnce`, `RepliesInOrder`, `BroadcastReachesPeers`, `LeasesReturned` (examples): section 1.

**Fairness.** In `plaintext_liveness` the thread runs (`ThreadRuns`: its waits time
out after 100 ms); the kernel executes cancels and ends what they found; a send in the kernel
completes or fails. The last is the peer's: TCP does not promise that a peer reads, and
without it a worker does not end, since shutdown cancels receives and not sends
(`main`, lines 470-471). Nothing is assumed of connecting, sending or closing peers.

In `tls_fd_ready` the thread runs (`ThreadRuns`, which is weak fairness of `Thread` written
so that TLC can test it: the thread can always go on until it exits, and its steps are known by
what they change), and the kernel executes cancels and completes polls whose condition holds.
`StoppingEnds` needs no more: `finish` shuts the socket and cancels whatever is in flight, so
that unlike the plaintext workers the TLS workers end even if no peer reads. `ReadersAnswered`
is an implication: if peers read what they are sent, requests are answered. For the other TLS
workers liveness is not checked; `NoLostWakeup`, a state property, says for each that whatever
it waits for comes, and `ReferencesMatchOperations` or `EpollWatched` that the worker knows of it.

In `ktls_demo` the program runs and time passes; nothing is assumed of the peer or of
OpenSSL. In `transport_applications` the processor's thread runs and its handler
returns, a callback that has begun ends, and the engine completes the writes it accepted; no
peer has to send or close and nobody to dispose the application.

## 5. The proofs

`HttpFramingProofs` proves, for every capacity and limit with the assumption
`FramingAssumption`: the digit guard rejects exactly what would pass the capacity
and never wraps (`DigitGuardIsExact`); a verdict on a prefix is the verdict on the
whole (`FragmentationIndependence`); a complete request lies within the input, an
incomplete one leaves room (`ParseRequestResult`). From these it derives
`VerdictIsStable` and `IncompleteLeavesRoom`.

`AcceptsTheGrammar` is the other property of `HttpFramingCheck`: `parse_request` accepts what the grammar
accepts and nothing else. Its two loops are folds. `FoldsExists` makes a fold explicit as the
function that gives its value after every prefix (the induction is over a set of numbers,
`NatSetInduction`, and needs no operator as parameter); what a loop has found after each line or digit is then an
invariant over prefixes. For the digits, the value is the number so far and no prefix has passed
the capacity (`ContentLengthIsExact`: the guard in front of every digit, which only ever
compares with a division, accepts exactly the numbers up to `INPUT_CAPACITY`). For the fields, what is
collected is what is among the fields so far (`CollectedOneMore`), wherever they stand and
however often. `AlphabetAssumption` says of the lines that they are lines, and of a blank line that it
is only its CRLF; TLC checks it in `http_framing`.

For the workers it proves that `Answered`, which
recurs along a stream, satisfies its own equation (`AnsweredRecursion`: a function over a finite
interval in which each value depends on later ones; the same induction), and what follows from it for one who
reads the stream request by request: `Consumed(s, i, replies)` says that whatever comes after `s`, its
first `i - 1` lines are requests that call for `replies`, and each parsed request extends it
(`RequestConsumed`); `Dialogue` adds the reply after which a worker takes no more, and
`DialogueAllowed` that such replies are those of the grammar.

`PlaintextWorkerProofs` proves every safety property above, for every number of descriptors, buffers, queue entries and
arrivals, both kinds of receive, every script and every environment.
The assumptions are those of `WorkerAssumption`, which TLC checks in each run.

*The invariant* (`IInv`). `ReferencesMatchOperations` is not inductive: it depends on
`CompletionsAreExclusive` (a second last CQE would release twice), on what kinds of
CQEs exist (`CqesWellFormed`: only accepts and receives have F_MORE or are cancelled),
on sends that have something left to send (`SendsBounded`) and on the cancelled operations
being in flight (`DoomedInKernel`). `CleanExit` follows when main leaves the loop because the
flags it tests are then equivalent to there being operations in flight; for buffers and
descriptors it needs `BuffersConserved` and `DescriptorsAccounted`. `NothingUnanswered`,
`AcceptArmed` and `ShutdownOnce` complete it.

*The functions.* `drive_connection` and the functions under it work on a context. `Good(d,
ended, held)` says that the connection of a context agrees with its operations, when
`ended` have a last CQE queued and `held` references are about to be released;
`Extends(d, e, ended)` that from `d` to `e` only operations of this connection were
added, no send in flight was touched and no receive overtook a cancel. Each
function has a lemma that it leads from good contexts to good ones that extend them
(`SubmitReceiveGood` ... `DriveGood`).

*The completions.* `ContextGood` gets the first context from the invariant and the
oldest CQE. Receive, send and cancel completions all have the form `Completion`, and
`CompletionIsSafe` draws from it the invariant and the three step properties. The listener's
completions share `ListenerIsSafe`, main's steps `MainIsSafe` and the kernel's
CQEs `CqePosted`. `NextIsSafe` puts them together; `BookkeepingAgrees` is `Spec => []IInv`.

*The input of oneshot* (`PipelinedInputFits`). `RoomInv` adds to `IInv` that a receive in
flight while a reply is sent has at least half of the input free (`Roomy`) and that a one-shot
receive queues one CQE, of one buffer at most (`OneBuffer`). A receive is not armed above half
while a reply is sent; one armed before could only meet a reply if the input held a complete
request, and then the reply would have been sent first (`NothingUnanswered`). Its hypotheses
are that receives are one-shot and that a buffer is at most half of the input (4096 and
65536 bytes in `oneshot/server.c`).

*The replies* (`RepliesFollowRequests`, the property `WireCarriesReplies`). `WireInv` tells the
dialogue with each peer (`Told`): there are replies, in a `Dialogue` with the lines
the peer sent, that are the units on its wire (`OnWire`), all of them or all but what is left of the
one being sent (`SendLane`: a send in the queue or the kernel continues where the wire ends, one with
its CQE queued has put its units there already). And unless the connection fails, closes or the
worker stops, the worker took the requests it replied to, and the lines that follow are its
input and then, in order, the data of the receive CQEs (`ReceiveLane`, `Feeds`); so the input
begins where a request begins. The rest makes it inductive: a worker that read the end
of a stream reads no more (`ConnectionsHushed`), so that "incomplete" then means for ever; the CQE with
that end is the last of its receive and comes when the peer has closed (`EofsSeen`); and a peer
not accepted yet has sent nothing that was read (`NewPeersSilent`), because its descriptor may have been
another connection's. That a completion, a drive and an effect of the kernel continue the
dialogue is shown function by function (`StartResponseTells` ... `NextTells`). `Told` quantifies over all
sequences of replies, so TLC checked the other parts and the property.

*The refinement.* `FreedWithTheLastOperation` is `Spec => ImplementsLifetime`. A connection is
live exactly while an operation of its is outstanding (`AliveWhileOutstanding`, from the
references), and `Safe`, which every step is shown to satisfy, says what became of
outstanding operations: a step of a connection touches no other (`Others`), a completion ends one
and begins what its drive prepared (`OperationEnds`, `ConnectionBegins`), main's steps
begin cancels of what is live (`OperationsBegin`). `StepIsLifetimeStep` turns each into a step of
`OperationLifetime` or a stutter.

`KtlsDemoProofs` proves every safety property of the demo for any scripts, capacity, deadline
and record sizes. The invariant for the first (`IInv`) says who owns what at each position: until
the BIOs are attached main's variables name exactly the live objects; after it, the filter and the
socket BIO are live and named by nobody but the SSL's chain. The cleanup's releases, applied to
such a heap, leave nothing live and nothing corrupt (`CleanupOwned`); every other action keeps the
invariant. For the second (`WaitInv`), a loop that waits for input was reading, and one that waits
for output has a write to repeat and repeats it as it was (`WaitsOk`). That holds because the
filter reports the direction it was called for exactly when that blocks (`FilterReports`), whatever
flags an earlier call left, and because OpenSSL takes no more than has arrived (`SessionOk`).
`PassIsEarned` and `FailsForReason` need the way of the message (`TalkInv`). What the
buffer holds and then what OpenSSL has decrypted are the bytes of the records taken
(`Received`), all of which came through the layer the mode asks for (`ReadingOk`); a record is taken with
the piece that completes it, and with no other (`RecordTaken`). What was sent carries no bytes of the
application until the message is complete, and then in one record (`Silent`, `Echoed`, `BytesOfOne`); a write
that blocked is repeated as it was, so no retry is refused (`RetryOk`). The
peer's flights come in their places or are refused (`HandshakeOk`), so a refused record is one the
peer may not send (`ReadRefusedTalk`), and offload of reading is decided before the gate looks
at it. `DemoAssumption` says of a script that its flights come in order and carry no bytes, and calls
any record in another's place "bad".

`TransportApplicationsProofs` proves `LeasesHeldOnce`, `RepliesInOrder` and
`BroadcastReachesPeers` for any number of connections, payloads and threads, any queue capacity
and retention limit. `Owned` says the first without counting: a
lease is held exactly while it is with a callback, queued, processed or lent, and in one of these
places only. To be inductive it needs that leases are numbered as payloads arrive, so that the
next one is new (`HeldArrived`), that a request is its own connection's and the
processor has one exactly while it works (`RequestsPlaced`), and that a write is lent leases of its
connection only (in `Types`). For broadcasts, `PushInv` says
of each thread that it holds the lock of the peer it writes to, and that every peer of its snapshot
it is done with was written to or is marked closed (`ThreadOk`), which OnClosed does before it
returns (`ClosedMarked`). For replies, `OrderInv` sees the processor's request, the queue and
what a callback offers as one line (`Line`): its requests are in the order of their payloads, behind
what was submitted, and one that completes its connection is the last (`InOrder`); no payload is
missing from both unless the connection was aborted (`Covered`); and the replies submitted are then
1, 2, 3 and so on, with the shutdown last (`Replied`). The assumption on the constants adds to its bounds
that `NONE` is no request and that a thread that broadcasts is no number.

`TlsFdProofs` proves `ReferencesMatchOperations`, `CompletionsAccounted`, `CleanExit` and
`NoLostWakeup` for tls-fd, tls-fd-ring, tls-fd-ahead, tls-fd-read and tls-fd-ready;
`TlsFdHybridProofs` proves them and `EventsNameConnections` for tls-fd-hybrid: for every number of
descriptors and queue entries, every script, handshake, record size and environment. `TlsBioProofs` proves the four for tls-bio,
with `WireInOrder` and `CiphertextBounded`, for every capacity of its buffers too. All three prove
`EncryptedInOrder`, what a client of theirs relies on. The assumptions are
`WorkerAssumption`, `EngineAssumption` and `WireAssumption`, which TLC checks in the runs
of the modules that declare or extend them; that a handshake has at most
`MaxFlights` flights lets `DoHandshake` be written without recursion.

*The shared invariant* (`CoreInv` in `TlsWorkerProofs`). An operation is in the submission queue,
in the kernel, or has its last CQE queued, and in one of these only (`QueuesOk`, `CqWellFormed`).
The flags of a connection say which of its operations are outstanding, and its
references count them, the owner and the completion being driven (`ConnectionsOk`, from
`Accounts`); a connection that was freed has none, so that a descriptor can be used again
(`OthersOk`). The listener's flags say what it has outstanding (`ListenerOk`), `drive` runs for a
live connection (`TaskOk`), each open descriptor is a connection's or in one CQE
(`DescriptorsOk`), and OpenSSL has taken no more than has arrived (`SocketsOk`). None of this is
inductive without the rest: a second CQE would release twice, a stale flag would free
under an operation, an operation of a freed connection would complete on the next one of that descriptor.

*The argument.* Lemmas about the engine say what each call leaves behind (`DoHandshakeResult`,
`SslReadResult`, and the same for writing and shutting down): a call that returns want_read has taken
everything that arrived and found no record in it, one that returns want_write has unwritten
output and a full socket. `TurnResult` lifts this to an iteration of `drive`. `finish`, `release`,
`get_sqe` and the submit functions each lead from a context that agrees with its operations to
one that does (`Good`, `Grows`), and each step of the skeleton then keeps `CoreInv`. The three
modules above it add what is theirs:

- `FdInv` adds that a connection nobody drives has a poll for what OpenSSL lacks
  (`WaitsOk`: `NeedsInput`, `NeedsOutput`), that nothing of the epoll descriptor is ever in flight, and
  that main ends only when `Draining` is over. `NoLostWakeup` follows because what OpenSSL lacks is
  exactly what the poll waits for, also when read-ahead leaves records decrypted: a connection waits
  only with nothing decrypted that parses to a request.
- `HybridInv` adds that no operation of a connection is ever prepared (`IdleOk`), that the epoll
  descriptor is polled unless a batch is being driven or the worker stops (`EpollOk`,
  `DeliveryOk`), that events name registered connections (`EventsOk`), and that a connection is
  driven, in the batch, or registered for what it lacks with its edge on the ready list if that
  has come (`WaitsOk`). The last is where edges could be lost: a registration is changed only
  when what is waited for changes, so `wait_for_io` may leave it alone, and no edge is due
  then because OpenSSL had found nothing when it was asked. `EventsNameConnections` needs that
  `drive` frees only its own connection, which is no longer in the batch, and that closing its
  descriptor takes it off the ready list.
- `BioInv` adds where the ciphertext is. `Staging`: the wire holds the units up to what the worker
  knows to be sent, and those of a send whose CQE is queued; what is left of wire_output belongs
  to a send, so that the kernel, which reads the buffer when it executes the send and not when
  it was prepared, takes the unit that comes next (`WireExtended`). Hence `WireInOrder`. `Bounded`
  says that no more is staged than was produced and gives `CiphertextBounded`: `drive`
  calls OpenSSL only while the BIO holds no more than the capacity (`TurnProduces` bounds what a call
  adds). `Feeding`: OpenSSL has taken no more than was fed, and what was fed
  or is in a queued CQE has arrived. `Parked` is for `NoLostWakeup`: held back by
  ciphertext or by close_notify there is a send, and otherwise a receive, all input fed was taken, and the end of
  the stream is not known yet. It needs that the write BIO takes everything
  (`Whole`), so that OpenSSL never asks to write.

*The dialogue* (`DialogueAlwaysInOrder`, `HybridDialogueInOrder`, `BioDialogueInOrder`, the property
`EncryptedInOrder`). `PeersTold` adds to each of these invariants, for every connection, what it and its
OpenSSL have said and heard (`Told`). The records produced are flights, then replies, then at most
one close_notify (`Encrypts`); the replies are in a `Dialogue` with the lines heard, which
are those of the records that OpenSSL has taken; and these lines are the requests consumed, then the
connection's input, then what is still decrypted (`Takes`, `Follows`). What makes it inductive is
the middle of a step: a reply that is being written counts as said once OpenSSL has begun its record
(`Begun`), so a write that is repeated must be of the same reply and not of the next; and close_notify
is produced only in the phases that follow the last reply. `IterationTold` shows that one iteration of `drive` keeps `Told`, with the lemmas of
`HttpFramingProofs` for what `TryStartResponse` consumes; everything else a worker does leaves what
is spoken of alone (`SameTalk`), but for `start_accept`'s new connection, which has said nothing. The
lines of a sequence of records are a fold, whose recursion is made explicit (`Collects`) for
the step that takes one more record.

*Whose turn it is* (`RetriesAlwaysRepeat`, `FinishesForReason` in `TlsFdProofs` and, for tls-fd-hybrid,
`HybridRetriesRepeat`, `HybridFinishesForReason`). These hold for peers that follow the protocol, which is
their hypothesis: `OrderlyPeers` says that a script has the flights of the handshake first and then
data, and may end its stream anywhere. (A peer that sends data in place of a flight makes
`SSL_do_handshake` or `SSL_read_ex` fail and is finished for that, a reason the two properties do not list.)
`MCTlsFd` and `MCTlsFdHybrid` assert it of their scripts, of which some end inside the handshake or
inside a request. `TurnsOk` adds to the invariant what OpenSSL has begun
in each phase (`InTurn`): a handshake in progress has consumed as many flights as its steps read and
repeats a flight only in the step that writes it; whoever reads has nothing to repeat, whoever
writes has its own reply or nothing; close_notify, once begun, is the last of what was
encrypted, and all of it is written when the connection drains. It is inductive because a call
that blocks leaves the phase as it was, and between two calls only a connection that reads, which has nothing
to repeat, changes its phase or its reply;
counting the flights (`FlightsCounted`, `NextInOrder`) is needed to know that the record OpenSSL takes
next is of the kind it asks for. `IterationInTurn` shows it for an iteration of `drive`, with the one
excuse a failed call has (`Excused`): the peer left, or close_notify is to be sent in the middle
of a handshake. `RetriesRepeat` follows. `FinishedForReason` also needs that the CQE that ends a
connection's poll early is an error of the operation: `CancelsDue` says that a poll is cancelled, or about to be,
only for a connection that `finish` has seen.

*Only model-checked.* Liveness (out of the prover's reach, as is ENABLED). `TlsFdPoll`,
whose multishot poll has CQEs followed by others, which in `CoreInv` only the
listener has.

## 6. Observations

- `LeasesReturned` says "unless the processor faulted". `DispatchedReceive`'s processor does not
  catch what `Send` or `ShutdownWrite` throw for a connection that ended while its request was
  queued (`DispatchedReceive.cs:72`, `:77`); `ServerPush` does (`ServerPushApplication.cs:63`).
  The exception ends the processor: the leases still queued are never disposed, no other
  connection is answered, and `DisposeAsync` rethrows it.
- `ServerPeer` holds its lock across `Send`, so OnClosed waits for a broadcast that is writing to
  the same peer; this is what makes `BroadcastReachesPeers` true.
- A plaintext worker ends only if the peers of its sends in flight read or go: shutdown cancels
  receives and not sends (section 4, fairness).

## 7. Not modelled

The launchers: what they do depends on when bash runs a trap between two commands and on how
`wait` treats a signal, so a model would be one of the shell and not of these scripts. The
design documents; `validation/` (shapes of an API, no behaviour); the examples that only
configure a provider; the load and set-up scripts (straight-line process control).
Section 2 lists what is left of the plan.
