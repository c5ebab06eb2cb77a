----------------------- MODULE PlaintextWorkerProofs ------------------------
(***************************************************************************)
(* Safety of the plaintext worker for any number of descriptors, buffers,  *)
(* queue entries and arrivals, any scripts and any environment.            *)
(***************************************************************************)
EXTENDS PlaintextWorker, HttpFramingProofs

-----------------------------------------------------------------------------
(* The inductive invariant.                                                *)

\* What kinds of CQEs the kernel posts.
CqesWellFormed ==
    \A i \in DOMAIN cq :
        /\ cq[i].more => cq[i].op[1] \in {"accept", "receive"}
        /\ cq[i].fd # NULL <=> cq[i].op = AcceptOperation /\ cq[i].res = "ok"
        /\ cq[i].buffer # NULL => cq[i].op[1] = "receive"
        /\ cq[i].res = "canceled" => cq[i].op[1] \in {"accept", "receive"}
        /\ cq[i].res = "eof" => cq[i].op[1] = "receive"

\* A send in progress has something left to send, and no CQE reports more
\* than was asked for.
SendsBounded ==
    \A c \in Fds :
        /\ conn[c].sent <= ReplyLength
        /\ Send(c) \in sq \cup kernel => conn[c].sent < ReplyLength
        /\ \A i \in DOMAIN cq : cq[i].op = Send(c) => conn[c].sent + cq[i].count <= ReplyLength

DoomedInKernel ==
    /\ doomed \subseteq kernel
    /\ \A op \in doomed : op[1] \in {"accept", "receive"}

\* The connection has nothing it could answer now.
Settled(k) == \/ k.sending \/ k.failed \/ k.close_after_send
              \/ k.input = <<>> \/ Parsed(k).verdict = "incomplete"

NothingUnanswered == ~stopping => \A c \in connections : Settled(conn[c])

AcceptArmed == ~stopping => accept_active

ShutdownOnce == accept_cancel_active => shutdown_started

IInv ==
    /\ TypeOK
    /\ CqesWellFormed
    /\ SendsBounded
    /\ DoomedInKernel
    /\ CompletionsAreExclusive
    /\ ReferencesMatchOperations
    /\ DescriptorsAccounted
    /\ BuffersConserved
    /\ CleanExit
    /\ NothingUnanswered
    /\ AcceptArmed
    /\ ShutdownOnce

-----------------------------------------------------------------------------
(* Operations are told apart by their kind and their connection.           *)

LEMMA OperationNames ==
    /\ AcceptOperation \in Operations /\ AcceptCancel \in Operations
    /\ AcceptOperation # AcceptCancel
    /\ AcceptOperation[1] = "accept" /\ AcceptCancel[1] = "cancel"
    /\ \A c \in Fds :
          /\ Receive(c) \in Operations /\ Send(c) \in Operations /\ Cancel(c) \in Operations
          /\ Receive(c)[1] = "receive" /\ Send(c)[1] = "send" /\ Cancel(c)[1] = "cancel"
          /\ Receive(c) # Send(c) /\ Receive(c) # Cancel(c) /\ Send(c) # Cancel(c)
          /\ {Receive(c), Send(c), Cancel(c)} \cap {AcceptOperation, AcceptCancel} = {}
    /\ \A b, c \in Fds : b # c =>
          {Receive(b), Send(b), Cancel(b)} \cap {Receive(c), Send(c), Cancel(c)} = {}
    /\ \A op \in Operations :
          op \in {AcceptOperation, AcceptCancel}
              \/ \E c \in Fds : op \in {Receive(c), Send(c), Cancel(c)}
  BY WorkerAssumption
     DEF Operations, AcceptOperation, AcceptCancel, Receive, Send, Cancel

\* The target of a cancel.
LEMMA Targets ==
    /\ TargetOf(AcceptCancel) = AcceptOperation
    /\ \A c \in Fds : TargetOf(Cancel(c)) = Receive(c)
    /\ Cancels = {Cancel(c) : c \in Fds} \cup {AcceptCancel}
    /\ \A op \in Cancels : op \in Operations /\ TargetOf(op) \in Operations
  BY WorkerAssumption
     DEF TargetOf, Cancels, Operations, AcceptOperation, AcceptCancel, Receive, Cancel

-----------------------------------------------------------------------------
(* The functions a completion calls, on one connection.                    *)

Contexts == [fd : Fds, k : Connection, sq : SUBSET Operations, kernel : SUBSET Operations]

\* The operations outstanding when those of `ended' have a last CQE queued.
Live(d, ended) == d.sq \cup d.kernel \cup ended

Queues(d, ended) ==
    /\ d \in Contexts
    /\ d.sq \cap d.kernel = {}
    /\ ended \cap (d.sq \cup d.kernel) = {}

\* The connection agrees with its operations; held counts the reference that
\* the completion in progress still has to release.
Good(d, ended, held) ==
    /\ Queues(d, ended)
    /\ d.k.references = Count(Receive(d.fd) \in Live(d, ended)) + Count(Send(d.fd) \in Live(d, ended))
                        + Count(Cancel(d.fd) \in Live(d, ended)) + held
    /\ d.k.receive_active <=> Receive(d.fd) \in Live(d, ended)
    /\ d.k.cancel_pending <=> Cancel(d.fd) \in Live(d, ended)
    /\ d.k.sending /\ ~d.k.failed => Send(d.fd) \in Live(d, ended)
    /\ Send(d.fd) \in Live(d, ended) => d.k.sending
    /\ d.k.sent <= ReplyLength
    /\ Send(d.fd) \in d.sq \cup d.kernel => d.k.sent < ReplyLength

\* From d to e operations of the connection were submitted and nothing else; a
\* reply being sent was left alone, and no receive overtook a cancel.
Extends(d, e, ended) ==
    /\ e.fd = d.fd
    /\ d.kernel \subseteq e.kernel
    /\ d.sq \cup d.kernel \subseteq e.sq \cup e.kernel
    /\ e.sq \cup e.kernel
           \subseteq d.sq \cup d.kernel \cup {Receive(d.fd), Send(d.fd), Cancel(d.fd)}
    /\ Send(d.fd) \in Live(d, ended) => e.k.sent = d.k.sent /\ e.k.output = d.k.output
    /\ Receive(d.fd) \in Live(e, ended)
           => Receive(d.fd) \in Live(d, ended) \/ Cancel(d.fd) \notin Live(e, ended)

LEMMA GetSqeAdds ==
    ASSUME NEW d, NEW ended, NEW op \in Operations, Queues(d, ended), op \notin Live(d, ended)
    PROVE  LET e == GetSqe(d, op)
           IN /\ Queues(e, ended) /\ e.fd = d.fd /\ e.k = d.k
              /\ d.kernel \subseteq e.kernel
              /\ e.sq \cup e.kernel = (d.sq \cup d.kernel) \cup {op}
  <1>1. CASE Cardinality(d.sq) < QueueDepth
    BY <1>1 DEF GetSqe, Queues, Live, Contexts
  <1>2. CASE ~(Cardinality(d.sq) < QueueDepth)
    BY <1>2 DEF GetSqe, Queues, Live, Contexts
  <1>3. QED
    BY <1>1, <1>2

LEMMA ExtendsReflexive ==
    ASSUME NEW d, NEW ended PROVE Extends(d, d, ended)
  BY DEF Extends

LEMMA ExtendsTransitive ==
    ASSUME NEW d, NEW e, NEW f, NEW ended,
           Extends(d, e, ended), Extends(e, f, ended),
           Receive(d.fd) \in Live(e, ended) => Receive(d.fd) \in Live(d, ended)
    PROVE  Extends(d, f, ended)
  <1>1. d.sq \cup d.kernel \subseteq e.sq \cup e.kernel /\ e.fd = d.fd
    BY DEF Extends
  <1>2. Send(d.fd) \in Live(d, ended) => Send(e.fd) \in Live(e, ended)
    BY <1>1 DEF Live
  <1>3. QED
    BY <1>1, <1>2 DEF Extends

LEMMA WithConnection ==
    ASSUME NEW d \in Contexts, NEW k \in Connection
    PROVE  LET e == [d EXCEPT !.k = k]
           IN /\ e \in Contexts /\ e.k = k
              /\ e.fd = d.fd /\ e.sq = d.sq /\ e.kernel = d.kernel
  BY DEF Contexts

\* The fields an operation leaves alone.
SameInput(k, j) == /\ j.close_after_send = k.close_after_send /\ j.read_eof = k.read_eof
                   /\ j.failed = k.failed /\ j.sending = k.sending /\ j.sent = k.sent
                   /\ j.output = k.output /\ j.input = k.input

LEMMA ArmedConnection ==
    ASSUME NEW k \in Connection
    PROVE  LET j == [k EXCEPT !.receive_active = TRUE, !.references = @ + 1]
           IN /\ j \in Connection /\ SameInput(k, j)
              /\ j.receive_active /\ j.references = k.references + 1
              /\ j.cancel_pending = k.cancel_pending
  <1>1. ASSUME NEW n \in Nat
        PROVE  LET j == [k EXCEPT !.receive_active = TRUE, !.references = n]
               IN /\ j \in Connection /\ SameInput(k, j)
                  /\ j.receive_active /\ j.references = n /\ j.cancel_pending = k.cancel_pending
    BY DEF Connection, SameInput
  <1>2. k.references + 1 \in Nat
    BY DEF Connection
  <1>3. QED
    BY <1>1, <1>2

LEMMA CancellingConnection ==
    ASSUME NEW k \in Connection
    PROVE  LET j == [k EXCEPT !.cancel_pending = TRUE, !.references = @ + 1]
           IN /\ j \in Connection /\ SameInput(k, j)
              /\ j.cancel_pending /\ j.references = k.references + 1
              /\ j.receive_active = k.receive_active
  <1>1. ASSUME NEW n \in Nat
        PROVE  LET j == [k EXCEPT !.cancel_pending = TRUE, !.references = n]
               IN /\ j \in Connection /\ SameInput(k, j)
                  /\ j.cancel_pending /\ j.references = n /\ j.receive_active = k.receive_active
    BY DEF Connection, SameInput
  <1>2. k.references + 1 \in Nat
    BY DEF Connection
  <1>3. QED
    BY <1>1, <1>2

LEMMA SubmitReceiveGood ==
    ASSUME NEW d, NEW ended, NEW held \in Nat, Good(d, ended, held),
           ~d.k.receive_active, ~d.k.cancel_pending
    PROVE  LET e == SubmitReceive(d)
           IN /\ Good(e, ended, held) /\ Extends(d, e, ended)
              /\ e.k = [d.k EXCEPT !.receive_active = TRUE, !.references = @ + 1]
  <1> DEFINE g == GetSqe(d, Receive(d.fd))
             e == SubmitReceive(d)
  <1>1. d \in Contexts /\ d.fd \in Fds /\ d.k \in Connection
    BY DEF Good, Queues, Contexts
  <1>2. Receive(d.fd) \in Operations /\ Receive(d.fd) \notin Live(d, ended)
    BY <1>1, OperationNames DEF Good
  <1>3. /\ Queues(g, ended) /\ g.fd = d.fd /\ g.k = d.k
        /\ d.kernel \subseteq g.kernel
        /\ g.sq \cup g.kernel = (d.sq \cup d.kernel) \cup {Receive(d.fd)}
    BY <1>2, GetSqeAdds DEF Good
  <1> DEFINE j == [d.k EXCEPT !.receive_active = TRUE, !.references = @ + 1]
  <1>4. /\ j \in Connection /\ SameInput(d.k, j)
        /\ j.receive_active /\ j.references = d.k.references + 1
        /\ j.cancel_pending = d.k.cancel_pending
    BY <1>1, ArmedConnection
  <1>5. /\ e \in Contexts /\ e.k = j
        /\ e.fd = d.fd /\ e.sq = g.sq /\ e.kernel = g.kernel
    BY <1>3, <1>4, WithConnection DEF SubmitReceive, Queues
  <1> HIDE DEF g, e, j
  <1>6. Live(e, ended) = Live(d, ended) \cup {Receive(d.fd)}
    BY <1>3, <1>5 DEF Live
  <1>7. Good(e, ended, held)
    BY <1>1, <1>2, <1>3, <1>4, <1>5, <1>6, OperationNames DEF Good, Queues, Count, Connection, SameInput
  <1>8. Extends(d, e, ended)
    BY <1>1, <1>2, <1>3, <1>4, <1>5, <1>6, OperationNames DEF Extends, Live, Good, SameInput
  <1>9. QED
    BY <1>5, <1>7, <1>8 DEF e, j

LEMMA CancelReceiveGood ==
    ASSUME NEW d, NEW ended, NEW held \in Nat, Good(d, ended, held)
    PROVE  LET e == CancelReceive(d)
           IN Good(e, ended, held) /\ Extends(d, e, ended) /\ SameInput(d.k, e.k)
  <1> DEFINE e == CancelReceive(d)
             g == GetSqe(d, Cancel(d.fd))
             j == [d.k EXCEPT !.cancel_pending = TRUE, !.references = @ + 1]
  <1>1. d \in Contexts /\ d.fd \in Fds /\ d.k \in Connection
    BY DEF Good, Queues, Contexts
  <1>2. CASE ~d.k.receive_active \/ d.k.cancel_pending
    <2>1. e = d
      BY <1>2 DEF CancelReceive
    <2>2. QED
      BY <2>1, ExtendsReflexive DEF SameInput
  <1>3. CASE d.k.receive_active /\ ~d.k.cancel_pending
    <2>1. Cancel(d.fd) \in Operations /\ Cancel(d.fd) \notin Live(d, ended)
      BY <1>1, <1>3, OperationNames DEF Good
    <2>2. /\ Queues(g, ended) /\ g.fd = d.fd /\ g.k = d.k
          /\ d.kernel \subseteq g.kernel
          /\ g.sq \cup g.kernel = (d.sq \cup d.kernel) \cup {Cancel(d.fd)}
      BY <2>1, GetSqeAdds DEF Good
    <2>3. /\ j \in Connection /\ SameInput(d.k, j)
          /\ j.cancel_pending /\ j.references = d.k.references + 1
          /\ j.receive_active = d.k.receive_active
      BY <1>1, CancellingConnection
    <2>4. /\ e \in Contexts /\ e.k = j
          /\ e.fd = d.fd /\ e.sq = g.sq /\ e.kernel = g.kernel
      BY <1>3, <2>2, <2>3, WithConnection DEF CancelReceive, Queues
    <2> HIDE DEF g, e, j
    <2>5. Live(e, ended) = Live(d, ended) \cup {Cancel(d.fd)}
      BY <2>2, <2>4 DEF Live
    <2>6. Good(e, ended, held)
      <3>1. /\ Cancel(d.fd) \in Live(e, ended)
            /\ Receive(d.fd) \in Live(e, ended) <=> Receive(d.fd) \in Live(d, ended)
            /\ Send(d.fd) \in Live(e, ended) <=> Send(d.fd) \in Live(d, ended)
            /\ Send(d.fd) \in e.sq \cup e.kernel <=> Send(d.fd) \in d.sq \cup d.kernel
        BY <1>1, <2>2, <2>4, <2>5, OperationNames
      <3>2. Queues(e, ended)
        BY <2>2, <2>4 DEF Queues
      <3>3. e.k.references = Count(Receive(d.fd) \in Live(e, ended)) + Count(Send(d.fd) \in Live(e, ended))
                             + Count(Cancel(d.fd) \in Live(e, ended)) + held
        BY <2>1, <2>3, <2>4, <3>1 DEF Good, Count
      <3>4. QED
        BY <1>3, <2>3, <2>4, <3>1, <3>2, <3>3 DEF Good, SameInput
    <2>7. Extends(d, e, ended)
      BY <1>1, <2>1, <2>2, <2>3, <2>4, <2>5, OperationNames DEF Extends, Live, SameInput
    <2>8. QED
      BY <2>3, <2>4, <2>6, <2>7 DEF e
  <1>4. QED
    BY <1>2, <1>3

\* A send is submitted for a connection that was given something to send.
LEMMA SubmitSendGood ==
    ASSUME NEW d, NEW ended, NEW held \in Nat, Good(d, ended, held),
           Send(d.fd) \notin Live(d, ended),
           NEW k \in Connection, k.references = d.k.references,
           k.receive_active = d.k.receive_active, k.cancel_pending = d.k.cancel_pending,
           k.sending, k.sent < ReplyLength
    PROVE  LET e == SubmitSend([d EXCEPT !.k = k])
           IN /\ Good(e, ended, held) /\ Extends(d, e, ended) /\ SameInput(k, e.k)
              /\ Receive(d.fd) \in Live(e, ended) => Receive(d.fd) \in Live(d, ended)
  <1> DEFINE f == [d EXCEPT !.k = k]
             e == SubmitSend(f)
             g == GetSqe(f, Send(f.fd))
             j == [k EXCEPT !.references = @ + 1]
  <1>1. d \in Contexts /\ d.fd \in Fds
    BY DEF Good, Queues, Contexts
  <1>2. /\ f \in Contexts /\ f.k = k
        /\ f.fd = d.fd /\ f.sq = d.sq /\ f.kernel = d.kernel
    BY <1>1, WithConnection
  <1>3. Queues(f, ended) /\ Send(f.fd) \in Operations /\ Send(f.fd) \notin Live(f, ended)
    BY <1>1, <1>2, OperationNames DEF Good, Queues, Live
  <1>4. /\ Queues(g, ended) /\ g.fd = f.fd /\ g.k = f.k
        /\ f.kernel \subseteq g.kernel
        /\ g.sq \cup g.kernel = (f.sq \cup f.kernel) \cup {Send(f.fd)}
    BY <1>3, GetSqeAdds
  <1>5. /\ j \in Connection /\ SameInput(k, j) /\ j.references = k.references + 1
        /\ j.receive_active = k.receive_active /\ j.cancel_pending = k.cancel_pending
    <2>1. ASSUME NEW n \in Nat
          PROVE  LET i == [k EXCEPT !.references = n]
                 IN /\ i \in Connection /\ SameInput(k, i) /\ i.references = n
                    /\ i.receive_active = k.receive_active
                    /\ i.cancel_pending = k.cancel_pending
      BY DEF Connection, SameInput
    <2>2. k.references + 1 \in Nat
      BY DEF Connection
    <2>3. QED
      BY <2>1, <2>2
  <1>6. /\ e \in Contexts /\ e.k = j
        /\ e.fd = d.fd /\ e.sq = g.sq /\ e.kernel = g.kernel
    BY <1>2, <1>4, <1>5, WithConnection DEF SubmitSend, Queues
  <1> HIDE DEF f, g, e, j
  <1>7. Live(e, ended) = Live(d, ended) \cup {Send(d.fd)}
    BY <1>2, <1>4, <1>6 DEF Live
  <1>8. Good(e, ended, held)
    <2>1. /\ Send(d.fd) \in Live(e, ended)
          /\ Receive(d.fd) \in Live(e, ended) <=> Receive(d.fd) \in Live(d, ended)
          /\ Cancel(d.fd) \in Live(e, ended) <=> Cancel(d.fd) \in Live(d, ended)
      BY <1>1, <1>7, OperationNames
    <2>2. Queues(e, ended)
      BY <1>4, <1>6 DEF Queues
    <2>3. e.k.references = Count(Receive(d.fd) \in Live(e, ended)) + Count(Send(d.fd) \in Live(e, ended))
                           + Count(Cancel(d.fd) \in Live(e, ended)) + held
      BY <1>5, <1>6, <2>1 DEF Good, Count
    <2>4. e.k.sent < ReplyLength /\ e.k.sent <= ReplyLength
      BY <1>5, <1>6, WorkerAssumption DEF SameInput, Connection
    <2>5. QED
      BY <1>5, <1>6, <2>1, <2>2, <2>3, <2>4 DEF Good, SameInput
  <1>9. Extends(d, e, ended)
    BY <1>1, <1>2, <1>3, <1>4, <1>5, <1>6, <1>7, OperationNames DEF Extends, Live
  <1>10. Receive(d.fd) \in Live(e, ended) => Receive(d.fd) \in Live(d, ended)
    BY <1>1, <1>7, OperationNames
  <1>11. QED
    BY <1>5, <1>6, <1>8, <1>9, <1>10 DEF e, f

-----------------------------------------------------------------------------
(* drive_connection.                                                       *)

LEMMA ParsedResult ==
    ASSUME NEW k \in Connection
    PROVE  LET r == Parsed(k)
           IN /\ r.verdict \in Verdicts
              /\ r.close_after \in BOOLEAN /\ r.http10 \in BOOLEAN
              /\ r.verdict = "complete" => r.length \in 2..Len(k.input)
  <1>1. k.input \in Seq(Line)
    BY DEF Connection
  <1>2. LET r == ParseRequest(k.input)
        IN /\ r.verdict \in Verdicts
           /\ r.close_after \in BOOLEAN /\ r.http10 \in BOOLEAN
           /\ r.verdict = "complete" => r.length \in 2..Len(k.input)
    BY <1>1, ParseRequestResult
  <1>3. QED
    BY <1>2 DEF Parsed, AtEndOfStream, Rejected, Result, Verdicts

LEMMA ParsedSame ==
    ASSUME NEW k, NEW j, SameInput(k, j) PROVE Parsed(j) = Parsed(k)
  BY DEF SameInput, Parsed, AtEndOfStream

LEMMA StartResponseGood ==
    ASSUME NEW d, NEW ended, NEW held \in Nat, Good(d, ended, held),
           ~d.k.sending, Parsed(d.k).verdict # "incomplete"
    PROVE  LET e == StartResponse(d)
           IN /\ Good(e, ended, held) /\ Extends(d, e, ended)
              /\ e.k.sending /\ e.k.failed = d.k.failed
              /\ Receive(d.fd) \in Live(e, ended) => Receive(d.fd) \in Live(d, ended)
  <1> DEFINE parsed == Parsed(d.k)
             rejected == parsed.verdict = "reject"
             rest == IF rejected THEN <<>> ELSE SubSeq(d.k.input, parsed.length + 1, Len(d.k.input))
             close == rejected \/ parsed.close_after \/ (d.k.read_eof /\ rest = <<>>)
             reply == IF rejected THEN "bad_request" ELSE Response(parsed.http10, close)
             k == [d.k EXCEPT !.input = rest, !.output = reply, !.close_after_send = close,
                              !.sent = 0, !.sending = TRUE]
  <1>1. d.k \in Connection /\ d.k.input \in Seq(Line)
    BY DEF Good, Queues, Contexts, Connection
  <1>2. /\ parsed.verdict \in Verdicts
        /\ parsed.verdict = "complete" => parsed.length \in 2..Len(d.k.input)
    BY <1>1, ParsedResult
  <1>3. rest \in Seq(Line)
    <2>1. CASE rejected
      BY <2>1
    <2>2. CASE ~rejected
      <3>1. parsed.length \in 2..Len(d.k.input) /\ Len(d.k.input) \in Nat
        BY <1>1, <1>2, <2>2, LenProperties DEF Verdicts
      <3>2. SubSeq(d.k.input, parsed.length + 1, Len(d.k.input)) \in Seq(Line)
        BY <1>1, <3>1, SubSeqProperties
      <3>3. QED
        BY <2>2, <3>2
    <2>3. QED
      BY <2>1, <2>2
  <1>4. close \in BOOLEAN /\ reply \in Replies
    BY DEF Response, Replies
  <1>5. StartResponse(d) = SubmitSend([d EXCEPT !.k = k])
    BY DEF StartResponse, Reply
  <1> HIDE DEF rest, close, reply
  <1>6. /\ k \in Connection /\ k.sending /\ k.sent = 0
        /\ k.references = d.k.references /\ k.failed = d.k.failed
        /\ k.receive_active = d.k.receive_active /\ k.cancel_pending = d.k.cancel_pending
    BY <1>1, <1>3, <1>4 DEF Connection
  <1> HIDE DEF k
  <1>7. Send(d.fd) \notin Live(d, ended) /\ k.sent < ReplyLength
    BY <1>6, WorkerAssumption DEF Good
  <1>8. LET e == SubmitSend([d EXCEPT !.k = k])
        IN /\ Good(e, ended, held) /\ Extends(d, e, ended) /\ SameInput(k, e.k)
           /\ Receive(d.fd) \in Live(e, ended) => Receive(d.fd) \in Live(d, ended)
    BY <1>6, <1>7, SubmitSendGood
  <1>9. QED
    BY <1>5, <1>6, <1>8 DEF SameInput

LEMMA PauseOrRearmGood ==
    ASSUME NEW d, NEW ended, NEW held \in Nat, Good(d, ended, held)
    PROVE  LET e == PauseOrRearm(d)
           IN /\ Good(e, ended, held) /\ Extends(d, e, ended) /\ SameInput(d.k, e.k)
              /\ e.k.sending \/ e.k.read_eof \/ e.k.receive_active \/ e.k.cancel_pending
  <1>1. CASE MustPause(d.k)
    BY <1>1, CancelReceiveGood DEF PauseOrRearm, MustPause, SameInput
  <1>2. CASE ~MustPause(d.k) /\ CanArm(d.k)
    <2>1. d.k \in Connection
      BY DEF Good, Queues, Contexts
    <2>2. /\ Good(SubmitReceive(d), ended, held) /\ Extends(d, SubmitReceive(d), ended)
          /\ SubmitReceive(d).k = [d.k EXCEPT !.receive_active = TRUE, !.references = @ + 1]
      BY <1>2, SubmitReceiveGood DEF CanArm
    <2>3. SameInput(d.k, SubmitReceive(d).k) /\ SubmitReceive(d).k.receive_active
      BY <2>1, <2>2, ArmedConnection
    <2>4. QED
      BY <1>2, <2>2, <2>3 DEF PauseOrRearm
  <1>3. CASE ~MustPause(d.k) /\ ~CanArm(d.k)
    BY <1>3, ExtendsReflexive DEF PauseOrRearm, CanArm, SameInput
  <1>4. QED
    BY <1>1, <1>2, <1>3

LEMMA SettledSame ==
    ASSUME NEW k, NEW j, SameInput(k, j), Settled(k) PROVE Settled(j)
  BY ParsedSame DEF Settled, SameInput

LEMMA DriveGood ==
    ASSUME NEW d, NEW ended, NEW held \in Nat, NEW stop \in BOOLEAN, Good(d, ended, held)
    PROVE  LET e == DriveConnection(d, stop)
           IN /\ Good(e, ended, held) /\ Extends(d, e, ended) /\ (stop \/ Settled(e.k))
              /\ \/ stop \/ d.k.failed \/ d.k.close_after_send \/ d.k.read_eof
                 \/ Live(e, ended) \cap {Receive(d.fd), Send(d.fd), Cancel(d.fd)} # {}
  <1> DEFINE ready == ~d.k.sending /\ d.k.input # <<>> /\ Parsed(d.k).verdict # "incomplete"
             f == IF ready THEN StartResponse(d) ELSE d
             e == IF f.k.close_after_send THEN CancelReceive(f) ELSE PauseOrRearm(f)
  <1>1. CASE stop \/ d.k.failed \/ d.k.close_after_send
    <2>1. DriveConnection(d, stop) = d
      BY <1>1 DEF DriveConnection
    <2>2. QED
      BY <1>1, <2>1, ExtendsReflexive DEF Settled
  <1>2. CASE ~(stop \/ d.k.failed \/ d.k.close_after_send)
    <2>1. DriveConnection(d, stop) = e
      BY <1>2 DEF DriveConnection, DriveReceive
    <2>2. /\ Good(f, ended, held) /\ Extends(d, f, ended) /\ Settled(f.k)
          /\ Receive(d.fd) \in Live(f, ended) => Receive(d.fd) \in Live(d, ended)
          /\ f.k.failed = d.k.failed
          /\ \/ f.k.sending
             \/ f.k.close_after_send = d.k.close_after_send /\ f.k.read_eof = d.k.read_eof
      <3>1. CASE ready
        BY <3>1, StartResponseGood DEF Settled
      <3>2. CASE ~ready
        BY <3>2, ExtendsReflexive DEF Settled
      <3>3. QED
        BY <3>1, <3>2
    <2> HIDE DEF f
    <2>3. /\ Good(e, ended, held) /\ Extends(f, e, ended) /\ SameInput(f.k, e.k)
          /\ \/ f.k.close_after_send
             \/ e.k.sending \/ e.k.read_eof \/ e.k.receive_active \/ e.k.cancel_pending
      <3>1. CASE f.k.close_after_send
        BY <2>2, <3>1, CancelReceiveGood
      <3>2. CASE ~f.k.close_after_send
        BY <2>2, <3>2, PauseOrRearmGood
      <3>3. QED
        BY <3>1, <3>2
    <2> HIDE DEF e
    <2>4. Extends(d, e, ended) /\ Settled(e.k)
      BY <2>2, <2>3, ExtendsTransitive, SettledSame
    <2>5. e.fd = d.fd
      BY <2>4 DEF Extends
    <2>6. e.k.sending \/ e.k.read_eof \/ e.k.receive_active \/ e.k.cancel_pending
      BY <1>2, <2>2, <2>3 DEF SameInput
    <2>7. d.k.read_eof \/ Live(e, ended) \cap {Receive(d.fd), Send(d.fd), Cancel(d.fd)} # {}
      BY <1>2, <2>2, <2>3, <2>5, <2>6 DEF Good, SameInput
    <2>8. QED
      BY <2>1, <2>3, <2>4, <2>7
  <1>3. QED
    BY <1>1, <1>2

-----------------------------------------------------------------------------
(* The completion queue.                                                   *)

\* The operations that are ended once the oldest CQE is completed.
EndedAfter == {op \in Operations : Ended(op) /\ ~(op = Head(cq).op /\ ~Head(cq).more)}

LEMMA OldestCqe ==
    ASSUME cq \in Seq(Cqes), cq # <<>>
    PROVE  1 \in DOMAIN cq /\ Head(cq) = cq[1] /\ Head(cq) \in Cqes /\ Head(cq).op \in Operations
  <1>1. DOMAIN cq = 1..Len(cq) /\ Len(cq) \in Nat /\ Len(cq) >= 1
    BY LenProperties, EmptySeq
  <1>2. Head(cq) = cq[1]
    BY HeadTailProperties
  <1>3. 1 \in DOMAIN cq /\ cq[1] \in Cqes
    BY <1>1, ElementOfSeq
  <1>4. QED
    BY <1>2, <1>3 DEF Cqes

LEMMA QueuedCqes ==
    ASSUME cq \in Seq(Cqes) PROVE \A i \in DOMAIN cq : cq[i] \in Cqes /\ cq[i].op \in Operations
  <1>1. DOMAIN cq = 1..Len(cq)
    BY LenProperties
  <1>2. \A i \in DOMAIN cq : cq[i] \in Cqes
    BY <1>1, ElementOfSeq
  <1>3. QED
    BY <1>2 DEF Cqes

LEMMA TailQueue ==
    ASSUME cq \in Seq(Cqes), cq # <<>>, CompletionsAreExclusive, cq' = Tail(cq)
    PROVE  /\ cq' \in Seq(Cqes)
           /\ \A i \in DOMAIN cq' : i \in Nat /\ i + 1 \in DOMAIN cq /\ cq'[i] = cq[i + 1]
           /\ \A i \in DOMAIN cq : i # 1 => i - 1 \in DOMAIN cq' /\ cq'[i - 1] = cq[i]
           /\ \A op \in Operations : Ended(op)' <=> op \in EndedAfter
  <1>1. /\ Len(cq) \in Nat /\ Len(cq) >= 1 /\ DOMAIN cq = 1..Len(cq)
        /\ cq' \in Seq(Cqes) /\ Len(cq') = Len(cq) - 1 /\ DOMAIN cq' = 1..Len(cq')
        /\ Head(cq) = cq[1]
    BY HeadTailProperties, LenProperties, EmptySeq
  <1>2. \A i \in 1..Len(cq') : cq'[i] = cq[i + 1]
    BY HeadTailProperties
  <1>3. \A i \in DOMAIN cq' : i \in Nat /\ i + 1 \in DOMAIN cq /\ i + 1 > 1 /\ cq'[i] = cq[i + 1]
    BY <1>1, <1>2
  <1>4. ASSUME NEW i \in DOMAIN cq, i # 1
        PROVE  i - 1 \in DOMAIN cq' /\ cq'[i - 1] = cq[i]
    <2>1. i - 1 \in 1..Len(cq') /\ (i - 1) + 1 = i
      BY <1>1, <1>4
    <2>2. QED
      BY <1>1, <1>2, <2>1
  <1>5. ASSUME NEW op \in Operations
        PROVE  Ended(op)' <=> op \in EndedAfter
    <2>1. ASSUME Ended(op)'
          PROVE  op \in EndedAfter
      <3>1. PICK i \in DOMAIN cq' : cq'[i].op = op /\ ~cq'[i].more
        BY <2>1 DEF Ended
      <3>2. i + 1 \in DOMAIN cq /\ 1 \in DOMAIN cq /\ 1 < i + 1 /\ cq[i + 1].op = op /\ ~cq[i + 1].more
        BY <3>1, <1>1, <1>3
      <3>3. Ended(op)
        BY <3>2 DEF Ended
      <3>4. Head(cq).op = op => Head(cq).more
        BY <3>2, <1>1 DEF CompletionsAreExclusive
      <3>5. QED
        BY <3>3, <3>4 DEF EndedAfter
    <2>2. ASSUME op \in EndedAfter
          PROVE  Ended(op)'
      <3>1. PICK i \in DOMAIN cq : cq[i].op = op /\ ~cq[i].more
        BY <2>2 DEF EndedAfter, Ended
      <3>2. i # 1
        BY <3>1, <2>2, <1>1 DEF EndedAfter
      <3>3. QED
        BY <3>1, <3>2, <1>4 DEF Ended
    <2>3. QED
      BY <2>1, <2>2
  <1>6. QED
    BY <1>1, <1>3, <1>4, <1>5

\* The oldest CQE belongs to an outstanding operation, and completing it ends
\* that operation unless there are more to come.
LEMMA OutstandingAfter ==
    ASSUME TypeOK, CompletionsAreExclusive, cq # <<>>
    PROVE  /\ Outstanding(Head(cq).op)
           /\ \A op \in Operations :
                 op \in sq \cup kernel \cup EndedAfter
                     <=> Outstanding(op) /\ ~(op = Head(cq).op /\ ~Head(cq).more)
  <1>1. 1 \in DOMAIN cq /\ Head(cq) = cq[1] /\ Head(cq).op \in Operations
    BY OldestCqe DEF TypeOK
  <1>2. ~Head(cq).more => Ended(Head(cq).op)
    BY <1>1 DEF Ended
  <1>3. Outstanding(Head(cq).op)
    BY <1>1, <1>2 DEF Outstanding, CompletionsAreExclusive
  <1>4. QED
    BY <1>1, <1>2, <1>3 DEF Outstanding, CompletionsAreExclusive, EndedAfter

LEMMA ContextGood ==
    ASSUME IInv, cq # <<>>, NEW c \in Fds, Head(cq).op \in {Receive(c), Send(c), Cancel(c)},
           NEW k \in Connection, k.references = conn[c].references,
           k.receive_active <=> conn[c].receive_active /\ ~(Head(cq).op = Receive(c) /\ ~Head(cq).more),
           k.cancel_pending <=> conn[c].cancel_pending /\ Head(cq).op # Cancel(c),
           k.sending => (conn[c].sending /\ Head(cq).op # Send(c)) \/ k.failed,
           k.sending /\ ~k.failed => ~conn[c].failed,
           Head(cq).op # Send(c) => k.sending = conn[c].sending,
           Head(cq).op # Send(c) => k.sent = conn[c].sent,
           k.sent <= ReplyLength
    PROVE  /\ Good(Context(c, k), EndedAfter, Count(~Head(cq).more))
           /\ c \in connections
  <1> DEFINE d == Context(c, k)
             live == sq \cup kernel \cup EndedAfter
             op == Head(cq).op
             last == ~Head(cq).more
  <1>1. /\ TypeOK /\ CompletionsAreExclusive /\ ReferencesMatchOperations
        /\ CqesWellFormed /\ SendsBounded
    BY DEF IInv
  <1>2. /\ op \in Operations /\ Outstanding(op) /\ last \in BOOLEAN
        /\ \A o \in Operations : o \in live <=> Outstanding(o) /\ ~(o = op /\ last)
    BY <1>1, OutstandingAfter, OldestCqe DEF TypeOK, Cqes
  <1>3. c \in connections
    BY <1>1, <1>2 DEF ReferencesMatchOperations
  <1>4. /\ conn[c].references = Count(Outstanding(Receive(c))) + Count(Outstanding(Send(c)))
                                + Count(Outstanding(Cancel(c)))
        /\ conn[c].receive_active <=> Outstanding(Receive(c))
        /\ conn[c].cancel_pending <=> Outstanding(Cancel(c))
        /\ conn[c].sending /\ ~conn[c].failed => Outstanding(Send(c))
        /\ Outstanding(Send(c)) => conn[c].sending
    BY <1>1, <1>3 DEF ReferencesMatchOperations
  <1>5. op # Receive(c) => last
    <2>1. cq \in Seq(Cqes)
      BY <1>1 DEF TypeOK
    <2>2. ~last => op[1] \in {"accept", "receive"}
      BY <1>1, <2>1, OldestCqe DEF CqesWellFormed
    <2>3. QED
      BY <2>2, OperationNames
  <1>6. /\ d.fd = c /\ d.k = k /\ d.sq = sq /\ d.kernel = kernel
        /\ Live(d, EndedAfter) = live
    BY DEF Context, Live
  <1>7. Queues(d, EndedAfter)
    <2>1. d \in Contexts
      BY <1>1 DEF Context, Contexts, TypeOK
    <2>2. sq \cap kernel = {} /\ EndedAfter \cap (sq \cup kernel) = {}
      BY <1>1 DEF CompletionsAreExclusive, EndedAfter
    <2>3. QED
      BY <1>6, <2>1, <2>2 DEF Queues
  <1>8. Send(c) \in sq \cup kernel => k.sent < ReplyLength
    <2>1. ASSUME Send(c) \in sq \cup kernel, op = Send(c)
          PROVE  FALSE
      BY <2>1, <1>1, <1>2, <1>5, OperationNames, OldestCqe
         DEF CompletionsAreExclusive, Ended, TypeOK
    <2>2. QED
      BY <1>1, <2>1 DEF SendsBounded
  <1> HIDE DEF d, live, op, last
  <1>9. /\ Receive(c) \in Operations /\ Send(c) \in Operations /\ Cancel(c) \in Operations
        /\ Receive(c) # Send(c) /\ Receive(c) # Cancel(c) /\ Send(c) # Cancel(c)
    BY OperationNames
  <1>10. /\ Receive(c) \in live <=> Outstanding(Receive(c)) /\ ~(op = Receive(c) /\ last)
         /\ Send(c) \in live <=> Outstanding(Send(c)) /\ op # Send(c)
         /\ Cancel(c) \in live <=> Outstanding(Cancel(c)) /\ op # Cancel(c)
    BY <1>2, <1>5, <1>9
  <1>11. op \in {Receive(c), Send(c), Cancel(c)}
    BY DEF op
  <1>12. k.references = Count(Receive(c) \in live) + Count(Send(c) \in live)
                        + Count(Cancel(c) \in live) + Count(last)
    <2>1. CASE op = Receive(c)
      BY <1>2, <1>4, <1>9, <1>10, <2>1 DEF Count
    <2>2. CASE op = Send(c)
      BY <1>2, <1>4, <1>5, <1>9, <1>10, <2>2 DEF Count
    <2>3. CASE op = Cancel(c)
      BY <1>2, <1>4, <1>5, <1>9, <1>10, <2>3 DEF Count
    <2>4. QED
      BY <2>1, <2>2, <2>3, <1>11
  <1>13. /\ k.receive_active <=> Receive(c) \in live
         /\ k.cancel_pending <=> Cancel(c) \in live
         /\ k.sending /\ ~k.failed => Send(c) \in live
         /\ Send(c) \in live => k.sending
    BY <1>4, <1>10, <1>11 DEF op, last
  <1>14. QED
    BY <1>3, <1>6, <1>7, <1>8, <1>12, <1>13 DEF Good, d, last

\* Completing the oldest CQE, whatever operations are submitted meanwhile.
LEMMA OldestCompleted ==
    ASSUME IInv, cq # <<>>, cq' = Tail(cq), pc' = "reap", doomed' = doomed,
           free' = free \cup Recycled(Head(cq)),
           sq' \subseteq Operations, kernel' \subseteq Operations, kernel \subseteq kernel',
           sq' \cap kernel' = {}, EndedAfter \cap (sq' \cup kernel') = {}
    PROVE  /\ CqesWellFormed' /\ DoomedInKernel' /\ CompletionsAreExclusive'
           /\ BuffersConserved' /\ CleanExit' /\ free' \subseteq Buffers
  <1>1. /\ TypeOK /\ CqesWellFormed /\ DoomedInKernel /\ CompletionsAreExclusive /\ BuffersConserved
    BY DEF IInv
  <1>2. /\ \A i \in DOMAIN cq' : i \in Nat /\ i + 1 \in DOMAIN cq /\ cq'[i] = cq[i + 1]
        /\ \A i \in DOMAIN cq : i # 1 => i - 1 \in DOMAIN cq' /\ cq'[i - 1] = cq[i]
        /\ \A op \in Operations : Ended(op)' <=> op \in EndedAfter
    BY <1>1, TailQueue DEF TypeOK
  <1>3. /\ 1 \in DOMAIN cq /\ Head(cq) = cq[1] /\ Head(cq) \in Cqes
        /\ DOMAIN cq \subseteq Nat \ {0}
    BY <1>1, OldestCqe, LenProperties DEF TypeOK
  <1>4. CqesWellFormed'
    BY <1>1, <1>2 DEF CqesWellFormed
  <1>5. DoomedInKernel'
    BY <1>1 DEF DoomedInKernel
  <1>6. CompletionsAreExclusive'
    <2>1. sq' \cap kernel' = {} /\ \A op \in Operations : Ended(op)' => op \notin sq' \cup kernel'
      BY <1>2
    <2>2. \A i, j \in DOMAIN cq' : i < j /\ cq'[i].op = cq'[j].op => cq'[i].more
      BY <1>1, <1>2 DEF CompletionsAreExclusive
    <2>3. ASSUME NEW i \in DOMAIN cq', cq'[i].more
          PROVE  cq'[i].op \in kernel' \/ \E j \in DOMAIN cq' : cq'[j].op = cq'[i].op /\ ~cq'[j].more
      <3>1. i + 1 \in DOMAIN cq /\ cq'[i] = cq[i + 1] /\ 1 < i + 1
        BY <1>2
      <3>2. cq'[i].op \in Operations
        BY <1>1, <3>1, QueuedCqes DEF TypeOK
      <3>3. cq'[i].op \in kernel \/ Ended(cq'[i].op)
        BY <1>1, <2>3, <3>1 DEF CompletionsAreExclusive
      <3>4. cq'[i].op = Head(cq).op => Head(cq).more
        BY <1>1, <1>3, <3>1 DEF CompletionsAreExclusive
      <3>5. cq'[i].op \in kernel \/ cq'[i].op \in EndedAfter
        BY <3>2, <3>3, <3>4 DEF EndedAfter
      <3>6. \A op \in Operations : op \in EndedAfter => \E j \in DOMAIN cq' : cq'[j].op = op /\ ~cq'[j].more
        BY <1>2 DEF Ended
      <3>7. QED
        BY <3>2, <3>5, <3>6
    <2>4. QED
      BY <2>1, <2>2, <2>3 DEF CompletionsAreExclusive, Ended
  <1>7. BuffersConserved'
    <2>1. \A i, j \in DOMAIN cq' : cq'[i].buffer = cq'[j].buffer /\ cq'[i].buffer # NULL => i = j
      BY <1>1, <1>2 DEF BuffersConserved
    <2>2. \A i \in DOMAIN cq' : cq'[i].buffer # NULL => cq'[i].buffer # cq[1].buffer
      BY <1>1, <1>2, <1>3 DEF BuffersConserved
    <2>3. \A b : b \in free <=> b \in Buffers /\ ~\E i \in DOMAIN cq : cq[i].buffer = b
      BY <1>1 DEF BuffersConserved
    <2>4. cq[1].buffer \in Buffers \cup {NULL} /\ NULL \notin Buffers
      BY <1>3, WorkerAssumption DEF Cqes
    <2>5. \A b : b \in free' <=> b \in free \/ (b = cq[1].buffer /\ b # NULL)
      BY <1>3 DEF Recycled
    <2>6. \A b : (\E i \in DOMAIN cq : cq[i].buffer = b)
                     <=> (\E i \in DOMAIN cq' : cq'[i].buffer = b) \/ b = cq[1].buffer
      BY <1>2, <1>3
    <2>7. \A b : b \in free' <=> b \in Buffers /\ ~\E i \in DOMAIN cq' : cq'[i].buffer = b
      BY <2>2, <2>3, <2>4, <2>5, <2>6
    <2>8. free' = Buffers \ {cq'[i].buffer : i \in DOMAIN cq'}
      <3> DEFINE waiting == {cq'[i].buffer : i \in DOMAIN cq'}
      <3>1. \A b : b \in waiting <=> \E i \in DOMAIN cq' : cq'[i].buffer = b
        OBVIOUS
      <3> HIDE DEF waiting
      <3>2. free' = Buffers \ waiting
        BY <2>7, <3>1
      <3>3. QED
        BY <3>2 DEF waiting
    <2>9. QED
      BY <2>1, <2>8 DEF BuffersConserved
  <1>8. CleanExit' /\ free' \subseteq Buffers
    BY <1>1, <1>3 DEF CleanExit, TypeOK, Recycled, Cqes
  <1>9. QED
    BY <1>4, <1>5, <1>6, <1>7, <1>8

-----------------------------------------------------------------------------
(* Completions of a connection's operations.                               *)

\* What the completion of an operation of connection c makes of the worker: e
\* is the context its functions leave behind.
Handles(c, e) ==
    /\ pc' = "reap" /\ cq' = Tail(cq) /\ stopping' \in BOOLEAN /\ (stopping => stopping')
    /\ free' = free \cup Recycled(Head(cq))
    /\ IF Head(cq).more THEN Keep(e) ELSE ReleaseConnection(e)
    /\ UNCHANGED <<shutdown_started, accept_active, accept_cancel_active, doomed,
                   arrivals, peer, wire>>

\* The operations of other connections and of the listener.
LEMMA OthersUnchanged ==
    ASSUME IInv, cq # <<>>, NEW c \in Fds, Head(cq).op \in {Receive(c), Send(c), Cancel(c)},
           cq' = Tail(cq), NEW e, sq' = e.sq, kernel' = e.kernel, e.fd = c,
           NEW k, Extends(Context(c, k), e, EndedAfter),
           NEW op \in Operations, op \notin {Receive(c), Send(c), Cancel(c)}
    PROVE  /\ op \in sq' \cup kernel' <=> op \in sq \cup kernel
           /\ Outstanding(op)' <=> Outstanding(op)
  <1>1. Ended(op)' <=> Ended(op)
    BY TailQueue DEF IInv, TypeOK, EndedAfter
  <1>2. /\ sq \cup kernel \subseteq e.sq \cup e.kernel
        /\ e.sq \cup e.kernel \subseteq sq \cup kernel \cup {Receive(c), Send(c), Cancel(c)}
    BY DEF Extends, Context
  <1>3. QED
    BY <1>1, <1>2 DEF Outstanding

\* The connection afterwards: kept with the references of its operations, or
\* freed with none of them outstanding.
LEMMA HandledConnection ==
    ASSUME IInv, cq # <<>>, NEW c \in Fds, Head(cq).op \in {Receive(c), Send(c), Cancel(c)},
           NEW e, e.fd = c, Good(e, EndedAfter, Count(~Head(cq).more)), Handles(c, e),
           Head(cq).more => Receive(c) \in Live(e, EndedAfter)
    PROVE  /\ sq' = e.sq /\ kernel' = e.kernel
           /\ conn' \in [Fds -> Connection] /\ \A b \in Fds \ {c} : conn'[b] = conn[b]
           /\ \/ /\ connections' = connections /\ open' = open
                 /\ SameInput(e.k, conn'[c])
                 /\ conn'[c].receive_active = e.k.receive_active
                 /\ conn'[c].cancel_pending = e.k.cancel_pending
                 /\ conn'[c].references = e.k.references - Count(~Head(cq).more)
                 /\ conn'[c].references > 0
              \/ /\ connections' = connections \ {c} /\ open' = open \ {c}
                 /\ conn'[c] = Zeroed
                 /\ Live(e, EndedAfter) \cap {Receive(c), Send(c), Cancel(c)} = {}
  <1>1. conn \in [Fds -> Connection] /\ e.k \in Connection /\ e.k.references \in Nat
    BY DEF IInv, TypeOK, Good, Queues, Contexts, Connection
  <1>2. Head(cq).more \in BOOLEAN
    BY OldestCqe DEF IInv, TypeOK, Cqes
  <1>3. e.k.references = Count(Receive(c) \in Live(e, EndedAfter)) + Count(Send(c) \in Live(e, EndedAfter))
                        + Count(Cancel(c) \in Live(e, EndedAfter)) + Count(~Head(cq).more)
    BY DEF Good
  <1>4. CASE Head(cq).more
    <2>1. Keep(e)
      BY <1>4 DEF Handles
    <2>2. e.k.references > 0 /\ Count(~Head(cq).more) = 0
      BY <1>1, <1>3, <1>4 DEF Count
    <2>3. QED
      BY <1>1, <2>1, <2>2 DEF Keep, SameInput
  <1>5. CASE ~Head(cq).more /\ e.k.references = 1
    <2>1. Live(e, EndedAfter) \cap {Receive(c), Send(c), Cancel(c)} = {}
      BY <1>3, <1>5 DEF Count
    <2>2. Zeroed \in Connection
      BY WorkerAssumption DEF Zeroed, Connection
    <2>3. ReleaseConnection(e)
      BY <1>5 DEF Handles
    <2>4. QED
      BY <1>1, <1>5, <2>1, <2>2, <2>3 DEF ReleaseConnection
  <1>6. CASE ~Head(cq).more /\ e.k.references # 1
    <2>1. e.k.references - 1 \in Nat /\ e.k.references - 1 > 0 /\ Count(~Head(cq).more) = 1
      BY <1>1, <1>3, <1>6 DEF Count
    <2> DEFINE n == e.k.references - 1
               j == [e.k EXCEPT !.references = n]
    <2>2. ReleaseConnection(e)
      BY <1>6 DEF Handles
    <2>3. /\ conn' = [conn EXCEPT ![c] = j] /\ connections' = connections /\ open' = open
          /\ sq' = e.sq /\ kernel' = e.kernel
      BY <1>6, <2>2 DEF ReleaseConnection
    <2> HIDE DEF n
    <2>4. n \in Nat /\ n > 0
      BY <2>1 DEF n
    <2>5. /\ j \in Connection /\ SameInput(e.k, j) /\ j.references = n
          /\ j.receive_active = e.k.receive_active /\ j.cancel_pending = e.k.cancel_pending
      BY <1>1, <2>4 DEF Connection, SameInput
    <2> HIDE DEF j
    <2>6. conn' \in [Fds -> Connection] /\ conn'[c] = j /\ \A b \in Fds \ {c} : conn'[b] = conn[b]
      BY <1>1, <2>3, <2>5
    <2>7. conn'[c].references = e.k.references - Count(~Head(cq).more)
      BY <2>1, <2>5, <2>6 DEF n
    <2>8. QED
      BY <2>3, <2>4, <2>5, <2>6, <2>7
  <1>7. QED
    BY <1>4, <1>5, <1>6

LEMMA HandlerPreserves ==
    ASSUME IInv, cq # <<>>, NEW c \in Fds, Head(cq).op \in {Receive(c), Send(c), Cancel(c)},
           NEW k, k.sent = conn[c].sent \/ Send(c) \notin Live(Context(c, k), EndedAfter),
           NEW e, Good(e, EndedAfter, Count(~Head(cq).more)),
           Extends(Context(c, k), e, EndedAfter), Handles(c, e), c \in connections,
           stopping' \/ Settled(e.k)
    PROVE  IInv'
  <1> DEFINE mine == {Receive(c), Send(c), Cancel(c)}
             live == Live(e, EndedAfter)
  <1>1. /\ TypeOK /\ CqesWellFormed /\ SendsBounded /\ DoomedInKernel /\ CompletionsAreExclusive
        /\ ReferencesMatchOperations /\ DescriptorsAccounted /\ BuffersConserved
        /\ NothingUnanswered /\ AcceptArmed /\ ShutdownOnce
    BY DEF IInv
  <1>2. /\ e.fd = c /\ kernel \subseteq e.kernel
        /\ sq \cup kernel \subseteq e.sq \cup e.kernel
        /\ e.sq \cup e.kernel \subseteq sq \cup kernel \cup mine
    BY DEF Extends, Context
  <1>3. /\ cq' \in Seq(Cqes) /\ cq' = Tail(cq)
        /\ \A i \in DOMAIN cq' : i \in Nat /\ i + 1 \in DOMAIN cq /\ cq'[i] = cq[i + 1]
        /\ \A i \in DOMAIN cq : i # 1 => i - 1 \in DOMAIN cq' /\ cq'[i - 1] = cq[i]
        /\ \A op \in Operations : Ended(op)' <=> op \in EndedAfter
    BY <1>1, TailQueue DEF TypeOK, Handles
  <1>4. /\ 1 \in DOMAIN cq /\ Head(cq) = cq[1] /\ Head(cq) \in Cqes /\ Head(cq).op \in mine
        /\ DOMAIN cq \subseteq Nat \ {0}
    BY <1>1, OldestCqe, LenProperties DEF TypeOK
  <1>5. /\ Receive(c) \in Operations /\ Send(c) \in Operations /\ Cancel(c) \in Operations
        /\ Send(c) # Receive(c) /\ Cancel(c) # Receive(c)
        /\ mine \cap {AcceptOperation, AcceptCancel} = {}
        /\ \A b \in Fds \ {c} : mine \cap {Receive(b), Send(b), Cancel(b)} = {}
    BY OperationNames
  <1>6. Head(cq).more => Head(cq).op = Receive(c)
    BY <1>1, <1>4, OperationNames DEF CqesWellFormed
  <1>7. Head(cq).more => Receive(c) \in live
    BY <1>1, <1>2, <1>4, <1>5, <1>6, OutstandingAfter DEF Live
  <1>8. /\ sq' = e.sq /\ kernel' = e.kernel
        /\ conn' \in [Fds -> Connection] /\ \A b \in Fds \ {c} : conn'[b] = conn[b]
        /\ \/ /\ connections' = connections /\ open' = open
              /\ SameInput(e.k, conn'[c])
              /\ conn'[c].receive_active = e.k.receive_active
              /\ conn'[c].cancel_pending = e.k.cancel_pending
              /\ conn'[c].references = e.k.references - Count(~Head(cq).more)
              /\ conn'[c].references > 0
           \/ /\ connections' = connections \ {c} /\ open' = open \ {c}
              /\ conn'[c] = Zeroed
              /\ live \cap mine = {}
    BY <1>2, <1>7, HandledConnection
  <1>9. /\ \A op \in Operations : Outstanding(op)' <=> op \in live
        /\ \A op \in Operations \ mine :
              /\ op \in sq' \cup kernel' <=> op \in sq \cup kernel
              /\ Outstanding(op)' <=> Outstanding(op)
    BY <1>2, <1>3, <1>8, OthersUnchanged DEF Outstanding, Live
  <1>10. /\ Queues(e, EndedAfter) /\ e.k.sent \in Nat
    BY DEF Good, Queues, Contexts, Connection
  <1>11. /\ CqesWellFormed' /\ DoomedInKernel' /\ CompletionsAreExclusive'
         /\ BuffersConserved' /\ CleanExit' /\ free' \subseteq Buffers
    <2>1. /\ sq' \subseteq Operations /\ kernel' \subseteq Operations /\ kernel \subseteq kernel'
          /\ sq' \cap kernel' = {} /\ EndedAfter \cap (sq' \cup kernel') = {}
      BY <1>2, <1>8, <1>10 DEF Queues, Contexts
    <2>2. /\ cq' = Tail(cq) /\ pc' = "reap" /\ doomed' = doomed
          /\ free' = free \cup Recycled(Head(cq))
      BY DEF Handles
    <2>3. QED
      BY <2>1, <2>2, OldestCompleted
  <1>12. TypeOK'
    <2>1. sq' \subseteq Operations /\ kernel' \subseteq Operations
      BY <1>8, <1>10 DEF Queues, Contexts
    <2>2. free' \subseteq Buffers
      BY <1>11
    <2>3. connections' \subseteq Fds /\ open' \subseteq Fds
      BY <1>1, <1>8 DEF TypeOK
    <2>4. /\ pc' \in {"loop", "wait", "reap", "exited"} /\ stopping' \in BOOLEAN
          /\ shutdown_started' \in BOOLEAN /\ accept_active' \in BOOLEAN
          /\ accept_cancel_active' \in BOOLEAN /\ doomed' \subseteq Operations
          /\ arrivals' \in 0..MaxArrivals /\ peer' \in [Fds -> Peers]
          /\ wire' \in [Fds -> Seq((Replies \cup {NULL}) \X Nat)]
      BY <1>1 DEF Handles, TypeOK
    <2>5. QED
      BY <1>3, <1>8, <2>1, <2>2, <2>3, <2>4 DEF TypeOK
  <1>13. SendsBounded'
    <2>1. ASSUME NEW b \in Fds \ {c}
          PROVE  /\ conn'[b].sent <= ReplyLength
                 /\ Send(b) \in sq' \cup kernel' => conn'[b].sent < ReplyLength
                 /\ \A i \in DOMAIN cq' : cq'[i].op = Send(b) => conn'[b].sent + cq'[i].count <= ReplyLength
      <3>1. Send(b) \in Operations \ mine
        BY <1>5, OperationNames
      <3>2. QED
        BY <1>1, <1>3, <1>8, <1>9, <3>1 DEF SendsBounded
    <2>2. ASSUME NEW i \in DOMAIN cq', cq'[i].op = Send(c)
          PROVE  Send(c) \in EndedAfter /\ conn[c].sent + cq'[i].count <= ReplyLength
      <3>1. i + 1 \in DOMAIN cq /\ cq'[i] = cq[i + 1]
        BY <1>3, <2>2
      <3>2. ~cq'[i].more
        BY <1>1, <2>2, <3>1, OperationNames DEF CqesWellFormed
      <3>3. Ended(Send(c))'
        BY <2>2, <3>2 DEF Ended
      <3>4. QED
        BY <1>1, <1>3, <1>5, <2>2, <3>1, <3>3 DEF SendsBounded
    <2>3. Send(c) \in EndedAfter => e.k.sent = conn[c].sent
      BY DEF Extends, Context, Live
    <2>4. /\ e.k.sent <= ReplyLength
          /\ Send(c) \in sq' \cup kernel' => e.k.sent < ReplyLength
      BY <1>2, <1>8 DEF Good
    <2>5. CASE connections' = connections /\ SameInput(e.k, conn'[c])
      <3>1. conn'[c].sent = e.k.sent
        BY <2>5 DEF SameInput
      <3>2. QED
        BY <2>1, <2>2, <2>3, <2>4, <3>1 DEF SendsBounded
    <2>6. CASE conn'[c] = Zeroed /\ live \cap mine = {}
      <3>1. conn'[c].sent = 0 /\ 0 < ReplyLength /\ 0 <= ReplyLength
        BY <2>6, WorkerAssumption DEF Zeroed
      <3>2. Send(c) \notin EndedAfter
        BY <2>6 DEF Live
      <3>3. QED
        BY <2>1, <2>2, <3>1, <3>2 DEF SendsBounded
    <2>7. QED
      BY <1>8, <2>5, <2>6
  <1>14. ReferencesMatchOperations'
    <2>1. ASSUME NEW b \in Fds \ {c}
          PROVE  /\ Outstanding(Receive(b))' <=> Outstanding(Receive(b))
                 /\ Outstanding(Send(b))' <=> Outstanding(Send(b))
                 /\ Outstanding(Cancel(b))' <=> Outstanding(Cancel(b))
                 /\ conn'[b] = conn[b] /\ (b \in connections' <=> b \in connections)
      BY <1>5, <1>8, <1>9, OperationNames
    <2>2. /\ accept_active' <=> Outstanding(AcceptOperation)'
          /\ accept_cancel_active' <=> Outstanding(AcceptCancel)'
      BY <1>1, <1>5, <1>9, OperationNames DEF Handles, ReferencesMatchOperations
    <2>3. /\ Outstanding(Receive(c))' <=> Receive(c) \in live
          /\ Outstanding(Send(c))' <=> Send(c) \in live
          /\ Outstanding(Cancel(c))' <=> Cancel(c) \in live
      BY <1>5, <1>9
    <2>4. ASSUME NEW b \in connections'
          PROVE  /\ conn'[b].references = Count(Outstanding(Receive(b))') + Count(Outstanding(Send(b))')
                                          + Count(Outstanding(Cancel(b))')
                 /\ conn'[b].references > 0
                 /\ conn'[b].receive_active <=> Outstanding(Receive(b))'
                 /\ conn'[b].cancel_pending <=> Outstanding(Cancel(b))'
                 /\ conn'[b].sending /\ ~conn'[b].failed => Outstanding(Send(b))'
                 /\ Outstanding(Send(b))' => conn'[b].sending
      <3>1. CASE b = c
        <4>1. /\ SameInput(e.k, conn'[c])
              /\ conn'[c].receive_active = e.k.receive_active
              /\ conn'[c].cancel_pending = e.k.cancel_pending
              /\ conn'[c].references = e.k.references - Count(~Head(cq).more)
              /\ conn'[c].references > 0
          BY <1>8, <2>4, <3>1
        <4>2. QED
          BY <1>2, <2>3, <3>1, <4>1 DEF Good, SameInput, Count
      <3>2. CASE b # c
        <4>1. b \in Fds \ {c} /\ b \in connections
          BY <1>1, <1>12, <2>1, <2>4, <3>2 DEF TypeOK
        <4>2. QED
          BY <1>1, <2>1, <4>1 DEF ReferencesMatchOperations, Count
      <3>3. QED
        BY <3>1, <3>2
    <2>5. ASSUME NEW b \in Fds \ connections'
          PROVE  ~Outstanding(Receive(b))' /\ ~Outstanding(Send(b))' /\ ~Outstanding(Cancel(b))'
      <3>1. CASE b = c
        BY <1>8, <2>3, <2>5, <3>1
      <3>2. CASE b # c
        BY <1>1, <2>1, <2>5, <3>2 DEF ReferencesMatchOperations
      <3>3. QED
        BY <3>1, <3>2
    <2>6. QED
      BY <2>2, <2>4, <2>5 DEF ReferencesMatchOperations, Count
  <1>15. DescriptorsAccounted'
    <2>1. cq[1].fd = NULL
      BY <1>1, <1>4, <1>5 DEF CqesWellFormed
    <2>2. {cq'[i].fd : i \in {j \in DOMAIN cq' : cq'[j].fd # NULL}}
              = {cq[i].fd : i \in {j \in DOMAIN cq : cq[j].fd # NULL}}
      <3>1. \A f : (\E i \in DOMAIN cq' : cq'[i].fd # NULL /\ cq'[i].fd = f)
                       <=> (\E i \in DOMAIN cq : cq[i].fd # NULL /\ cq[i].fd = f)
        <4>1. ASSUME NEW i \in DOMAIN cq'
              PROVE  \E j \in DOMAIN cq : cq[j].fd = cq'[i].fd
          BY <1>3
        <4>2. ASSUME NEW i \in DOMAIN cq, cq[i].fd # NULL
              PROVE  \E j \in DOMAIN cq' : cq'[j].fd = cq[i].fd
          <5>1. i - 1 \in DOMAIN cq' /\ cq'[i - 1] = cq[i]
            BY <1>3, <2>1, <4>2
          <5>2. QED
            BY <5>1
        <4>3. QED
          BY <4>1, <4>2
      <3>2. ASSUME NEW f
            PROVE  f \in {cq'[i].fd : i \in {j \in DOMAIN cq' : cq'[j].fd # NULL}}
                       <=> \E i \in DOMAIN cq' : cq'[i].fd # NULL /\ cq'[i].fd = f
        OBVIOUS
      <3>3. ASSUME NEW f
            PROVE  f \in {cq[i].fd : i \in {j \in DOMAIN cq : cq[j].fd # NULL}}
                       <=> \E i \in DOMAIN cq : cq[i].fd # NULL /\ cq[i].fd = f
        OBVIOUS
      <3>4. QED
        BY <3>1, <3>2, <3>3, Zenon
    <2>3. \A i \in DOMAIN cq' : cq'[i].fd \notin connections /\ cq'[i].fd # c
      BY <1>1, <1>3 DEF DescriptorsAccounted
    <2>4. \A i, j \in DOMAIN cq' : cq'[i].fd = cq'[j].fd /\ cq'[i].fd # NULL => i = j
      BY <1>1, <1>3 DEF DescriptorsAccounted
    <2>5. c \notin {cq[i].fd : i \in {j \in DOMAIN cq : cq[j].fd # NULL}}
      BY <1>1 DEF DescriptorsAccounted
    <2>6. QED
      BY <1>1, <1>8, <2>2, <2>3, <2>4, <2>5 DEF DescriptorsAccounted
  <1>16. NothingUnanswered'
    <2>1. ASSUME ~stopping', NEW b \in connections'
          PROVE  Settled(conn'[b])
      <3>1. CASE b = c
        BY <1>8, <2>1, <3>1, SettledSame
      <3>2. CASE b # c
        <4>1. b \in connections /\ ~stopping /\ conn'[b] = conn[b]
          BY <1>1, <1>8, <2>1, <3>2 DEF Handles, TypeOK
        <4>2. QED
          BY <1>1, <4>1 DEF NothingUnanswered
      <3>3. QED
        BY <3>1, <3>2
    <2>2. QED
      BY <2>1 DEF NothingUnanswered, Settled, Parsed, AtEndOfStream
  <1>17. AcceptArmed' /\ ShutdownOnce'
    BY <1>1 DEF AcceptArmed, ShutdownOnce, Handles
  <1>18. QED
    BY <1>12, <1>13, <1>14, <1>15, <1>11, <1>16, <1>17 DEF IInv

\* What could justify dropping the connection of the oldest CQE.
Reason(c) ==
    \/ stopping' \/ conn[c].failed \/ conn[c].close_after_send \/ conn[c].read_eof
    \/ Head(cq).res \in {"error", "eof"}
    \/ Len(Head(cq).data) > InputCapacity - Len(conn[c].input)

\* What all completions of a connection's operations have in common: k is what
\* they make of the connection first, e what their functions make of that.
Completion(c, k, e) ==
    /\ cq # <<>> /\ Head(cq).op \in {Receive(c), Send(c), Cancel(c)} /\ c \in connections
    /\ \/ k.sent = conn[c].sent /\ k.output = conn[c].output
       \/ Send(c) \notin Live(Context(c, k), EndedAfter)
    /\ Good(e, EndedAfter, Count(~Head(cq).more))
    /\ Extends(Context(c, k), e, EndedAfter)
    /\ Handles(c, e)
    /\ stopping' \/ Settled(e.k)
    /\ Reason(c) \/ Live(e, EndedAfter) \cap {Receive(c), Send(c), Cancel(c)} # {}

LEMMA ReadsGrow ==
    ASSUME NEW r \in Reads, stopping \in BOOLEAN
    PROVE  /\ r[1] \in BOOLEAN /\ r[2] \in BOOLEAN /\ r[3] \in BOOLEAN
           /\ stopping => r[1]
           /\ r[1] => r[2]
           /\ r[2] => r[3]
  BY DEF Reads

\* Only a receive's CQE has more to come or carries a buffer.
LEMMA LastCqe ==
    ASSUME TypeOK, CqesWellFormed, cq # <<>>, NEW c \in Fds, Head(cq).op \in {Send(c), Cancel(c)}
    PROVE  ~Head(cq).more /\ Recycled(Head(cq)) = {}
  <1>1. cq \in Seq(Cqes)
    BY DEF TypeOK
  <1>2. Head(cq).op[1] \notin {"accept", "receive"}
    BY OperationNames
  <1>3. QED
    BY <1>1, <1>2, OldestCqe DEF CqesWellFormed, Recycled

LEMMA CancelCompletes ==
    ASSUME IInv, NEW c \in Fds, CancelCompleted(c)
    PROVE  \E k, e : Completion(c, k, e)
  <1> DEFINE k == [conn[c] EXCEPT !.cancel_pending = FALSE]
             d == Context(c, k)
  <1>1. TypeOK /\ CqesWellFormed /\ SendsBounded /\ conn[c] \in Connection
    BY DEF IInv, TypeOK
  <1>2. cq # <<>> /\ Head(cq).op = Cancel(c) /\ Cancel(c) # Receive(c) /\ Cancel(c) # Send(c)
    BY OperationNames DEF CancelCompleted, Completes
  <1>3. PICK r \in Reads : stopping' = r[3] /\ ReleaseConnection(DriveConnection(d, r[1]))
    BY DEF CancelCompleted
  <1> DEFINE e == DriveConnection(d, r[1])
  <1>4. /\ k \in Connection /\ k.references = conn[c].references /\ ~k.cancel_pending
        /\ k.receive_active = conn[c].receive_active /\ k.sending = conn[c].sending
        /\ k.failed = conn[c].failed /\ k.sent = conn[c].sent /\ k.output = conn[c].output
        /\ k.close_after_send = conn[c].close_after_send /\ k.read_eof = conn[c].read_eof
    BY <1>1 DEF Connection
  <1>5. k.sent <= ReplyLength
    BY <1>1, <1>4 DEF SendsBounded
  <1> HIDE DEF k
  <1>6. Good(d, EndedAfter, Count(~Head(cq).more)) /\ c \in connections
    BY <1>2, <1>4, <1>5, ContextGood
  <1>7. d.fd = c /\ d.k = k
    BY DEF Context
  <1> HIDE DEF d
  <1>8. r[1] \in BOOLEAN /\ r[3] \in BOOLEAN /\ (stopping => r[3]) /\ (r[1] => r[3])
    BY <1>1, ReadsGrow DEF TypeOK
  <1>9. ~Head(cq).more /\ Recycled(Head(cq)) = {} /\ Count(~Head(cq).more) \in Nat
    BY <1>1, <1>2, LastCqe DEF Count
  <1>10. /\ Good(e, EndedAfter, Count(~Head(cq).more)) /\ Extends(d, e, EndedAfter)
         /\ r[1] \/ Settled(e.k)
         /\ \/ r[1] \/ k.failed \/ k.close_after_send \/ k.read_eof
            \/ Live(e, EndedAfter) \cap {Receive(c), Send(c), Cancel(c)} # {}
    BY <1>6, <1>7, <1>8, <1>9, DriveGood
  <1> HIDE DEF e
  <1>11. Handles(c, e)
    BY <1>3, <1>8, <1>9 DEF Handles, CancelCompleted, Completes, e
  <1>12. Reason(c) \/ Live(e, EndedAfter) \cap {Receive(c), Send(c), Cancel(c)} # {}
    BY <1>3, <1>4, <1>8, <1>10 DEF Reason
  <1>13. QED
    BY <1>2, <1>3, <1>4, <1>6, <1>8, <1>10, <1>11, <1>12 DEF Completion, d

\* A received connection differs from the one before by what the CQE brought.
LEMMA ReceivedConnection ==
    ASSUME NEW k \in Connection, NEW cqe \in Cqes, NEW stop
    PROVE  LET j == Received(k, cqe, stop)
           IN /\ j \in Connection
              /\ j.references = k.references
              /\ j.receive_active <=> k.receive_active /\ cqe.more
              /\ j.cancel_pending = k.cancel_pending
              /\ j.sending = k.sending /\ j.sent = k.sent /\ j.output = k.output
              /\ j.close_after_send = k.close_after_send
              /\ k.failed => j.failed
              /\ j.failed => \/ k.failed \/ cqe.res = "error"
                             \/ Len(cqe.data) > InputCapacity - Len(k.input)
              /\ j.read_eof => k.read_eof \/ cqe.res = "eof"
  <1> DEFINE ended == [k EXCEPT !.receive_active = @ /\ cqe.more]
             drop  == k.failed \/ k.close_after_send \/ stop
             j == Received(k, cqe, stop)
  <1>1. /\ ended \in Connection /\ ended.references = k.references
        /\ ended.receive_active <=> k.receive_active /\ cqe.more
        /\ ended.cancel_pending = k.cancel_pending
        /\ ended.sending = k.sending /\ ended.sent = k.sent /\ ended.output = k.output
        /\ ended.close_after_send = k.close_after_send
        /\ ended.failed = k.failed /\ ended.read_eof = k.read_eof /\ ended.input = k.input
    BY DEF Connection, Cqes
  <1>2. cqe.data \in Seq(Line) /\ k.input \in Seq(Line) /\ cqe.res \in {"ok", "eof", "error", "canceled"}
        /\ Len(cqe.data) \in Nat /\ Len(k.input) \in Nat /\ InputCapacity \in Nat
    BY LenProperties, FramingAssumption DEF Connection, Cqes
  <1>3. k.input \o cqe.data \in Seq(Line)
    BY <1>2, ConcatProperties
  <1> HIDE DEF ended
  <1>4. CASE j = ended
    BY <1>1, <1>4
  <1>5. CASE j = [ended EXCEPT !.failed = TRUE]
             /\ (cqe.res = "error" \/ Len(cqe.data) > InputCapacity - Len(k.input))
    BY <1>1, <1>5 DEF Connection
  <1>6. CASE j = [ended EXCEPT !.input = @ \o cqe.data]
    BY <1>1, <1>3, <1>6 DEF Connection
  <1>7. CASE j = [ended EXCEPT !.read_eof = TRUE] /\ cqe.res = "eof"
    BY <1>1, <1>7 DEF Connection
  <1>8. j = ended \/ j = [ended EXCEPT !.input = @ \o cqe.data]
        \/ (j = [ended EXCEPT !.read_eof = TRUE] /\ cqe.res = "eof")
        \/ (/\ j = [ended EXCEPT !.failed = TRUE]
            /\ (cqe.res = "error" \/ Len(cqe.data) > InputCapacity - Len(k.input)))
    BY <1>2 DEF Received, ended
  <1>9. QED
    BY <1>4, <1>5, <1>6, <1>7, <1>8

LEMMA ReceiveCompletes ==
    ASSUME IInv, NEW c \in Fds, ReceiveCompleted(c)
    PROVE  \E k, e : Completion(c, k, e)
  <1> DEFINE cqe == Head(cq)
  <1>1. TypeOK /\ CqesWellFormed /\ SendsBounded /\ conn[c] \in Connection
    BY DEF IInv, TypeOK
  <1>2. cq # <<>> /\ cqe.op = Receive(c) /\ Cancel(c) # Receive(c) /\ Send(c) # Receive(c)
    BY OperationNames DEF ReceiveCompleted, Completes
  <1>3. cqe \in Cqes /\ cqe.more \in BOOLEAN
    BY <1>1, <1>2, OldestCqe DEF TypeOK, Cqes
  <1>4. PICK r \in Reads :
           LET d == Context(c, Received(conn[c], cqe, r[1]))
               e == IF d.k.failed \/ r[2] THEN CancelReceive(d) ELSE DriveConnection(d, r[3])
           IN stopping' = r[3] /\ IF cqe.more THEN Keep(e) ELSE ReleaseConnection(e)
    BY DEF ReceiveCompleted, EndReceive
  <1> DEFINE k == Received(conn[c], cqe, r[1])
             d == Context(c, k)
             e == IF d.k.failed \/ r[2] THEN CancelReceive(d) ELSE DriveConnection(d, r[3])
  <1>5. stopping' = r[3] /\ IF cqe.more THEN Keep(e) ELSE ReleaseConnection(e)
    BY <1>4
  <1>6. /\ k \in Connection /\ k.references = conn[c].references
        /\ k.receive_active <=> conn[c].receive_active /\ cqe.more
        /\ k.cancel_pending = conn[c].cancel_pending
        /\ k.sending = conn[c].sending /\ k.sent = conn[c].sent /\ k.output = conn[c].output
        /\ k.close_after_send = conn[c].close_after_send
        /\ conn[c].failed => k.failed
        /\ k.failed => \/ conn[c].failed \/ cqe.res = "error"
                       \/ Len(cqe.data) > InputCapacity - Len(conn[c].input)
        /\ k.read_eof => conn[c].read_eof \/ cqe.res = "eof"
    BY <1>1, <1>3, ReceivedConnection
  <1>7. k.sent <= ReplyLength
    BY <1>1, <1>6 DEF SendsBounded
  <1> HIDE DEF k
  <1>8. Good(d, EndedAfter, Count(~cqe.more)) /\ c \in connections
    BY <1>2, <1>3, <1>6, <1>7, ContextGood
  <1>9. d.fd = c /\ d.k = k
    BY DEF Context
  <1> HIDE DEF d
  <1>10. r[2] \in BOOLEAN /\ r[3] \in BOOLEAN /\ (stopping => r[3]) /\ (r[2] => r[3])
    BY <1>1, ReadsGrow DEF TypeOK
  <1>11. Count(~cqe.more) \in Nat
    BY DEF Count
  <1>12. /\ Good(e, EndedAfter, Count(~cqe.more)) /\ Extends(d, e, EndedAfter)
         /\ stopping' \/ Settled(e.k)
         /\ \/ stopping' \/ k.failed \/ k.close_after_send \/ k.read_eof
            \/ Live(e, EndedAfter) \cap {Receive(c), Send(c), Cancel(c)} # {}
    <2>1. CASE k.failed \/ r[2]
      <3>1. e = CancelReceive(d)
        BY <1>9, <2>1
      <3>2. Good(e, EndedAfter, Count(~cqe.more)) /\ Extends(d, e, EndedAfter) /\ SameInput(d.k, e.k)
        BY <1>8, <1>11, <3>1, CancelReceiveGood
      <3>3. QED
        BY <1>5, <1>9, <1>10, <2>1, <3>2 DEF Settled, SameInput
    <2>2. CASE ~(k.failed \/ r[2])
      <3>1. e = DriveConnection(d, r[3])
        BY <1>9, <2>2
      <3>2. QED
        BY <1>5, <1>8, <1>9, <1>10, <1>11, <3>1, DriveGood
    <2>3. QED
      BY <2>1, <2>2
  <1> HIDE DEF e
  <1>13. Handles(c, e)
    BY <1>5, <1>10 DEF Handles, ReceiveCompleted, Completes
  <1>14. Reason(c) \/ Live(e, EndedAfter) \cap {Receive(c), Send(c), Cancel(c)} # {}
    BY <1>6, <1>12 DEF Reason
  <1>15. QED
    BY <1>2, <1>6, <1>8, <1>12, <1>13, <1>14 DEF Completion, d

LEMMA SendCompletes ==
    ASSUME IInv, NEW c \in Fds, SendCompleted(c)
    PROVE  \E k, e : Completion(c, k, e)
  <1> DEFINE cqe == Head(cq)
             o == conn[c]
             n == o.sent + cqe.count
             held == Count(~cqe.more)
  <1>1. /\ TypeOK /\ CqesWellFormed /\ SendsBounded /\ CompletionsAreExclusive
        /\ ReferencesMatchOperations /\ o \in Connection
    BY DEF IInv, TypeOK
  <1>2. cq # <<>> /\ cqe.op = Send(c) /\ Cancel(c) # Send(c) /\ Receive(c) # Send(c)
    BY OperationNames DEF SendCompleted, Completes
  <1>3. cqe = cq[1] /\ 1 \in DOMAIN cq /\ cqe.count \in Nat
        /\ cqe.res \in {"ok", "eof", "error", "canceled"}
    BY <1>1, <1>2, OldestCqe DEF TypeOK, Cqes
  <1>4. cqe.res \in {"ok", "error"}
    BY <1>1, <1>2, <1>3, OperationNames DEF CqesWellFormed
  <1>5. ~cqe.more /\ Recycled(cqe) = {} /\ held \in Nat
    BY <1>1, <1>2, LastCqe DEF Count
  <1>6. n \in Nat /\ n <= ReplyLength /\ o.sent \in Nat /\ o.sent <= ReplyLength
    BY <1>1, <1>2, <1>3 DEF SendsBounded, Connection
  <1>7. o.sending
    BY <1>1, <1>2, OutstandingAfter, ContextGood DEF ReferencesMatchOperations
  <1>8. Send(c) \notin sq \cup kernel \cup EndedAfter
    BY <1>1, <1>2, <1>5, OutstandingAfter, OperationNames
  <1>9. PICK r \in Reads : stopping' = r[3] /\ ReleaseConnection(Sent(Context(c, o), cqe, r[1]))
    BY DEF SendCompleted
  <1> DEFINE e == Sent(Context(c, o), cqe, r[1])
  <1>10. r[1] \in BOOLEAN /\ r[3] \in BOOLEAN /\ (stopping => r[3]) /\ (r[1] => r[3])
    BY <1>1, ReadsGrow DEF TypeOK
  <1>11. \A k : Send(c) \notin Live(Context(c, k), EndedAfter)
    BY <1>8 DEF Live, Context
  <1>12. \E k : /\ Good(e, EndedAfter, held) /\ Extends(Context(c, k), e, EndedAfter)
                /\ stopping' \/ Settled(e.k)
                /\ Reason(c) \/ Live(e, EndedAfter) \cap {Receive(c), Send(c), Cancel(c)} # {}
                /\ c \in connections
    <2>1. CASE cqe.res # "ok"
      <3> DEFINE k == [o EXCEPT !.failed = TRUE]
      <3>1. /\ k \in Connection /\ k.references = o.references /\ k.failed
            /\ k.receive_active = o.receive_active /\ k.cancel_pending = o.cancel_pending
            /\ k.sent = o.sent
        BY <1>1 DEF Connection
      <3>2. e = CancelReceive(Context(c, k))
        <4>1. Context(c, o).k = o
          BY DEF Context
        <4>2. e = CancelReceive([Context(c, o) EXCEPT !.k = k])
          BY <2>1, <4>1 DEF Sent
        <4>3. \A j : [Context(c, o) EXCEPT !.k = j] = Context(c, j)
          BY DEF Context
        <4>4. QED
          BY <4>2, <4>3
      <3> HIDE DEF k, e, cqe, held
      <3>3. Good(Context(c, k), EndedAfter, held) /\ c \in connections
        BY <1>2, <1>6, <3>1, ContextGood DEF cqe, held
      <3>4. Context(c, k).k = k
        BY DEF Context
      <3>5. Good(e, EndedAfter, held) /\ Extends(Context(c, k), e, EndedAfter) /\ SameInput(k, e.k)
        BY <1>5, <3>2, <3>3, <3>4, CancelReceiveGood
      <3>6. Settled(e.k)
        BY <3>1, <3>5 DEF Settled, SameInput
      <3>7. Reason(c)
        BY <1>4, <2>1 DEF Reason, cqe
      <3>8. QED
        BY <3>3, <3>5, <3>6, <3>7
    <2>2. CASE cqe.res = "ok" /\ n < ReplyLength
      <3> DEFINE k == [o EXCEPT !.sending = FALSE]
                 j == [o EXCEPT !.sent = n]
                 d == Context(c, k)
      <3>1. /\ k \in Connection /\ k.references = o.references /\ ~k.sending
            /\ k.receive_active = o.receive_active /\ k.cancel_pending = o.cancel_pending
            /\ k.sent = o.sent
        BY <1>1 DEF Connection
      <3>2. /\ j \in Connection /\ j.references = o.references /\ j.sending = o.sending
            /\ j.receive_active = o.receive_active /\ j.cancel_pending = o.cancel_pending
            /\ j.sent = n /\ j.failed = o.failed
        BY <1>1, <1>6 DEF Connection
      <3>3. e = SubmitSend(Context(c, j)) /\ Context(c, j) = [d EXCEPT !.k = j]
        BY <2>2 DEF Sent, Context
      <3> HIDE DEF k, j, e, cqe, held, n
      <3>4. Good(d, EndedAfter, held) /\ c \in connections
        BY <1>2, <1>6, <3>1, ContextGood DEF cqe, held
      <3>5. d.fd = c /\ d.k = k
        BY DEF Context
      <3> HIDE DEF d
      <3>6. Send(d.fd) \notin Live(d, EndedAfter)
        BY <1>11, <3>5 DEF d
      <3>7. LET f == SubmitSend([d EXCEPT !.k = j])
            IN /\ Good(f, EndedAfter, held) /\ Extends(d, f, EndedAfter) /\ SameInput(j, f.k)
        BY <1>5, <1>7, <2>2, <3>1, <3>2, <3>4, <3>5, <3>6, SubmitSendGood
      <3>8. Good(e, EndedAfter, held) /\ Extends(d, e, EndedAfter) /\ SameInput(j, e.k)
        BY <3>3, <3>7
      <3>9. Settled(e.k) /\ e.k.sending /\ e.k.failed = o.failed /\ e.fd = c
        BY <1>7, <3>2, <3>5, <3>8 DEF Settled, SameInput, Extends
      <3>10. Reason(c) \/ Send(c) \in Live(e, EndedAfter)
        BY <3>8, <3>9 DEF Good, Reason
      <3>11. QED
        BY <3>4, <3>8, <3>9, <3>10 DEF d
    <2>3. CASE cqe.res = "ok" /\ ~(n < ReplyLength)
      <3> DEFINE i == [o EXCEPT !.sent = n]
                 k == [i EXCEPT !.sending = FALSE]
                 d == Context(c, k)
      <3>1. /\ k \in Connection /\ k.references = o.references /\ ~k.sending
            /\ k.receive_active = o.receive_active /\ k.cancel_pending = o.cancel_pending
            /\ k.sent = n /\ k.failed = o.failed /\ k.read_eof = o.read_eof
            /\ k.close_after_send = o.close_after_send
        BY <1>1, <1>6 DEF Connection
      <3>2. e = FinishReply(d, r[1])
        BY <2>3 DEF Sent, Context
      <3> HIDE DEF k, e, cqe, held, n
      <3>3. Good(d, EndedAfter, held) /\ c \in connections
        BY <1>2, <1>6, <3>1, ContextGood DEF cqe, held
      <3>4. d.fd = c /\ d.k = k
        BY DEF Context
      <3> HIDE DEF d
      <3>5. CASE k.close_after_send
        <4>1. e = CancelReceive(d)
          BY <3>2, <3>4, <3>5 DEF FinishReply
        <4>2. Good(e, EndedAfter, held) /\ Extends(d, e, EndedAfter) /\ SameInput(k, e.k)
          BY <1>5, <3>3, <3>4, <4>1, CancelReceiveGood
        <4>3. Settled(e.k) /\ Reason(c)
          BY <3>1, <3>5, <4>2 DEF Settled, SameInput, Reason
        <4>4. QED
          BY <3>3, <4>2, <4>3 DEF d
      <3>6. CASE ~k.close_after_send
        <4>1. e = DriveConnection(d, r[1])
          BY <3>2, <3>4, <3>6 DEF FinishReply
        <4>2. /\ Good(e, EndedAfter, held) /\ Extends(d, e, EndedAfter)
              /\ r[1] \/ Settled(e.k)
              /\ \/ r[1] \/ k.failed \/ k.close_after_send \/ k.read_eof
                 \/ Live(e, EndedAfter) \cap {Receive(c), Send(c), Cancel(c)} # {}
          BY <1>5, <1>10, <3>3, <3>4, <4>1, DriveGood
        <4>3. Reason(c) \/ Live(e, EndedAfter) \cap {Receive(c), Send(c), Cancel(c)} # {}
          BY <1>9, <1>10, <3>1, <4>2 DEF Reason
        <4>4. QED
          BY <1>9, <1>10, <3>3, <4>2, <4>3 DEF d
      <3>7. QED
        BY <3>5, <3>6
    <2>4. QED
      BY <2>1, <2>2, <2>3
  <1> HIDE DEF e
  <1>13. Handles(c, e)
    BY <1>5, <1>9, <1>10 DEF Handles, SendCompleted, Completes, e
  <1>14. QED
    BY <1>2, <1>11, <1>12, <1>13 DEF Completion

\* The bodies of ReplyStableWhileSending, NoReceiveArmedDuringCancel and
\* DroppedForReason.
ReplyKept == \A c \in Fds : Outstanding(Send(c)) /\ Outstanding(Send(c))' /\ ~Ended(Send(c))
                                => UNCHANGED <<conn[c].output, conn[c].sent>>

CancelUndisturbed == \A c \in Fds : Outstanding(Cancel(c)) /\ ~Outstanding(Receive(c))
                                        /\ Outstanding(Cancel(c))' => ~Outstanding(Receive(c))'

Dropped == \A c \in connections \ connections' : Reason(c)

\* The operations of connection c.
Mine(c) == {Receive(c), Send(c), Cancel(c)}

Others(c) == \A b \in Fds \ {c} : \A op \in Mine(b) : Outstanding(op)' <=> Outstanding(op)

\* What a step does to the connections and their operations: some begin, a new
\* connection comes with its own, or one operation ends while others begin.
OperationsBegin ==
    /\ connections' = connections
    /\ \A b \in Fds : \A op \in Mine(b) : Outstanding(op) => Outstanding(op)'

ConnectionBegins(c) == c \notin connections /\ connections' = connections \cup {c} /\ Others(c)

OperationEnds(c, ended) ==
    /\ c \in connections /\ ended \in Mine(c) /\ Outstanding(ended)
    /\ connections' \in {connections, connections \ {c}}
    /\ \A op \in Mine(c) \ {ended} : Outstanding(op) => Outstanding(op)'
    /\ Others(c)

Lived == OperationsBegin \/ \E c \in Fds : ConnectionBegins(c) \/ \E ended \in Mine(c) : OperationEnds(c, ended)

Safe == IInv' /\ ReplyKept /\ CancelUndisturbed /\ Dropped /\ Lived

LEMMA CompletionIsSafe ==
    ASSUME IInv, NEW c \in Fds, NEW k, NEW e, Completion(c, k, e)
    PROVE  Safe
  <1> DEFINE live == Live(e, EndedAfter)
  <1>1. /\ cq # <<>> /\ Head(cq).op \in {Receive(c), Send(c), Cancel(c)} /\ c \in connections
        /\ Good(e, EndedAfter, Count(~Head(cq).more)) /\ Extends(Context(c, k), e, EndedAfter)
        /\ Handles(c, e)
    BY DEF Completion
  <1>2. IInv'
    BY HandlerPreserves DEF Completion
  <1>3. /\ TypeOK /\ CompletionsAreExclusive /\ CqesWellFormed
        /\ e.fd = c /\ cq' = Tail(cq)
    BY <1>1 DEF IInv, Extends, Context, Handles
  <1>4. Live(Context(c, k), EndedAfter) = sq \cup kernel \cup EndedAfter
    BY DEF Live, Context
  <1>5. \A op \in Operations :
           op \in sq \cup kernel \cup EndedAfter <=> Outstanding(op) /\ ~(op = Head(cq).op /\ ~Head(cq).more)
    BY <1>1, <1>3, OutstandingAfter
  <1>6. Head(cq).more => Receive(c) \in live
    <2>1. Head(cq).more => Head(cq).op = Receive(c)
      BY <1>1, <1>3, LastCqe
    <2>2. Receive(c) \in Operations /\ Outstanding(Head(cq).op)
      BY <1>1, <1>3, OutstandingAfter, OperationNames
    <2>3. QED
      BY <1>1, <1>4, <1>5, <2>1, <2>2 DEF Extends, Live, Context
  <1>7. /\ sq' = e.sq /\ kernel' = e.kernel
        /\ \A b \in Fds \ {c} : conn'[b] = conn[b]
        /\ \/ connections' = connections /\ SameInput(e.k, conn'[c])
           \/ connections' = connections \ {c} /\ live \cap {Receive(c), Send(c), Cancel(c)} = {}
    BY <1>1, <1>3, <1>6, HandledConnection
  <1>8. \A op \in Operations : Outstanding(op)' <=> op \in live
    BY <1>1, <1>3, <1>7, TailQueue DEF Outstanding, Live, TypeOK
  <1>9. \A b \in Fds : /\ Receive(b) \in Operations /\ Send(b) \in Operations /\ Cancel(b) \in Operations
                       /\ b # c => {Receive(b), Send(b), Cancel(b)} \cap {Receive(c), Send(c), Cancel(c)} = {}
    BY OperationNames
  <1>10. ReplyKept
    <2>1. ASSUME Outstanding(Send(c)), Outstanding(Send(c))', ~Ended(Send(c))
          PROVE  UNCHANGED <<conn[c].output, conn[c].sent>>
      <3>1. Send(c) \in Live(Context(c, k), EndedAfter)
        BY <1>4, <2>1 DEF Outstanding
      <3>2. e.k.sent = conn[c].sent /\ e.k.output = conn[c].output
        BY <3>1 DEF Completion, Extends, Context
      <3>3. SameInput(e.k, conn'[c])
        BY <1>7, <1>8, <1>9, <2>1
      <3>4. QED
        BY <3>2, <3>3 DEF SameInput
    <2>2. QED
      BY <1>7, <2>1 DEF ReplyKept
  <1>11. CancelUndisturbed
    <2>1. ASSUME ~Outstanding(Receive(c)), Outstanding(Cancel(c))'
          PROVE  ~Outstanding(Receive(c))'
      BY <1>1, <1>4, <1>5, <1>8, <1>9, <2>1 DEF Extends, Context
    <2>2. ASSUME NEW b \in Fds \ {c}
          PROVE  Outstanding(Receive(b))' <=> Outstanding(Receive(b))
      BY <1>1, <1>3, <1>7, <1>9, OthersUnchanged
    <2>3. QED
      BY <2>1, <2>2 DEF CancelUndisturbed
  <1>12. Dropped
    <2>1. connections \ connections' \subseteq {c}
      BY <1>7
    <2>2. Reason(c) \/ live \cap {Receive(c), Send(c), Cancel(c)} # {}
      BY DEF Completion
    <2>3. QED
      BY <1>7, <2>1, <2>2 DEF Dropped
  <1>13. Lived
    <2>1. Others(c)
      <3>1. ASSUME NEW b \in Fds \ {c}, NEW op \in Mine(b)
            PROVE  Outstanding(op)' <=> Outstanding(op)
        <4>1. op \in Operations /\ op \notin {Receive(c), Send(c), Cancel(c)}
          BY <1>9 DEF Mine
        <4>2. QED
          BY <1>1, <1>3, <1>7, <4>1, OthersUnchanged
      <3>2. QED
        BY <3>1 DEF Others
    <2>2. ASSUME NEW op \in Mine(c), op # Head(cq).op, Outstanding(op)
          PROVE  Outstanding(op)'
      <3>1. op \in Operations /\ op \in Live(Context(c, k), EndedAfter)
        BY <1>4, <1>5, <1>9, <2>2 DEF Mine
      <3>2. op \in live
        BY <1>1, <3>1 DEF Extends, Live, Context
      <3>3. QED
        BY <1>8, <3>1, <3>2
    <2>3. Outstanding(Head(cq).op) /\ Head(cq).op \in Mine(c)
      BY <1>1, <1>3, OutstandingAfter DEF Mine
    <2>4. connections' \in {connections, connections \ {c}}
      BY <1>7
    <2>5. OperationEnds(c, Head(cq).op)
      BY <1>1, <2>1, <2>2, <2>3, <2>4 DEF OperationEnds
    <2>6. QED
      BY <2>3, <2>5 DEF Lived
  <1>14. QED
    BY <1>2, <1>10, <1>11, <1>12, <1>13 DEF Safe

-----------------------------------------------------------------------------
(* Completions of the listener's operations.                               *)

LEMMA RearmAcceptAdds ==
    ASSUME NEW d, d.sq \subseteq Operations, d.kernel \subseteq Operations, d.sq \cap d.kernel = {},
           d \in Contexts \/ d = [sq |-> d.sq, kernel |-> d.kernel],
           NEW terminal \in BOOLEAN, NEW stop \in BOOLEAN, accept_active \in BOOLEAN,
           terminal => AcceptOperation \notin d.sq \cup d.kernel,
           RearmAccept(d, terminal, stop)
    PROVE  /\ sq' \subseteq Operations /\ kernel' \subseteq Operations /\ sq' \cap kernel' = {}
           /\ d.kernel \subseteq kernel'
           /\ sq' \cup kernel' = d.sq \cup d.kernel
                                 \cup (IF terminal /\ ~stop THEN {AcceptOperation} ELSE {})
           /\ accept_active' = ((terminal /\ ~stop) \/ (accept_active /\ ~terminal))
  <1>1. AcceptOperation \in Operations
    BY OperationNames
  <1>2. CASE terminal /\ ~stop /\ Cardinality(d.sq) < QueueDepth
    BY <1>1, <1>2 DEF RearmAccept, GetSqe, Contexts
  <1>3. CASE terminal /\ ~stop /\ ~(Cardinality(d.sq) < QueueDepth)
    BY <1>1, <1>3 DEF RearmAccept, GetSqe, Contexts
  <1>4. CASE ~(terminal /\ ~stop)
    BY <1>4 DEF RearmAccept
  <1>5. QED
    BY <1>2, <1>3, <1>4

\* The oldest CQE is one of the listener's.
LEMMA ListenerCqe ==
    ASSUME IInv, cq # <<>>, Head(cq).op \in {AcceptOperation, AcceptCancel}
    PROVE  /\ Recycled(Head(cq)) = {}
           /\ Head(cq).more => Head(cq).op = AcceptOperation
           /\ Head(cq).fd # NULL <=> Head(cq).op = AcceptOperation /\ Head(cq).res = "ok"
           /\ Head(cq).more \in BOOLEAN /\ Head(cq).fd \in Fds \cup {NULL}
  <1>1. TypeOK /\ CqesWellFormed /\ cq \in Seq(Cqes)
    BY DEF IInv, TypeOK
  <1>2. Head(cq) = cq[1] /\ 1 \in DOMAIN cq /\ Head(cq) \in Cqes
    BY <1>1, OldestCqe
  <1>3. QED
    BY <1>1, <1>2, OperationNames DEF CqesWellFormed, Recycled, Cqes

\* Completing it leaves the connections' operations alone, except for the
\* receive of a new connection.
LEMMA ListenerCompletes ==
    ASSUME IInv, cq # <<>>, Head(cq).op \in {AcceptOperation, AcceptCancel},
           cq' = Tail(cq), pc' = "reap",
           UNCHANGED <<shutdown_started, doomed, free, arrivals, peer, wire>>,
           NEW added \in SUBSET Operations, added \cap (sq \cup kernel \cup EndedAfter) = {},
           \A b \in Fds : Send(b) \notin added,
           sq' \subseteq Operations, kernel' \subseteq Operations, sq' \cap kernel' = {},
           kernel \subseteq kernel', sq' \cup kernel' = sq \cup kernel \cup added,
           conn' \in [Fds -> Connection], \A b \in Fds : conn'[b].sent = conn[b].sent \/ conn'[b].sent = 0,
           \A b \in Fds : conn'[b].sent # conn[b].sent => ~Outstanding(Send(b))
    PROVE  /\ CqesWellFormed' /\ DoomedInKernel' /\ CompletionsAreExclusive'
           /\ BuffersConserved' /\ CleanExit' /\ SendsBounded' /\ cq' \in Seq(Cqes)
           /\ \A op \in Operations : Outstanding(op)'
                  <=> op \in added \/ (Outstanding(op) /\ ~(op = Head(cq).op /\ ~Head(cq).more))
           /\ \A i \in DOMAIN cq' : i + 1 \in DOMAIN cq /\ i + 1 # 1 /\ cq'[i] = cq[i + 1]
           /\ \A i \in DOMAIN cq : i # 1 => i - 1 \in DOMAIN cq' /\ cq'[i - 1] = cq[i]
           /\ 1 \in DOMAIN cq /\ Head(cq) = cq[1]
  <1>1. TypeOK /\ CompletionsAreExclusive /\ SendsBounded /\ CqesWellFormed
    BY DEF IInv
  <1>2. EndedAfter \cap (sq' \cup kernel') = {}
    BY <1>1 DEF CompletionsAreExclusive, EndedAfter
  <1>3. free' = free \cup Recycled(Head(cq))
    BY ListenerCqe
  <1>4. /\ CqesWellFormed' /\ DoomedInKernel' /\ CompletionsAreExclusive'
        /\ BuffersConserved' /\ CleanExit'
    BY <1>2, <1>3, OldestCompleted
  <1>5. /\ cq' \in Seq(Cqes)
        /\ \A i \in DOMAIN cq' : i \in Nat /\ i + 1 \in DOMAIN cq /\ cq'[i] = cq[i + 1]
        /\ \A i \in DOMAIN cq : i # 1 => i - 1 \in DOMAIN cq' /\ cq'[i - 1] = cq[i]
        /\ \A op \in Operations : Ended(op)' <=> op \in EndedAfter
    BY <1>1, TailQueue DEF TypeOK
  <1>6. 1 \in DOMAIN cq /\ Head(cq) = cq[1] /\ DOMAIN cq \subseteq Nat \ {0}
    BY <1>1, OldestCqe, LenProperties DEF TypeOK
  <1>7. \A op \in Operations : Outstanding(op)'
            <=> op \in added \/ (Outstanding(op) /\ ~(op = Head(cq).op /\ ~Head(cq).more))
    <2>1. \A op \in Operations : op \in sq \cup kernel \cup EndedAfter
              <=> Outstanding(op) /\ ~(op = Head(cq).op /\ ~Head(cq).more)
      BY <1>1, OutstandingAfter
    <2>2. \A op \in Operations : Outstanding(op)' <=> op \in sq' \cup kernel' \cup EndedAfter
      BY <1>5 DEF Outstanding
    <2>3. QED
      BY <2>1, <2>2
  <1>8. SendsBounded'
    <2>1. ASSUME NEW b \in Fds
          PROVE  /\ conn'[b].sent <= ReplyLength
                 /\ Send(b) \in sq' \cup kernel' => conn'[b].sent < ReplyLength
                 /\ \A i \in DOMAIN cq' : cq'[i].op = Send(b) => conn'[b].sent + cq'[i].count <= ReplyLength
      <3>1. Send(b) \in Operations /\ Send(b) \notin added
        BY OperationNames
      <3>2. CASE conn'[b].sent = conn[b].sent
        BY <1>1, <1>5, <3>1, <3>2 DEF SendsBounded
      <3>3. CASE conn'[b].sent # conn[b].sent
        <4>1. conn'[b].sent = 0 /\ 0 <= ReplyLength /\ ~Outstanding(Send(b))
          BY <3>3, WorkerAssumption
        <4>2. Send(b) \notin sq' \cup kernel'
          BY <3>1, <4>1 DEF Outstanding
        <4>3. ASSUME NEW i \in DOMAIN cq', cq'[i].op = Send(b)
              PROVE  FALSE
          <5>1. i + 1 \in DOMAIN cq /\ cq[i + 1].op = Send(b)
            BY <1>5, <4>3
          <5>2. ~cq[i + 1].more
            BY <1>1, <5>1, OperationNames DEF CqesWellFormed
          <5>3. QED
            BY <4>1, <5>1, <5>2 DEF Outstanding, Ended
        <4>4. QED
          BY <4>1, <4>2, <4>3
      <3>4. QED
        BY <3>2, <3>3
    <2>2. QED
      BY <2>1 DEF SendsBounded
  <1>9. \A i \in DOMAIN cq' : i + 1 # 1
    BY <1>5, <1>6, LenProperties
  <1>10. QED
    BY <1>4, <1>5, <1>6, <1>7, <1>8, <1>9

\* A completion of the listener that leaves the connections alone.
LEMMA ListenerIsSafe ==
    ASSUME IInv, cq # <<>>, Head(cq).op \in {AcceptOperation, AcceptCancel},
           cq' = Tail(cq), pc' = "reap",
           UNCHANGED <<shutdown_started, doomed, free, arrivals, peer, wire, connections, conn>>,
           NEW added \in SUBSET {AcceptOperation}, added \cap (sq \cup kernel \cup EndedAfter) = {},
           sq' \subseteq Operations, kernel' \subseteq Operations, sq' \cap kernel' = {},
           kernel \subseteq kernel', sq' \cup kernel' = sq \cup kernel \cup added,
           accept_active' \in BOOLEAN, accept_cancel_active' \in BOOLEAN,
           accept_active' <=> AcceptOperation \in added
                                 \/ (accept_active /\ ~(Head(cq).op = AcceptOperation /\ ~Head(cq).more)),
           accept_cancel_active' <=> accept_cancel_active /\ Head(cq).op # AcceptCancel,
           stopping' \in BOOLEAN, stopping => stopping', ~stopping' => accept_active',
           open' = open \ {Head(cq).fd}
    PROVE  Safe
  <1>1. /\ TypeOK /\ ReferencesMatchOperations /\ DescriptorsAccounted /\ NothingUnanswered
        /\ ShutdownOnce
    BY DEF IInv
  <1>2. /\ AcceptOperation \in Operations /\ AcceptCancel \in Operations /\ AcceptOperation # AcceptCancel
        /\ \A b \in Fds : /\ Receive(b) \in Operations /\ Send(b) \in Operations /\ Cancel(b) \in Operations
                          /\ {Receive(b), Send(b), Cancel(b)} \cap {AcceptOperation, AcceptCancel} = {}
    BY OperationNames
  <1>3. /\ CqesWellFormed' /\ DoomedInKernel' /\ CompletionsAreExclusive'
        /\ BuffersConserved' /\ CleanExit' /\ SendsBounded' /\ cq' \in Seq(Cqes)
        /\ \A op \in Operations : Outstanding(op)'
               <=> op \in added \/ (Outstanding(op) /\ ~(op = Head(cq).op /\ ~Head(cq).more))
        /\ \A i \in DOMAIN cq' : i + 1 \in DOMAIN cq /\ i + 1 # 1 /\ cq'[i] = cq[i + 1]
        /\ \A i \in DOMAIN cq : i # 1 => i - 1 \in DOMAIN cq' /\ cq'[i - 1] = cq[i]
        /\ 1 \in DOMAIN cq /\ Head(cq) = cq[1]
    <2>1. /\ \A b \in Fds : Send(b) \notin added
          /\ added \in SUBSET Operations
          /\ conn' \in [Fds -> Connection] /\ \A b \in Fds : conn'[b].sent = conn[b].sent
      BY <1>1, <1>2 DEF TypeOK
    <2>2. QED
      BY <2>1, ListenerCompletes
  <1>4. /\ Head(cq).more => Head(cq).op = AcceptOperation
        /\ Head(cq).fd \in Fds \cup {NULL}
    BY ListenerCqe
  <1>5. \A b \in Fds : /\ Outstanding(Receive(b))' <=> Outstanding(Receive(b))
                       /\ Outstanding(Send(b))' <=> Outstanding(Send(b))
                       /\ Outstanding(Cancel(b))' <=> Outstanding(Cancel(b))
    BY <1>2, <1>3
  <1>6. TypeOK'
    BY <1>1, <1>3 DEF TypeOK
  <1>7. ReferencesMatchOperations'
    <2>1. accept_active' <=> Outstanding(AcceptOperation)'
      BY <1>1, <1>2, <1>3 DEF ReferencesMatchOperations
    <2>2. accept_cancel_active' <=> Outstanding(AcceptCancel)'
      BY <1>1, <1>2, <1>3, <1>4 DEF ReferencesMatchOperations
    <2>3. ASSUME NEW b \in connections
          PROVE  /\ conn[b].references = Count(Outstanding(Receive(b))') + Count(Outstanding(Send(b))')
                                         + Count(Outstanding(Cancel(b))')
                 /\ conn[b].references > 0
                 /\ conn[b].receive_active <=> Outstanding(Receive(b))'
                 /\ conn[b].cancel_pending <=> Outstanding(Cancel(b))'
                 /\ conn[b].sending /\ ~conn[b].failed => Outstanding(Send(b))'
                 /\ Outstanding(Send(b))' => conn[b].sending
      <3>1. b \in Fds
        BY <1>1 DEF TypeOK
      <3>2. QED
        BY <1>1, <1>5, <3>1 DEF ReferencesMatchOperations, Count
    <2>4. \A b \in Fds \ connections :
             ~Outstanding(Receive(b))' /\ ~Outstanding(Send(b))' /\ ~Outstanding(Cancel(b))'
      BY <1>1, <1>5 DEF ReferencesMatchOperations
    <2>5. QED
      BY <2>1, <2>2, <2>3, <2>4 DEF ReferencesMatchOperations, Count
  <1>8. DescriptorsAccounted'
    <2>1. \A f : f \in open <=> f \in connections \/ \E i \in DOMAIN cq : cq[i].fd # NULL /\ cq[i].fd = f
      BY <1>1 DEF DescriptorsAccounted
    <2>2. \A i \in DOMAIN cq : cq[i].fd \notin connections
      BY <1>1 DEF DescriptorsAccounted
    <2>3. \A i, j \in DOMAIN cq : cq[i].fd = cq[j].fd /\ cq[i].fd # NULL => i = j
      BY <1>1 DEF DescriptorsAccounted
    <2>4. NULL \notin open
      BY <1>1, WorkerAssumption DEF TypeOK
    <2>5. ASSUME NEW f
          PROVE  f \in open' <=> f \in connections \/ \E i \in DOMAIN cq' : cq'[i].fd # NULL /\ cq'[i].fd = f
      <3>1. f \in open' <=> f \in open /\ f # cq[1].fd
        BY <1>3
      <3>2. f \in connections => f \in open'
        BY <1>3, <2>1, <2>2, <3>1
      <3>3. ASSUME NEW i \in DOMAIN cq', cq'[i].fd # NULL, cq'[i].fd = f
            PROVE  f \in open'
        <4>1. i + 1 \in DOMAIN cq /\ i + 1 # 1 /\ cq[i + 1].fd = f /\ f # NULL
          BY <1>3, <3>3
        <4>2. QED
          BY <1>3, <2>1, <2>3, <3>1, <4>1
      <3>4. ASSUME NEW i \in DOMAIN cq, cq[i].fd # NULL, cq[i].fd = f, f # cq[1].fd
            PROVE  \E j \in DOMAIN cq' : cq'[j].fd # NULL /\ cq'[j].fd = f
        <4>1. i - 1 \in DOMAIN cq' /\ cq'[i - 1] = cq[i]
          BY <1>3, <3>4
        <4>2. QED
          BY <3>4, <4>1
      <3>5. QED
        BY <2>1, <3>1, <3>2, <3>3, <3>4
    <2> DEFINE waiting == {cq'[i].fd : i \in {j \in DOMAIN cq' : cq'[j].fd # NULL}}
    <2>6. \A f : f \in waiting <=> \E i \in DOMAIN cq' : cq'[i].fd # NULL /\ cq'[i].fd = f
      OBVIOUS
    <2> HIDE DEF waiting
    <2>7. open' = connections \cup waiting
      BY <2>5, <2>6
    <2>8. QED
      BY <1>3, <2>2, <2>3, <2>7 DEF DescriptorsAccounted, waiting
  <1>9. NothingUnanswered'
    BY <1>1 DEF NothingUnanswered, Settled, Parsed, AtEndOfStream
  <1>10. AcceptArmed' /\ ShutdownOnce'
    BY <1>1 DEF AcceptArmed, ShutdownOnce
  <1>11. ReplyKept /\ CancelUndisturbed /\ Dropped
    BY <1>5 DEF ReplyKept, CancelUndisturbed, Dropped
  <1>12. Lived
    BY <1>5 DEF Lived, OperationsBegin, Mine
  <1>13. QED
    BY <1>3, <1>6, <1>7, <1>8, <1>9, <1>10, <1>11, <1>12 DEF IInv, Safe

LEMMA AcceptedWhileStoppingIsSafe ==
    ASSUME IInv, AcceptedWhileStopping PROVE Safe
  <1>1. /\ TypeOK /\ CompletionsAreExclusive /\ ReferencesMatchOperations
    BY DEF IInv
  <1>2. /\ cq # <<>> /\ Head(cq).op[1] = "accept" /\ Head(cq).op \in Operations
    BY <1>1, OldestCqe DEF AcceptedWhileStopping, Completes, TypeOK
  <1>3. Head(cq).op = AcceptOperation
    BY <1>2, OperationNames
  <1>4. Head(cq).more \in BOOLEAN
    BY <1>2, <1>3, ListenerCqe
  <1>5. sq' = sq /\ kernel' = kernel /\ accept_active' = (accept_active /\ Head(cq).more)
    BY <1>1, <1>4 DEF AcceptedWhileStopping, RearmAccept, TypeOK
  <1>6. /\ cq' = Tail(cq) /\ pc' = "reap" /\ stopping' = TRUE /\ open' = open \ {Head(cq).fd}
        /\ UNCHANGED <<shutdown_started, doomed, free, arrivals, peer, wire, connections, conn>>
        /\ accept_cancel_active' = accept_cancel_active
    BY DEF AcceptedWhileStopping, Completes
  <1>7. /\ sq \subseteq Operations /\ kernel \subseteq Operations /\ sq \cap kernel = {}
        /\ accept_active \in BOOLEAN /\ accept_cancel_active \in BOOLEAN
    BY <1>1 DEF TypeOK, CompletionsAreExclusive
  <1> DEFINE added == {}
  <1>8. /\ added \in SUBSET {AcceptOperation} /\ added \cap (sq \cup kernel \cup EndedAfter) = {}
        /\ AcceptOperation \notin added /\ sq' \cup kernel' = sq \cup kernel \cup added
    BY <1>5
  <1> HIDE DEF added
  <1>9. QED
    BY <1>2, <1>3, <1>4, <1>5, <1>6, <1>7, <1>8, ListenerIsSafe, OperationNames

LEMMA AcceptCancelCompletedIsSafe ==
    ASSUME IInv, AcceptCancelCompleted PROVE Safe
  <1>1. /\ TypeOK /\ CompletionsAreExclusive /\ ReferencesMatchOperations /\ AcceptArmed
        /\ DescriptorsAccounted
    BY DEF IInv
  <1>2. cq # <<>> /\ Head(cq).op = AcceptCancel /\ AcceptCancel # AcceptOperation
    BY OperationNames DEF AcceptCancelCompleted, Completes
  <1>3. Head(cq).fd = NULL
    BY <1>2, ListenerCqe
  <1>4. open' = open \ {Head(cq).fd}
    BY <1>1, <1>3, WorkerAssumption DEF AcceptCancelCompleted, TypeOK
  <1>5. QED
    BY <1>1, <1>2, <1>4, ListenerIsSafe
       DEF AcceptCancelCompleted, Completes, TypeOK, CompletionsAreExclusive, AcceptArmed

LEMMA AcceptEndedIsSafe ==
    ASSUME IInv, AcceptEnded PROVE Safe
  <1>1. /\ TypeOK /\ CompletionsAreExclusive /\ ReferencesMatchOperations /\ AcceptArmed
    BY DEF IInv
  <1>2. /\ cq # <<>> /\ Head(cq).op[1] = "accept" /\ Head(cq).op \in Operations
    BY <1>1, OldestCqe DEF AcceptEnded, Completes, TypeOK
  <1>3. Head(cq).op = AcceptOperation
    BY <1>2, OperationNames
  <1>4. Head(cq).more \in BOOLEAN /\ Head(cq).fd = NULL
    BY <1>2, <1>3, ListenerCqe DEF AcceptEnded
  <1>5. PICK r \in Reads : /\ stopping' = (r[3] \/ Head(cq).res = "error")
                           /\ RearmAccept([sq |-> sq, kernel |-> kernel], ~Head(cq).more,
                                          r[2] \/ Head(cq).res = "error")
    BY DEF AcceptEnded
  <1> DEFINE rearm == ~Head(cq).more /\ ~(r[2] \/ Head(cq).res = "error")
             added == IF rearm THEN {AcceptOperation} ELSE {}
             d == [sq |-> sq, kernel |-> kernel]
  <1>6. r[2] \in BOOLEAN /\ r[3] \in BOOLEAN /\ (r[2] => r[3]) /\ (stopping => r[3])
    BY <1>1, ReadsGrow DEF TypeOK
  <1>7. ~Head(cq).more => AcceptOperation \notin sq \cup kernel \cup EndedAfter
    BY <1>1, <1>2, <1>3, OutstandingAfter
  <1>8. /\ sq' \subseteq Operations /\ kernel' \subseteq Operations /\ sq' \cap kernel' = {}
        /\ kernel \subseteq kernel'
        /\ sq' \cup kernel' = sq \cup kernel \cup added
        /\ accept_active' = (rearm \/ (accept_active /\ Head(cq).more))
    <2>1. d.sq = sq /\ d.kernel = kernel /\ d = [sq |-> d.sq, kernel |-> d.kernel]
      OBVIOUS
    <2> HIDE DEF d
    <2>2. RearmAccept(d, ~Head(cq).more, r[2] \/ Head(cq).res = "error")
      BY <1>5 DEF d
    <2>3. QED
      BY <1>1, <1>4, <1>7, <2>1, <2>2, RearmAcceptAdds DEF TypeOK, CompletionsAreExclusive
  <1>9. added \in SUBSET {AcceptOperation} /\ added \cap (sq \cup kernel \cup EndedAfter) = {}
    BY <1>7
  <1>10. open' = open \ {Head(cq).fd}
    BY <1>1, <1>4, WorkerAssumption DEF AcceptEnded, TypeOK
  <1>11. /\ cq' = Tail(cq) /\ pc' = "reap"
         /\ UNCHANGED <<shutdown_started, doomed, free, arrivals, peer, wire, connections, conn>>
         /\ accept_cancel_active' = accept_cancel_active
    BY DEF AcceptEnded, Completes
  <1>12. ~stopping' => accept_active'
    BY <1>1, <1>5, <1>6, <1>8 DEF AcceptArmed
  <1> HIDE DEF rearm
  <1>13. accept_active' <=> AcceptOperation \in added \/ (accept_active /\ ~(Head(cq).op = AcceptOperation /\ ~Head(cq).more))
    BY <1>3, <1>8
  <1>14. accept_active' \in BOOLEAN
    BY <1>1, <1>8 DEF TypeOK, rearm
  <1> HIDE DEF added
  <1>15. QED
    BY <1>1, <1>2, <1>3, <1>5, <1>6, <1>8, <1>9, <1>10, <1>11, <1>12, <1>13, <1>14,
       ListenerIsSafe, OperationNames DEF TypeOK

LEMMA AcceptedConnectionIsSafe ==
    ASSUME IInv, AcceptedConnection PROVE Safe
  <1>1. /\ TypeOK /\ CompletionsAreExclusive /\ ReferencesMatchOperations /\ AcceptArmed
        /\ DescriptorsAccounted /\ SendsBounded /\ NothingUnanswered /\ ShutdownOnce
    BY DEF IInv
  <1>2. /\ cq # <<>> /\ Head(cq).op[1] = "accept" /\ Head(cq).op \in Operations
        /\ Head(cq).res = "ok"
    BY <1>1, OldestCqe DEF AcceptedConnection, Completes, TypeOK
  <1>3. Head(cq).op = AcceptOperation
    BY <1>2, OperationNames
  <1>4. Head(cq).more \in BOOLEAN /\ Head(cq).fd # NULL /\ Head(cq).fd \in Fds
    BY <1>2, <1>3, ListenerCqe
  <1>5. PICK c \in Fds : c = Head(cq).fd /\ c # NULL /\ Head(cq).more \in BOOLEAN
    BY <1>4
  <1> DEFINE d == SubmitReceive(Context(c, Zeroed))
  <1>6. Head(cq) = cq[1] /\ 1 \in DOMAIN cq
    BY <1>1, <1>2, OldestCqe DEF TypeOK
  <1>7. c \notin connections
    BY <1>1, <1>5, <1>6 DEF DescriptorsAccounted
  <1>8. ~Outstanding(Receive(c)) /\ ~Outstanding(Send(c)) /\ ~Outstanding(Cancel(c))
    BY <1>1, <1>5, <1>7 DEF ReferencesMatchOperations
  <1>9. PICK r \in Reads :
           /\ ~r[1] /\ stopping' = r[3]
           /\ connections' = connections \cup {c} /\ conn' = [conn EXCEPT ![c] = d.k]
           /\ RearmAccept(d, ~Head(cq).more, r[2])
    BY <1>5 DEF AcceptedConnection
  <1>10. r[2] \in BOOLEAN /\ r[3] \in BOOLEAN /\ (r[2] => r[3]) /\ (stopping => r[3])
    BY <1>1, ReadsGrow DEF TypeOK
  <1>11. /\ Receive(c) \in Operations /\ Send(c) \in Operations /\ Cancel(c) \in Operations
         /\ Receive(c) # Send(c) /\ Receive(c) # Cancel(c)
         /\ {Receive(c), Send(c), Cancel(c)} \cap {AcceptOperation, AcceptCancel} = {}
         /\ AcceptOperation \in Operations /\ AcceptCancel \in Operations /\ AcceptOperation # AcceptCancel
    BY <1>5, OperationNames
  <1> DEFINE f == Context(c, Zeroed)
  <1>12. /\ Zeroed \in Connection /\ Zeroed.references = 0 /\ ~Zeroed.receive_active
         /\ ~Zeroed.cancel_pending /\ ~Zeroed.sending /\ ~Zeroed.failed /\ Zeroed.sent = 0
         /\ Zeroed.input = <<>>
    BY WorkerAssumption DEF Zeroed, Connection
  <1>13. f.fd = c /\ f.k = Zeroed /\ f.sq = sq /\ f.kernel = kernel /\ f \in Contexts
    BY <1>1, <1>5, <1>12 DEF Context, Contexts, TypeOK
  <1>14. Queues(f, EndedAfter) /\ Live(f, EndedAfter) = sq \cup kernel \cup EndedAfter
    BY <1>1, <1>13 DEF Queues, Live, CompletionsAreExclusive, EndedAfter
  <1>15. /\ Receive(c) \notin Live(f, EndedAfter) /\ Send(c) \notin Live(f, EndedAfter)
         /\ Cancel(c) \notin Live(f, EndedAfter)
    BY <1>8, <1>14 DEF Outstanding, EndedAfter
  <1> HIDE DEF f, d
  <1>16. Good(f, EndedAfter, 0)
    BY <1>12, <1>13, <1>14, <1>15, WorkerAssumption DEF Good, Count, Live
  <1>17. /\ Good(d, EndedAfter, 0) /\ Extends(f, d, EndedAfter)
         /\ d.k = [Zeroed EXCEPT !.receive_active = TRUE, !.references = @ + 1]
    BY <1>12, <1>13, <1>16, SubmitReceiveGood DEF f, d
  <1>18. /\ d.k \in Connection /\ SameInput(Zeroed, d.k) /\ d.k.receive_active
         /\ d.k.references = 1 /\ ~d.k.cancel_pending
    <2>1. LET j == [Zeroed EXCEPT !.receive_active = TRUE, !.references = @ + 1]
          IN /\ j \in Connection /\ SameInput(Zeroed, j)
             /\ j.receive_active /\ j.references = Zeroed.references + 1
             /\ j.cancel_pending = Zeroed.cancel_pending
      BY <1>12, ArmedConnection
    <2>2. QED
      BY <1>12, <1>17, <2>1
  <1>19. /\ d.fd = c /\ d \in Contexts /\ d.sq \cap d.kernel = {}
         /\ kernel \subseteq d.kernel
         /\ d.sq \cup d.kernel = sq \cup kernel \cup {Receive(c)}
    <2>1. /\ d.fd = c /\ d \in Contexts /\ d.sq \cap d.kernel = {} /\ kernel \subseteq d.kernel
          /\ sq \cup kernel \subseteq d.sq \cup d.kernel
          /\ d.sq \cup d.kernel \subseteq sq \cup kernel \cup {Receive(c), Send(c), Cancel(c)}
      BY <1>13, <1>17 DEF Extends, Good, Queues
    <2>2. /\ Receive(c) \in d.sq \cup d.kernel \cup EndedAfter
          /\ Send(c) \notin d.sq \cup d.kernel \cup EndedAfter
          /\ Cancel(c) \notin d.sq \cup d.kernel \cup EndedAfter
      BY <1>12, <1>17, <1>18, <2>1 DEF Good, Live, SameInput
    <2>3. Receive(c) \notin EndedAfter
      BY <1>14, <1>15
    <2>4. QED
      BY <2>1, <2>2, <2>3
  <1> DEFINE rearm == ~Head(cq).more /\ ~r[2]
             added == {Receive(c)} \cup (IF rearm THEN {AcceptOperation} ELSE {})
  <1>20. ~Head(cq).more => AcceptOperation \notin sq \cup kernel \cup EndedAfter
    BY <1>1, <1>2, <1>3, OutstandingAfter
  <1>21. /\ sq' \subseteq Operations /\ kernel' \subseteq Operations /\ sq' \cap kernel' = {}
         /\ kernel \subseteq kernel'
         /\ sq' \cup kernel' = sq \cup kernel \cup added
         /\ accept_active' = (rearm \/ (accept_active /\ Head(cq).more))
    <2>1. /\ d.sq \subseteq Operations /\ d.kernel \subseteq Operations
          /\ ~Head(cq).more => AcceptOperation \notin d.sq \cup d.kernel
      BY <1>11, <1>19, <1>20 DEF Contexts
    <2>2. /\ sq' \subseteq Operations /\ kernel' \subseteq Operations /\ sq' \cap kernel' = {}
          /\ d.kernel \subseteq kernel'
          /\ sq' \cup kernel' = d.sq \cup d.kernel \cup (IF rearm THEN {AcceptOperation} ELSE {})
          /\ accept_active' = (rearm \/ (accept_active /\ Head(cq).more))
      <3> DEFINE terminal == ~Head(cq).more
                 stop == r[2]
      <3>1. /\ terminal \in BOOLEAN /\ stop \in BOOLEAN /\ accept_active \in BOOLEAN
            /\ terminal => AcceptOperation \notin d.sq \cup d.kernel
            /\ RearmAccept(d, terminal, stop)
        BY <1>1, <1>5, <1>9, <1>10, <2>1 DEF TypeOK
      <3> HIDE DEF terminal, stop
      <3>2. /\ sq' \subseteq Operations /\ kernel' \subseteq Operations /\ sq' \cap kernel' = {}
            /\ d.kernel \subseteq kernel'
            /\ sq' \cup kernel' = d.sq \cup d.kernel
                                  \cup (IF terminal /\ ~stop THEN {AcceptOperation} ELSE {})
            /\ accept_active' = ((terminal /\ ~stop) \/ (accept_active /\ ~terminal))
        BY <1>19, <2>1, <3>1, RearmAcceptAdds
      <3>3. QED
        BY <1>5, <3>2 DEF terminal, stop
    <2>3. QED
      BY <1>19, <2>2
  <1>22. added \in SUBSET Operations /\ added \cap (sq \cup kernel \cup EndedAfter) = {}
    BY <1>11, <1>14, <1>15, <1>20
  <1>23. /\ Receive(c) \in added /\ Send(c) \notin added /\ Cancel(c) \notin added
         /\ AcceptCancel \notin added /\ (AcceptOperation \in added <=> rearm)
         /\ \A b \in Fds \ {c} : {Receive(b), Send(b), Cancel(b)} \cap added = {}
    <2>1. \A b \in Fds \ {c} :
             {Receive(b), Send(b), Cancel(b)} \cap {Receive(c), AcceptOperation} = {}
      BY <1>5, OperationNames
    <2>2. QED
      BY <1>11, <2>1
  <1>24. accept_active' \in BOOLEAN
    BY <1>1, <1>21 DEF TypeOK
  <1>25. ~stopping' => accept_active'
    BY <1>1, <1>9, <1>10, <1>21 DEF AcceptArmed
  <1>26. /\ cq' = Tail(cq) /\ pc' = "reap" /\ open' = open
         /\ UNCHANGED <<shutdown_started, doomed, free, arrivals, peer, wire>>
         /\ accept_cancel_active' = accept_cancel_active
    BY DEF AcceptedConnection, Completes
  <1>27. /\ conn' \in [Fds -> Connection] /\ conn'[c] = d.k
         /\ \A b \in Fds \ {c} : conn'[b] = conn[b]
    BY <1>1, <1>5, <1>9, <1>18 DEF TypeOK
  <1>28. accept_active' <=> AcceptOperation \in added \/ (accept_active /\ Head(cq).more)
    BY <1>21, <1>23
  <1> HIDE DEF rearm, added
  <1>29. /\ CqesWellFormed' /\ DoomedInKernel' /\ CompletionsAreExclusive'
         /\ BuffersConserved' /\ CleanExit' /\ SendsBounded' /\ cq' \in Seq(Cqes)
         /\ \A op \in Operations : Outstanding(op)'
                <=> op \in added \/ (Outstanding(op) /\ ~(op = Head(cq).op /\ ~Head(cq).more))
         /\ \A i \in DOMAIN cq' : i + 1 \in DOMAIN cq /\ i + 1 # 1 /\ cq'[i] = cq[i + 1]
         /\ \A i \in DOMAIN cq : i # 1 => i - 1 \in DOMAIN cq' /\ cq'[i - 1] = cq[i]
    <2>1. \A b \in Fds : /\ Send(b) \notin added
                         /\ conn'[b].sent = conn[b].sent \/ conn'[b].sent = 0
                         /\ conn'[b].sent # conn[b].sent => ~Outstanding(Send(b))
      BY <1>8, <1>12, <1>18, <1>23, <1>27 DEF SameInput
    <2>2. QED
      BY <1>2, <1>3, <1>21, <1>22, <1>26, <1>27, <2>1, ListenerCompletes
  <1>30. /\ Outstanding(Receive(c))' /\ ~Outstanding(Send(c))' /\ ~Outstanding(Cancel(c))'
         /\ \A b \in Fds \ {c} :
               /\ Outstanding(Receive(b))' <=> Outstanding(Receive(b))
               /\ Outstanding(Send(b))' <=> Outstanding(Send(b))
               /\ Outstanding(Cancel(b))' <=> Outstanding(Cancel(b))
    <2>1. /\ Outstanding(Receive(c))' /\ ~Outstanding(Send(c))' /\ ~Outstanding(Cancel(c))'
      BY <1>8, <1>11, <1>23, <1>29
    <2>2. \A b \in Fds : /\ {Receive(b), Send(b), Cancel(b)} \subseteq Operations
                          /\ AcceptOperation \notin {Receive(b), Send(b), Cancel(b)}
      BY OperationNames
    <2>3. QED
      BY <1>3, <1>23, <1>29, <2>1, <2>2
  <1>31. TypeOK'
    BY <1>1, <1>5, <1>9, <1>10, <1>21, <1>24, <1>26, <1>27, <1>29 DEF TypeOK
  <1>32. ReferencesMatchOperations'
    <2>1. /\ accept_active' <=> Outstanding(AcceptOperation)'
          /\ accept_cancel_active' <=> Outstanding(AcceptCancel)'
      BY <1>1, <1>3, <1>5, <1>11, <1>23, <1>26, <1>28, <1>29 DEF ReferencesMatchOperations
    <2>2. ASSUME NEW b \in connections'
          PROVE  /\ conn'[b].references = Count(Outstanding(Receive(b))') + Count(Outstanding(Send(b))')
                                          + Count(Outstanding(Cancel(b))')
                 /\ conn'[b].references > 0
                 /\ conn'[b].receive_active <=> Outstanding(Receive(b))'
                 /\ conn'[b].cancel_pending <=> Outstanding(Cancel(b))'
                 /\ conn'[b].sending /\ ~conn'[b].failed => Outstanding(Send(b))'
                 /\ Outstanding(Send(b))' => conn'[b].sending
      <3>1. CASE b = c
        <4>1. /\ conn'[c].references = 1 /\ conn'[c].receive_active /\ ~conn'[c].cancel_pending
              /\ ~conn'[c].sending
          BY <1>12, <1>18, <1>27 DEF SameInput
        <4>2. 1 = Count(Outstanding(Receive(c))') + Count(Outstanding(Send(c))')
                  + Count(Outstanding(Cancel(c))')
          BY <1>30 DEF Count
        <4>3. QED
          BY <1>30, <3>1, <4>1, <4>2 DEF Count
      <3>2. CASE b # c
        <4>1. b \in connections /\ b \in Fds \ {c}
          BY <1>1, <1>9, <2>2, <3>2 DEF TypeOK
        <4>2. QED
          BY <1>1, <1>27, <1>30, <4>1 DEF ReferencesMatchOperations, Count
      <3>3. QED
        BY <3>1, <3>2
    <2>3. \A b \in Fds \ connections' :
             ~Outstanding(Receive(b))' /\ ~Outstanding(Send(b))' /\ ~Outstanding(Cancel(b))'
      BY <1>1, <1>9, <1>30 DEF ReferencesMatchOperations
    <2>4. QED
      BY <2>1, <2>2, <2>3 DEF ReferencesMatchOperations, Count
  <1>33. DescriptorsAccounted'
    <2>1. \A g : g \in open <=> g \in connections \/ \E i \in DOMAIN cq : cq[i].fd # NULL /\ cq[i].fd = g
      BY <1>1 DEF DescriptorsAccounted
    <2>2. \A i \in DOMAIN cq : cq[i].fd \notin connections
      BY <1>1 DEF DescriptorsAccounted
    <2>3. \A i, j \in DOMAIN cq : cq[i].fd = cq[j].fd /\ cq[i].fd # NULL => i = j
      BY <1>1 DEF DescriptorsAccounted
    <2>4. cq[1].fd = c
      BY <1>5, <1>6
    <2>5. \A i \in DOMAIN cq' : cq'[i].fd \notin connections'
      BY <1>5, <1>6, <1>9, <1>29, <2>2, <2>3, <2>4
    <2>6. \A g : (\E i \in DOMAIN cq : cq[i].fd # NULL /\ cq[i].fd = g)
                     <=> g = c \/ \E i \in DOMAIN cq' : cq'[i].fd # NULL /\ cq'[i].fd = g
      BY <1>5, <1>6, <1>29, <2>4
    <2>7. \A g : g \in open' <=> g \in connections' \/ \E i \in DOMAIN cq' : cq'[i].fd # NULL /\ cq'[i].fd = g
      BY <1>9, <1>26, <2>1, <2>6
    <2> DEFINE waiting == {cq'[i].fd : i \in {j \in DOMAIN cq' : cq'[j].fd # NULL}}
    <2>8. \A g : g \in waiting <=> \E i \in DOMAIN cq' : cq'[i].fd # NULL /\ cq'[i].fd = g
      OBVIOUS
    <2> HIDE DEF waiting
    <2>9. open' = connections' \cup waiting
      BY <2>7, <2>8
    <2>10. QED
      BY <1>29, <2>3, <2>5, <2>9 DEF DescriptorsAccounted, waiting
  <1>34. NothingUnanswered'
    <2>1. Settled(d.k)
      BY <1>12, <1>18 DEF Settled, SameInput
    <2>2. ASSUME ~stopping', NEW b \in connections'
          PROVE  Settled(conn'[b])
      BY <1>1, <1>9, <1>10, <1>27, <2>1, <2>2 DEF NothingUnanswered, TypeOK
    <2>3. QED
      BY <2>2 DEF NothingUnanswered, Settled, Parsed, AtEndOfStream
  <1>35. AcceptArmed' /\ ShutdownOnce'
    BY <1>1, <1>26, <1>25 DEF AcceptArmed, ShutdownOnce
  <1>36. ReplyKept /\ CancelUndisturbed /\ Dropped
    BY <1>8, <1>9, <1>27, <1>30 DEF ReplyKept, CancelUndisturbed, Dropped
  <1>37. Lived
    <2>1. ConnectionBegins(c)
      BY <1>7, <1>9, <1>30 DEF ConnectionBegins, Others, Mine
    <2>2. QED
      BY <1>5, <2>1 DEF Lived
  <1>38. QED
    BY <1>29, <1>31, <1>32, <1>33, <1>34, <1>35, <1>36, <1>37 DEF IInv, Safe

-----------------------------------------------------------------------------
(* main and the signal handler.                                            *)

\* With nothing left to drain nothing is outstanding.
LEMMA DrainedIsClean ==
    ASSUME IInv, ~Draining
    PROVE  sq = {} /\ kernel = {} /\ cq = <<>> /\ free = Buffers /\ open = {}
  <1>1. /\ TypeOK /\ ReferencesMatchOperations /\ CompletionsAreExclusive
        /\ DescriptorsAccounted /\ BuffersConserved
    BY DEF IInv
  <1>2. ~accept_active /\ ~accept_cancel_active /\ connections = {}
    BY DEF Draining
  <1>3. \A op \in Operations : ~Outstanding(op)
    BY <1>1, <1>2, OperationNames DEF ReferencesMatchOperations
  <1>4. sq = {} /\ kernel = {}
    BY <1>1, <1>3 DEF TypeOK, Outstanding
  <1>5. DOMAIN cq = {}
    <2>1. ASSUME NEW i \in DOMAIN cq
          PROVE  FALSE
      <3>1. cq[i].op \in Operations
        BY <1>1, QueuedCqes DEF TypeOK
      <3>2. CASE cq[i].more
        BY <1>1, <1>3, <3>1, <3>2 DEF CompletionsAreExclusive, Outstanding
      <3>3. CASE ~cq[i].more
        BY <1>3, <3>1, <3>3 DEF Outstanding, Ended
      <3>4. QED
        BY <3>2, <3>3
    <2>2. QED
      BY <2>1
  <1>6. cq = <<>>
    <2>1. cq \in Seq(Cqes) /\ Len(cq) \in Nat /\ DOMAIN cq = 1..Len(cq)
      BY <1>1, LenProperties DEF TypeOK
    <2>2. Len(cq) = 0
      BY <1>5, <2>1
    <2>3. QED
      BY <2>1, <2>2, EmptySeq
  <1>7. free = Buffers /\ open = {}
    BY <1>1, <1>2, <1>5 DEF BuffersConserved, DescriptorsAccounted
  <1>8. QED
    BY <1>4, <1>6, <1>7

\* A step of main or of the signal handler that submits no new operation.
LEMMA MainIsSafe ==
    ASSUME IInv,
           UNCHANGED <<shutdown_started, accept_active, accept_cancel_active, connections, conn,
                       free, doomed, cq, network>>,
           kernel \subseteq kernel', sq' \cup kernel' = sq \cup kernel, sq' \cap kernel' = {},
           stopping' \in BOOLEAN, stopping => stopping',
           pc' \in {"loop", "wait", "reap", "exited"}, pc' = "exited" => pc = "exited" \/ ~Draining
    PROVE  Safe
  <1>1. /\ TypeOK /\ CqesWellFormed /\ SendsBounded /\ DoomedInKernel /\ CompletionsAreExclusive
        /\ ReferencesMatchOperations /\ DescriptorsAccounted /\ BuffersConserved /\ CleanExit
        /\ NothingUnanswered /\ AcceptArmed /\ ShutdownOnce
    BY DEF IInv
  <1>2. \A op : Outstanding(op)' <=> Outstanding(op)
    BY DEF Outstanding, Ended
  <1>3. TypeOK'
    BY <1>1 DEF TypeOK, network
  <1>4. CqesWellFormed'
    BY <1>1 DEF CqesWellFormed
  <1>5. SendsBounded'
    BY <1>1 DEF SendsBounded
  <1>6. DoomedInKernel'
    BY <1>1 DEF DoomedInKernel
  <1>7. CompletionsAreExclusive'
    <2>1. \A i \in DOMAIN cq : cq[i].more => cq[i].op \in kernel' \/ Ended(cq[i].op)
      BY <1>1 DEF CompletionsAreExclusive
    <2>2. QED
      BY <1>1, <2>1 DEF CompletionsAreExclusive, Ended
  <1>8. ReferencesMatchOperations'
    BY <1>1, <1>2 DEF ReferencesMatchOperations, Count
  <1>9. DescriptorsAccounted' /\ BuffersConserved'
    BY <1>1 DEF DescriptorsAccounted, BuffersConserved, network
  <1>10. CleanExit'
    <2>1. pc' = "exited" => sq = {} /\ kernel = {} /\ cq = <<>> /\ free = Buffers /\ open = {}
      BY <1>1, DrainedIsClean DEF CleanExit
    <2>2. QED
      BY <2>1 DEF CleanExit, network
  <1>11. NothingUnanswered' /\ AcceptArmed' /\ ShutdownOnce'
    BY <1>1 DEF NothingUnanswered, Settled, Parsed, AtEndOfStream, AcceptArmed, ShutdownOnce
  <1>12. ReplyKept /\ CancelUndisturbed /\ Dropped
    BY <1>2 DEF ReplyKept, CancelUndisturbed, Dropped
  <1>13. Lived
    BY <1>2 DEF Lived, OperationsBegin
  <1>14. QED
    BY <1>3, <1>4, <1>5, <1>6, <1>7, <1>8, <1>9, <1>10, <1>11, <1>12, <1>13 DEF IInv, Safe

LEMMA StutterIsSafe ==
    ASSUME IInv, UNCHANGED vars PROVE Safe
  BY MainIsSafe DEF vars, network, IInv, TypeOK, CompletionsAreExclusive

LEMMA IdleStepsAreSafe ==
    ASSUME IInv, Submit \/ SubmitInterrupted \/ WaitTimedOut \/ BatchReaped \/ Exit \/ OnSignal
    PROVE  Safe
  <1>1. TypeOK /\ sq \cap kernel = {}
    BY DEF IInv, CompletionsAreExclusive
  <1>2. CASE Submit
    BY <1>1, <1>2, MainIsSafe DEF Submit, TypeOK
  <1>3. CASE SubmitInterrupted
    BY <1>1, <1>3, MainIsSafe DEF SubmitInterrupted, TypeOK
  <1>4. CASE WaitTimedOut \/ BatchReaped \/ Exit
    BY <1>1, <1>4, MainIsSafe DEF WaitTimedOut, BatchReaped, Exit, TypeOK
  <1>5. CASE OnSignal
    BY <1>1, <1>5, MainIsSafe DEF OnSignal, TypeOK
  <1>6. QED
    BY <1>2, <1>3, <1>4, <1>5

LEMMA StartShutdownIsSafe ==
    ASSUME IInv, StartShutdown PROVE Safe
  <1> DEFINE new == {Cancel(b) : b \in Cancellable}
                    \cup (IF accept_active THEN {AcceptCancel} ELSE {})
  <1>1. /\ TypeOK /\ CqesWellFormed /\ SendsBounded /\ DoomedInKernel /\ CompletionsAreExclusive
        /\ ReferencesMatchOperations /\ DescriptorsAccounted /\ BuffersConserved
        /\ NothingUnanswered /\ AcceptArmed /\ ShutdownOnce
    BY DEF IInv
  <1>2. /\ stopping /\ ~shutdown_started /\ shutdown_started' = TRUE
        /\ accept_cancel_active' = (accept_active \/ accept_cancel_active)
        /\ sq' = {} /\ kernel' = kernel \cup sq \cup new /\ pc' = "wait"
        /\ UNCHANGED <<stopping, accept_active, connections, free, doomed, cq,
                       open, arrivals, peer, wire>>
    BY DEF StartShutdown, network
  <1>3. \A b \in Cancellable : /\ b \in Fds /\ b \in connections
                               /\ conn[b].receive_active /\ ~conn[b].cancel_pending
    BY <1>1 DEF Cancellable, TypeOK
  <1>4. /\ conn' \in [Fds -> Connection]
        /\ \A b \in Fds \ Cancellable : conn'[b] = conn[b]
        /\ \A b \in Cancellable :
              /\ SameInput(conn[b], conn'[b]) /\ conn'[b].cancel_pending
              /\ conn'[b].references = conn[b].references + 1
              /\ conn'[b].receive_active = conn[b].receive_active
    <2> DEFINE k(b) == [conn[b] EXCEPT !.cancel_pending = TRUE, !.references = @ + 1]
    <2>1. conn' = [b \in Fds |-> IF b \in Cancellable THEN k(b) ELSE conn[b]]
      BY DEF StartShutdown
    <2>2. \A b \in Fds : conn[b] \in Connection
      BY <1>1 DEF TypeOK
    <2>3. \A b \in Fds : /\ k(b) \in Connection /\ SameInput(conn[b], k(b)) /\ k(b).cancel_pending
                         /\ k(b).references = conn[b].references + 1
                         /\ k(b).receive_active = conn[b].receive_active
      BY <2>2, CancellingConnection
    <2> HIDE DEF k
    <2>4. QED
      BY <1>3, <2>1, <2>2, <2>3
  <1>5. /\ AcceptCancel \in Operations /\ AcceptOperation \in Operations
        /\ \A b \in Fds : /\ {Receive(b), Send(b), Cancel(b)} \subseteq Operations
                          /\ {Receive(b), Send(b), Cancel(b)} \cap {AcceptOperation, AcceptCancel} = {}
                          /\ Cancel(b) # Receive(b) /\ Cancel(b) # Send(b)
        /\ \A a, b \in Fds : a # b =>
              {Receive(a), Send(a), Cancel(a)} \cap {Receive(b), Send(b), Cancel(b)} = {}
        /\ AcceptOperation # AcceptCancel
    BY OperationNames
  <1>6. /\ AcceptCancel \in new <=> accept_active
        /\ AcceptOperation \notin new
        /\ \A b \in Fds : /\ Cancel(b) \in new <=> b \in Cancellable
                          /\ Receive(b) \notin new /\ Send(b) \notin new
        /\ new \subseteq Operations
    <2>1. \A op : op \in new <=> (op = AcceptCancel /\ accept_active) \/ \E b \in Cancellable : op = Cancel(b)
      OBVIOUS
    <2> HIDE DEF new
    <2>2. ASSUME NEW b \in Fds
          PROVE  /\ Cancel(b) \in new <=> b \in Cancellable
                 /\ Receive(b) \notin new /\ Send(b) \notin new
      BY <1>3, <1>5, <2>1
    <2>3. \A b \in Cancellable : Cancel(b) \in Operations \ {AcceptOperation, AcceptCancel}
      BY <1>3, <1>5
    <2>4. /\ AcceptCancel \in new <=> accept_active
          /\ AcceptOperation \notin new
          /\ new \subseteq Operations
      BY <1>5, <2>1, <2>3
    <2>5. QED
      BY <2>2, <2>4
  <1>7. \A op \in new : ~Outstanding(op)
    <2>1. \A b \in Cancellable : ~Outstanding(Cancel(b))
      BY <1>1, <1>3 DEF ReferencesMatchOperations
    <2>2. ~Outstanding(AcceptCancel)
      BY <1>1, <1>2 DEF ReferencesMatchOperations, ShutdownOnce
    <2>3. QED
      BY <2>1, <2>2
  <1> HIDE DEF new
  <1>8. \A op : Outstanding(op)' <=> Outstanding(op) \/ op \in new
    BY <1>2 DEF Outstanding, Ended
  <1>9. TypeOK'
    <2>1. accept_cancel_active' \in BOOLEAN
      BY <1>1, <1>2 DEF TypeOK
    <2>2. QED
      BY <1>1, <1>2, <1>4, <1>6, <2>1 DEF TypeOK
  <1>10. CqesWellFormed'
    BY <1>1, <1>2 DEF CqesWellFormed
  <1>11. SendsBounded'
    <2>1. \A b \in Fds : conn'[b].sent = conn[b].sent
      BY <1>4 DEF SameInput
    <2>2. \A b \in Fds : Send(b) \in sq' \cup kernel' => Send(b) \in sq \cup kernel
      BY <1>2, <1>6
    <2>3. QED
      BY <1>1, <1>2, <2>1, <2>2 DEF SendsBounded
  <1>12. DoomedInKernel'
    BY <1>1, <1>2 DEF DoomedInKernel
  <1>13. CompletionsAreExclusive'
    <2>1. \A op \in Operations : Ended(op)' => op \notin sq' \cup kernel'
      BY <1>1, <1>2, <1>7 DEF CompletionsAreExclusive, Outstanding, Ended
    <2>2. \A i \in DOMAIN cq : cq[i].more => cq[i].op \in kernel' \/ Ended(cq[i].op)
      BY <1>1, <1>2 DEF CompletionsAreExclusive
    <2>3. QED
      BY <1>1, <1>2, <2>1, <2>2 DEF CompletionsAreExclusive, Ended
  <1>14. ReferencesMatchOperations'
    <2>1. ASSUME NEW b \in connections
          PROVE  /\ conn'[b].references = Count(Outstanding(Receive(b))') + Count(Outstanding(Send(b))')
                                          + Count(Outstanding(Cancel(b))')
                 /\ conn'[b].references > 0
                 /\ conn'[b].receive_active <=> Outstanding(Receive(b))'
                 /\ conn'[b].cancel_pending <=> Outstanding(Cancel(b))'
                 /\ conn'[b].sending /\ ~conn'[b].failed => Outstanding(Send(b))'
                 /\ Outstanding(Send(b))' => conn'[b].sending
      <3>1. /\ b \in Fds
            /\ Outstanding(Receive(b))' <=> Outstanding(Receive(b))
            /\ Outstanding(Send(b))' <=> Outstanding(Send(b))
            /\ Outstanding(Cancel(b))' <=> Outstanding(Cancel(b)) \/ b \in Cancellable
        BY <1>1, <1>6, <1>8 DEF TypeOK
      <3>2. CASE b \in Cancellable
        BY <1>1, <1>3, <1>4, <3>1, <3>2 DEF ReferencesMatchOperations, Count, SameInput
      <3>3. CASE b \notin Cancellable
        BY <1>1, <1>4, <3>1, <3>3 DEF ReferencesMatchOperations, Count
      <3>4. QED
        BY <3>2, <3>3
    <2>2. \A b \in Fds \ connections :
             ~Outstanding(Receive(b))' /\ ~Outstanding(Send(b))' /\ ~Outstanding(Cancel(b))'
      BY <1>1, <1>3, <1>6, <1>8 DEF ReferencesMatchOperations
    <2>3. /\ accept_active' <=> Outstanding(AcceptOperation)'
          /\ accept_cancel_active' <=> Outstanding(AcceptCancel)'
      BY <1>1, <1>2, <1>6, <1>8 DEF ReferencesMatchOperations
    <2>4. QED
      BY <1>2, <2>1, <2>2, <2>3 DEF ReferencesMatchOperations, Count
  <1>15. DescriptorsAccounted' /\ BuffersConserved'
    BY <1>1, <1>2 DEF DescriptorsAccounted, BuffersConserved
  <1>16. CleanExit' /\ NothingUnanswered' /\ AcceptArmed' /\ ShutdownOnce'
    BY <1>2 DEF CleanExit, NothingUnanswered, AcceptArmed, ShutdownOnce
  <1>17. ReplyKept /\ CancelUndisturbed /\ Dropped
    <2>1. \A b \in Fds : UNCHANGED <<conn[b].output, conn[b].sent>>
      BY <1>4 DEF SameInput
    <2>2. \A b \in Fds : Outstanding(Receive(b))' <=> Outstanding(Receive(b))
      BY <1>6, <1>8
    <2>3. QED
      BY <1>2, <2>1, <2>2 DEF ReplyKept, CancelUndisturbed, Dropped
  <1>18. Lived
    BY <1>2, <1>8 DEF Lived, OperationsBegin
  <1>19. QED
    BY <1>9, <1>10, <1>11, <1>12, <1>13, <1>14, <1>15, <1>16, <1>17, <1>18 DEF IInv, Safe

-----------------------------------------------------------------------------
(* The kernel.                                                             *)

LEMMA AppendQueue ==
    ASSUME cq \in Seq(Cqes), NEW cqe \in Cqes, Post(cqe)
    PROVE  /\ cq' \in Seq(Cqes)
           /\ DOMAIN cq' = DOMAIN cq \cup {Len(cq) + 1} /\ Len(cq) + 1 \notin DOMAIN cq
           /\ Len(cq) \in Nat /\ \A i \in DOMAIN cq : i \in Nat /\ i < Len(cq) + 1
           /\ \A i \in DOMAIN cq : cq'[i] = cq[i]
           /\ cq'[Len(cq) + 1] = cqe
           /\ \A op : Ended(op)' <=> Ended(op) \/ (op = cqe.op /\ ~cqe.more)
  <1>1. /\ Len(cq) \in Nat /\ DOMAIN cq = 1..Len(cq)
        /\ cq' = Append(cq, cqe) /\ cq' \in Seq(Cqes) /\ Len(cq') = Len(cq) + 1
        /\ \A i \in 1..Len(cq) : cq'[i] = cq[i]
        /\ cq'[Len(cq) + 1] = cqe
    BY LenProperties, AppendProperties DEF Post
  <1>2. DOMAIN cq' = 1..(Len(cq) + 1)
    BY <1>1, LenProperties
  <1>3. DOMAIN cq' = DOMAIN cq \cup {Len(cq) + 1} /\ Len(cq) + 1 \notin DOMAIN cq
    BY <1>1, <1>2
  <1>4. \A op : Ended(op)' <=> Ended(op) \/ (op = cqe.op /\ ~cqe.more)
    BY <1>1, <1>3 DEF Ended
  <1>5. QED
    BY <1>1, <1>3, <1>4

\* A CQE is posted for a submitted operation, its last one or not.
LEMMA CqePosted ==
    ASSUME IInv, NEW cqe \in Cqes, cqe.op \in kernel,
           Post(cqe), EndUnlessMore(cqe.op, cqe.more),
           cqe.more => cqe.op[1] \in {"accept", "receive"},
           cqe.fd # NULL <=> cqe.op = AcceptOperation /\ cqe.res = "ok",
           cqe.buffer # NULL => cqe.op[1] = "receive",
           cqe.res = "canceled" => cqe.op[1] \in {"accept", "receive"},
           cqe.res = "eof" => cqe.op[1] = "receive",
           \A c \in Fds : cqe.op = Send(c) => conn[c].sent + cqe.count <= ReplyLength,
           cqe.buffer \in free \cup {NULL}, free' = free \ {cqe.buffer},
           cqe.fd \notin open,
           UNCHANGED <<worker, sq>>, open' = open \cup ({cqe.fd} \ {NULL}),
           arrivals' \in 0..MaxArrivals, peer' \in [Fds -> Peers],
           wire' \in [Fds -> Seq((Replies \cup {NULL}) \X Nat)]
    PROVE  Safe
  <1>1. /\ TypeOK /\ CqesWellFormed /\ SendsBounded /\ DoomedInKernel /\ CompletionsAreExclusive
        /\ ReferencesMatchOperations /\ DescriptorsAccounted /\ BuffersConserved /\ CleanExit
        /\ NothingUnanswered /\ AcceptArmed /\ ShutdownOnce
    BY DEF IInv
  <1>2. PICK n \in Nat :
        /\ cq' \in Seq(Cqes)
        /\ DOMAIN cq' = DOMAIN cq \cup {n} /\ n \notin DOMAIN cq
        /\ \A i \in DOMAIN cq : i \in Nat /\ i < n
        /\ \A i \in DOMAIN cq : cq'[i] = cq[i]
        /\ cq'[n] = cqe
        /\ \A op : Ended(op)' <=> Ended(op) \/ (op = cqe.op /\ ~cqe.more)
    <2>1. cq \in Seq(Cqes)
      BY <1>1 DEF TypeOK
    <2>2. Len(cq) + 1 \in Nat
      BY <2>1, LenProperties
    <2>3. QED
      BY <2>1, <2>2, AppendQueue
  <1>3. /\ UNCHANGED <<pc, stopping, shutdown_started, accept_active, accept_cancel_active,
                       connections, conn, sq>>
    BY DEF worker
  <1>4. /\ kernel' = IF cqe.more THEN kernel ELSE kernel \ {cqe.op}
        /\ doomed' = IF cqe.more THEN doomed ELSE doomed \ {cqe.op}
    BY DEF EndUnlessMore, Terminate
  <1>5. \A op : Outstanding(op)' <=> Outstanding(op)
    BY <1>2, <1>3, <1>4 DEF Outstanding
  <1>6. TypeOK'
    <2>1. open' \subseteq Fds
      BY <1>1 DEF TypeOK, Cqes
    <2>2. QED
      BY <1>1, <1>2, <1>3, <1>4, <2>1 DEF TypeOK
  <1>7. CqesWellFormed'
    BY <1>1, <1>2 DEF CqesWellFormed
  <1>8. SendsBounded'
    BY <1>1, <1>2, <1>3, <1>4 DEF SendsBounded
  <1>9. DoomedInKernel'
    BY <1>1, <1>4 DEF DoomedInKernel
  <1>10. ~Ended(cqe.op)
    BY <1>1 DEF CompletionsAreExclusive, Cqes
  <1>11. CompletionsAreExclusive'
    <2>1. sq' \cap kernel' = {} /\ \A op \in Operations : Ended(op)' => op \notin sq' \cup kernel'
      BY <1>1, <1>2, <1>3, <1>4 DEF CompletionsAreExclusive
    <2>2. \A i \in DOMAIN cq : cq[i].op = cqe.op => cq[i].more
      BY <1>10 DEF Ended
    <2>3. \A i, j \in DOMAIN cq' : i < j /\ cq'[i].op = cq'[j].op => cq'[i].more
      BY <1>1, <1>2, <2>2 DEF CompletionsAreExclusive
    <2>4. ASSUME NEW i \in DOMAIN cq', cq'[i].more
          PROVE  cq'[i].op \in kernel' \/ \E j \in DOMAIN cq' : cq'[j].op = cq'[i].op /\ ~cq'[j].more
      <3>1. CASE i = n
        BY <1>2, <1>4, <2>4, <3>1
      <3>2. CASE i # n
        <4>1. i \in DOMAIN cq /\ cq'[i] = cq[i]
          BY <1>2, <3>2
        <4>2. cq[i].op \in kernel \/ Ended(cq[i].op)
          BY <1>1, <2>4, <4>1 DEF CompletionsAreExclusive
        <4>3. CASE Ended(cq[i].op)
          BY <1>2, <4>1, <4>3 DEF Ended
        <4>4. CASE cq[i].op \in kernel
          BY <1>2, <1>4, <4>1, <4>4
        <4>5. QED
          BY <4>2, <4>3, <4>4
      <3>3. QED
        BY <3>1, <3>2
    <2>5. QED
      BY <2>1, <2>3, <2>4 DEF CompletionsAreExclusive, Ended
  <1>12. ReferencesMatchOperations'
    BY <1>1, <1>3, <1>5 DEF ReferencesMatchOperations, Count
  <1>13. DescriptorsAccounted'
    <2>1. \A f : f \in open <=> f \in connections \/ \E i \in DOMAIN cq : cq[i].fd # NULL /\ cq[i].fd = f
      BY <1>1 DEF DescriptorsAccounted
    <2>2. \A f : f \in open' <=> f \in connections \/ \E i \in DOMAIN cq' : cq'[i].fd # NULL /\ cq'[i].fd = f
      BY <1>2, <2>1
    <2> DEFINE waiting == {cq'[i].fd : i \in {j \in DOMAIN cq' : cq'[j].fd # NULL}}
    <2>3. \A f : f \in waiting <=> \E i \in DOMAIN cq' : cq'[i].fd # NULL /\ cq'[i].fd = f
      OBVIOUS
    <2> HIDE DEF waiting
    <2>4. open' = connections \cup waiting
      BY <2>2, <2>3
    <2>5. \A i \in DOMAIN cq' : cq'[i].fd \notin connections
      BY <1>1, <1>2, <2>1 DEF DescriptorsAccounted
    <2>6. \A i, j \in DOMAIN cq' : cq'[i].fd = cq'[j].fd /\ cq'[i].fd # NULL => i = j
      BY <1>1, <1>2, <2>1 DEF DescriptorsAccounted
    <2>7. QED
      BY <1>3, <2>4, <2>5, <2>6 DEF DescriptorsAccounted, waiting
  <1>14. BuffersConserved'
    <2>1. \A b : b \in free <=> b \in Buffers /\ ~\E i \in DOMAIN cq : cq[i].buffer = b
      BY <1>1 DEF BuffersConserved
    <2>2. \A b : b \in free' <=> b \in Buffers /\ ~\E i \in DOMAIN cq' : cq'[i].buffer = b
      BY <1>2, <2>1
    <2> DEFINE waiting == {cq'[i].buffer : i \in DOMAIN cq'}
    <2>3. \A b : b \in waiting <=> \E i \in DOMAIN cq' : cq'[i].buffer = b
      OBVIOUS
    <2> HIDE DEF waiting
    <2>4. free' = Buffers \ waiting
      BY <2>2, <2>3
    <2>5. \A i, j \in DOMAIN cq' : cq'[i].buffer = cq'[j].buffer /\ cq'[i].buffer # NULL => i = j
      BY <1>1, <1>2, <2>1 DEF BuffersConserved
    <2>6. QED
      BY <2>4, <2>5 DEF BuffersConserved, waiting
  <1>15. CleanExit'
    BY <1>1, <1>3 DEF CleanExit
  <1>16. NothingUnanswered' /\ AcceptArmed' /\ ShutdownOnce'
    BY <1>1, <1>3 DEF NothingUnanswered, Settled, Parsed, AtEndOfStream, AcceptArmed, ShutdownOnce
  <1>17. ReplyKept /\ CancelUndisturbed /\ Dropped
    BY <1>3, <1>5 DEF ReplyKept, CancelUndisturbed, Dropped
  <1>18. Lived
    BY <1>3, <1>5 DEF Lived, OperationsBegin
  <1>19. QED
    BY <1>6, <1>7, <1>8, <1>9, <1>11, <1>12, <1>13, <1>14, <1>15, <1>16, <1>17, <1>18 DEF IInv, Safe

LEMMA PlainCqe ==
    ASSUME NEW op \in Operations, NEW res \in {"ok", "eof", "error", "canceled"}, NEW more \in BOOLEAN
    PROVE  LET cqe == Cqe(op, res, more)
           IN /\ cqe \in Cqes /\ cqe.op = op /\ cqe.res = res /\ cqe.more = more
              /\ cqe.fd = NULL /\ cqe.buffer = NULL /\ cqe.count = 0
  <1>1. <<>> \in Seq(Line)
    BY EmptySeq
  <1>2. QED
    BY <1>1 DEF Cqe, Cqes

LEMMA LastPlainCqe ==
    ASSUME NEW op \in Operations, NEW res \in {"ok", "eof", "error", "canceled"}
    PROVE  LET cqe == Cqe(op, res, FALSE)
           IN /\ cqe \in Cqes /\ cqe.op = op /\ cqe.res = res /\ ~cqe.more
              /\ cqe.fd = NULL /\ cqe.buffer = NULL /\ cqe.count = 0
  <1>1. <<>> \in Seq(Line)
    BY EmptySeq
  <1>2. QED
    BY <1>1 DEF Cqe, Cqes

\* A last CQE that brings nothing but its result.
LEMMA PlainCqePosted ==
    ASSUME IInv, NEW op \in kernel, NEW res \in {"ok", "error", "canceled"},
           Post(Cqe(op, res, FALSE)), Terminate(op),
           op = AcceptOperation => res # "ok",
           res = "canceled" => op[1] \in {"accept", "receive"},
           UNCHANGED <<worker, sq, free, network>>
    PROVE  Safe
  <1> DEFINE cqe == Cqe(op, res, FALSE)
  <1>1. /\ TypeOK /\ SendsBounded /\ op \in Operations
    BY DEF IInv, TypeOK
  <1>2. /\ cqe \in Cqes /\ cqe.op = op /\ cqe.res = res /\ ~cqe.more
        /\ cqe.fd = NULL /\ cqe.buffer = NULL /\ cqe.count = 0
    <2>1. res \in {"ok", "eof", "error", "canceled"}
      OBVIOUS
    <2> HIDE DEF Cqe
    <2>2. QED
      BY <1>1, <2>1, LastPlainCqe
  <1> HIDE DEF cqe
  <1>3. Post(cqe) /\ EndUnlessMore(cqe.op, cqe.more)
    BY <1>2 DEF EndUnlessMore, cqe
  <1>4. /\ NULL \notin free /\ NULL \notin open /\ cqe.buffer \in free \cup {NULL}
        /\ free' = free \ {cqe.buffer} /\ open' = open \cup ({cqe.fd} \ {NULL}) /\ cqe.fd \notin open
    BY <1>1, <1>2, WorkerAssumption DEF TypeOK, network
  <1>5. /\ arrivals' \in 0..MaxArrivals /\ peer' \in [Fds -> Peers]
        /\ wire' \in [Fds -> Seq((Replies \cup {NULL}) \X Nat)]
    BY <1>1 DEF TypeOK, network
  <1>6. \A c \in Fds : cqe.op = Send(c) => conn[c].sent + cqe.count <= ReplyLength
    BY <1>1, <1>2 DEF SendsBounded, TypeOK, Connection
  <1>7. UNCHANGED <<worker, sq>>
    OBVIOUS
  <1>8. QED
    BY <1>2, <1>3, <1>4, <1>5, <1>6, <1>7, CqePosted

LEMMA KernelAcceptsIsSafe ==
    ASSUME IInv, NEW c \in Fds, KernelAccepts(c) PROVE Safe
  <1>1. TypeOK /\ SendsBounded
    BY DEF IInv
  <1>2. PICK more \in MayContinue(TRUE), script \in Scripts :
           /\ Post([Cqe(AcceptOperation, "ok", more) EXCEPT !.fd = c])
           /\ EndUnlessMore(AcceptOperation, more)
           /\ peer' = [peer EXCEPT ![c] = [NoPeer EXCEPT !.script = script]]
    BY DEF KernelAccepts
  <1>3. more \in BOOLEAN
    BY DEF MayContinue
  <1> DEFINE plain == Cqe(AcceptOperation, "ok", more)
             cqe == [plain EXCEPT !.fd = c]
  <1>4. /\ plain \in Cqes /\ plain.op = AcceptOperation /\ plain.res = "ok" /\ plain.more = more
        /\ plain.fd = NULL /\ plain.buffer = NULL /\ plain.count = 0
    BY <1>3, PlainCqe, OperationNames
  <1>5. Post(cqe) /\ EndUnlessMore(AcceptOperation, more)
    BY <1>2
  <1> HIDE DEF plain
  <1>6. /\ cqe \in Cqes /\ cqe.op = AcceptOperation /\ cqe.res = "ok" /\ cqe.more = more
        /\ cqe.fd = c /\ cqe.buffer = NULL /\ cqe.count = 0
    BY <1>4 DEF Cqes
  <1> HIDE DEF cqe
  <1>7. [NoPeer EXCEPT !.script = script] \in Peers
    BY DEF NoPeer, Peers
  <1>8. peer' \in [Fds -> Peers]
    BY <1>1, <1>2, <1>7 DEF TypeOK
  <1>9. /\ AcceptOperation \in kernel /\ c \notin open /\ arrivals < MaxArrivals
        /\ open' = open \cup {c} /\ arrivals' = arrivals + 1
        /\ wire' = [wire EXCEPT ![c] = <<>>] /\ free' = free
        /\ UNCHANGED <<worker, sq>>
    BY DEF KernelAccepts
  <1>10. wire' \in [Fds -> Seq((Replies \cup {NULL}) \X Nat)] /\ arrivals' \in 0..MaxArrivals
    BY <1>1, <1>9, EmptySeq, WorkerAssumption DEF TypeOK
  <1>11. c # NULL /\ NULL \notin free
    BY <1>1, WorkerAssumption DEF TypeOK
  <1>12. /\ cqe.buffer \in free \cup {NULL} /\ free' = free \ {cqe.buffer}
         /\ open' = open \cup ({cqe.fd} \ {NULL}) /\ cqe.fd \notin open
    BY <1>6, <1>9, <1>11
  <1>13. cqe.more => cqe.op[1] \in {"accept", "receive"}
    BY <1>6, OperationNames
  <1>14. \A b \in Fds : cqe.op # Send(b)
    BY <1>6, OperationNames
  <1>15. QED
    BY <1>5, <1>6, <1>8, <1>9, <1>10, <1>11, <1>12, <1>13, <1>14, CqePosted

\* A receive's CQE: r is what it brings.
LEMMA ReceiveCqePosted ==
    ASSUME IInv, NEW c \in Fds, Receive(c) \in kernel,
           NEW res \in {"ok", "eof"}, NEW buffer \in free \cup {NULL},
           NEW cqe \in Cqes, cqe.op = Receive(c), cqe.res = res,
           cqe.buffer = buffer, cqe.fd = NULL,
           Post(cqe), EndUnlessMore(Receive(c), cqe.more), free' = free \ {buffer},
           peer' \in [Fds -> Peers], UNCHANGED <<worker, sq, open, arrivals, wire>>
    PROVE  Safe
  <1>1. TypeOK
    BY DEF IInv
  <1>2. /\ Receive(c)[1] = "receive" /\ Receive(c) # AcceptOperation
        /\ \A b \in Fds : Receive(c) # Send(b)
    BY OperationNames
  <1>3. NULL \notin open /\ open' = open \cup ({NULL} \ {NULL})
    BY <1>1, WorkerAssumption DEF TypeOK
  <1>4. arrivals' \in 0..MaxArrivals /\ wire' \in [Fds -> Seq((Replies \cup {NULL}) \X Nat)]
    BY <1>1 DEF TypeOK
  <1>5. UNCHANGED <<worker, sq>>
    OBVIOUS
  <1>6. QED
    BY <1>2, <1>3, <1>4, <1>5, CqePosted

LEMMA KernelReceivesIsSafe ==
    ASSUME IInv, NEW c \in Fds, KernelReceives(c) PROVE Safe
  <1> DEFINE p == peer[c]
             left == Len(p.script) - p.position
  <1>1. /\ TypeOK /\ p \in Peers /\ p.script \in Seq(Line) /\ p.position \in Nat /\ p.closed \in BOOLEAN
    BY EmptySeq, WorkerAssumption DEF IInv, TypeOK, Peers
  <1>2. PICK n \in Pieces(IF left < BufferSize THEN left ELSE BufferSize),
             buffer \in free, more \in MayContinue(Multishot) :
           /\ Post([Cqe(Receive(c), "ok", more) EXCEPT
                       !.buffer = buffer, !.data = SubSeq(p.script, p.position + 1, p.position + n)])
           /\ EndUnlessMore(Receive(c), more)
           /\ free' = free \ {buffer}
           /\ peer' = [peer EXCEPT ![c].position = @ + n]
    BY DEF KernelReceives
  <1>3. more \in BOOLEAN /\ buffer \in Buffers
    BY <1>1, WorkerAssumption DEF MayContinue, TypeOK
  <1>4. n \in Nat /\ n >= 1 /\ n <= left
    BY <1>1, LenProperties, WorkerAssumption DEF Pieces
  <1> DEFINE data == SubSeq(p.script, p.position + 1, p.position + n)
  <1>5. data \in Seq(Line)
    <2>1. /\ Len(p.script) \in Nat /\ p.position + 1 \in 1..Len(p.script)
          /\ p.position + n \in (p.position + 1)..Len(p.script)
      <3>1. Len(p.script) \in Nat
        BY <1>1, LenProperties
      <3> HIDE DEF p
      <3>2. QED
        BY <1>1, <1>4, <3>1
    <2>2. \A i \in (p.position + 1)..(p.position + n) : p.script[i] \in Line
      BY <1>1, <2>1, LenProperties
    <2>3. p.position + 1 \in Int /\ p.position + n \in Int
      BY <1>1, <1>4
    <2> HIDE DEF p
    <2>4. QED
      BY <2>2, <2>3, SubSeqProperties DEF data
  <1> HIDE DEF data
  <1> DEFINE plain == Cqe(Receive(c), "ok", more)
             cqe == [plain EXCEPT !.buffer = buffer, !.data = data]
  <1>6. /\ plain \in Cqes /\ plain.op = Receive(c) /\ plain.res = "ok" /\ plain.more = more
        /\ plain.fd = NULL
    BY <1>3, PlainCqe, OperationNames
  <1>7. Post(cqe) /\ EndUnlessMore(Receive(c), more) /\ free' = free \ {buffer}
    BY <1>2 DEF data
  <1> HIDE DEF plain
  <1>8. /\ cqe \in Cqes /\ cqe.op = Receive(c) /\ cqe.res = "ok" /\ cqe.more = more
        /\ cqe.fd = NULL /\ cqe.buffer = buffer
    BY <1>3, <1>5, <1>6 DEF Cqes
  <1> HIDE DEF cqe, p
  <1>9. peer' \in [Fds -> Peers]
    <2>1. p.position + n \in Nat
      BY <1>1, <1>4
    <2>2. \A m \in Nat : [p EXCEPT !.position = m] \in Peers
      BY <1>1 DEF Peers
    <2>3. peer' = [peer EXCEPT ![c] = [p EXCEPT !.position = p.position + n]]
      BY <1>2 DEF p
    <2>4. QED
      BY <1>1, <2>1, <2>2, <2>3 DEF TypeOK
  <1>10. Receive(c) \in kernel /\ UNCHANGED <<worker, sq, open, arrivals, wire>>
    BY DEF KernelReceives
  <1>11. QED
    BY <1>3, <1>5, <1>7, <1>8, <1>9, <1>10, ReceiveCqePosted

LEMMA KernelReceivesEofIsSafe ==
    ASSUME IInv, NEW c \in Fds, KernelReceivesEof(c) PROVE Safe
  <1>1. TypeOK /\ peer[c] \in Peers
    BY DEF IInv, TypeOK
  <1>2. PICK buffer \in free \cup {NULL} :
           /\ Post([Cqe(Receive(c), "eof", FALSE) EXCEPT !.buffer = buffer])
           /\ free' = free \ {buffer}
    BY DEF KernelReceivesEof
  <1> DEFINE plain == Cqe(Receive(c), "eof", FALSE)
             cqe == [plain EXCEPT !.buffer = buffer]
  <1>3. /\ plain \in Cqes /\ plain.op = Receive(c) /\ plain.res = "eof" /\ ~plain.more
        /\ plain.fd = NULL
    <2>1. Receive(c) \in Operations
      BY OperationNames
    <2>2. QED
      BY <2>1, LastPlainCqe
  <1>4. Post(cqe) /\ free' = free \ {buffer}
    BY <1>2
  <1> HIDE DEF plain
  <1>5. /\ cqe \in Cqes /\ cqe.op = Receive(c) /\ cqe.res = "eof" /\ ~cqe.more
        /\ cqe.fd = NULL /\ cqe.buffer = buffer
    BY <1>1, <1>3 DEF Cqes, TypeOK
  <1> HIDE DEF cqe
  <1>6. peer' \in [Fds -> Peers]
    <2>1. [peer[c] EXCEPT !.closed = TRUE] \in Peers
      BY <1>1 DEF Peers
    <2>2. peer' = [peer EXCEPT ![c] = [peer[c] EXCEPT !.closed = TRUE]]
      BY DEF KernelReceivesEof
    <2>3. QED
      BY <1>1, <2>1, <2>2 DEF TypeOK
  <1>7. Receive(c) \in kernel /\ UNCHANGED <<worker, sq, open, arrivals, wire>>
    BY DEF KernelReceivesEof
  <1>8. EndUnlessMore(Receive(c), cqe.more)
    BY <1>5 DEF KernelReceivesEof, EndUnlessMore
  <1>9. QED
    BY <1>4, <1>5, <1>6, <1>7, <1>8, ReceiveCqePosted

LEMMA KernelSendsIsSafe ==
    ASSUME IInv, NEW c \in Fds, KernelSends(c) PROVE Safe
  <1>1. /\ TypeOK /\ SendsBounded /\ conn[c] \in Connection
    BY DEF IInv, TypeOK
  <1>2. PICK n \in Pieces(ReplyLength - conn[c].sent) :
           /\ Post([Cqe(Send(c), "ok", FALSE) EXCEPT !.count = n])
           /\ wire' = [wire EXCEPT ![c] =
                          @ \o [i \in 1..n |-> <<conn[c].output, conn[c].sent + i>>]]
    BY DEF KernelSends
  <1>3. /\ conn[c].sent \in Nat /\ conn[c].output \in Replies \cup {NULL}
        /\ ReplyLength \in Nat
    BY <1>1, WorkerAssumption DEF Connection
  <1>4. n \in Nat /\ n >= 1 /\ conn[c].sent + n <= ReplyLength
    BY <1>3 DEF Pieces
  <1> DEFINE Units == (Replies \cup {NULL}) \X Nat
             sent == [i \in 1..n |-> <<conn[c].output, conn[c].sent + i>>]
             plain == Cqe(Send(c), "ok", FALSE)
             cqe == [plain EXCEPT !.count = n]
  <1>5. sent \in Seq(Units)
    <2>1. \A i \in 1..n : <<conn[c].output, conn[c].sent + i>> \in Units
      BY <1>3, <1>4
    <2> HIDE DEF Units
    <2>2. QED
      BY <1>4, <2>1, IsASeq
  <1> HIDE DEF sent
  <1>6. wire' \in [Fds -> Seq(Units)]
    <2>1. wire \in [Fds -> Seq(Units)]
      BY <1>1 DEF TypeOK
    <2>2. wire' = [wire EXCEPT ![c] = wire[c] \o sent]
      BY <1>2 DEF sent
    <2> HIDE DEF Units
    <2>3. wire[c] \o sent \in Seq(Units)
      BY <1>5, <2>1, ConcatProperties
    <2>4. \A w \in Seq(Units) : [wire EXCEPT ![c] = w] \in [Fds -> Seq(Units)]
      BY <2>1
    <2>5. QED
      BY <2>2, <2>3, <2>4
  <1>7. /\ plain \in Cqes /\ plain.op = Send(c) /\ plain.res = "ok" /\ ~plain.more
        /\ plain.fd = NULL /\ plain.buffer = NULL
    <2>1. Send(c) \in Operations
      BY OperationNames
    <2>2. QED
      BY <2>1, LastPlainCqe
  <1>8. Post(cqe)
    BY <1>2
  <1> HIDE DEF plain
  <1>9. /\ cqe \in Cqes /\ cqe.op = Send(c) /\ cqe.res = "ok" /\ ~cqe.more
        /\ cqe.fd = NULL /\ cqe.buffer = NULL /\ cqe.count = n
    BY <1>4, <1>7 DEF Cqes
  <1> HIDE DEF cqe
  <1>10. /\ Send(c) \in kernel /\ Terminate(Send(c))
         /\ UNCHANGED <<worker, sq, free, open, arrivals, peer>>
    BY DEF KernelSends
  <1>11. /\ NULL \notin free /\ NULL \notin open /\ cqe.buffer \in free \cup {NULL}
         /\ free' = free \ {cqe.buffer} /\ open' = open \cup ({cqe.fd} \ {NULL}) /\ cqe.fd \notin open
    BY <1>1, <1>9, <1>10, WorkerAssumption DEF TypeOK
  <1>12. arrivals' \in 0..MaxArrivals /\ peer' \in [Fds -> Peers]
    BY <1>1, <1>10 DEF TypeOK
  <1>13. \A b \in Fds : cqe.op = Send(b) => conn[b].sent + cqe.count <= ReplyLength
    <2>1. \A b \in Fds : Send(c) = Send(b) => b = c
      BY DEF Send
    <2>2. QED
      BY <1>4, <1>9, <2>1
  <1>14. EndUnlessMore(cqe.op, cqe.more) /\ cqe.op \in kernel /\ cqe.op # AcceptOperation
    BY <1>9, <1>10, OperationNames DEF EndUnlessMore
  <1>15. UNCHANGED <<worker, sq>>
    BY <1>10
  <1>16. QED
    BY <1>6, <1>8, <1>9, <1>11, <1>12, <1>13, <1>14, <1>15, CqePosted

LEMMA KernelFindsTargetIsSafe ==
    ASSUME IInv, NEW op, KernelFindsTarget(op) PROVE Safe
  <1>1. /\ TypeOK /\ CqesWellFormed /\ SendsBounded /\ DoomedInKernel /\ CompletionsAreExclusive
        /\ ReferencesMatchOperations /\ DescriptorsAccounted /\ BuffersConserved /\ CleanExit
        /\ NothingUnanswered /\ AcceptArmed /\ ShutdownOnce
    BY DEF IInv
  <1>2. /\ op \in Cancels /\ TargetOf(op) \in kernel /\ doomed' = doomed \cup {TargetOf(op)}
        /\ UNCHANGED <<pc, stopping, shutdown_started, accept_active, accept_cancel_active,
                       connections, conn, sq, free, kernel, cq, open, arrivals, peer, wire>>
    BY DEF KernelFindsTarget, worker, network
  <1>3. TargetOf(op)[1] \in {"accept", "receive"} /\ TargetOf(op) \in Operations
    BY <1>2, Targets, OperationNames
  <1>4. \A o : Outstanding(o)' <=> Outstanding(o)
    BY <1>2 DEF Outstanding, Ended
  <1>5. TypeOK'
    BY <1>1, <1>2, <1>3 DEF TypeOK
  <1>6. CqesWellFormed' /\ SendsBounded'
    BY <1>1, <1>2 DEF CqesWellFormed, SendsBounded
  <1>7. DoomedInKernel'
    BY <1>1, <1>2, <1>3 DEF DoomedInKernel
  <1>8. CompletionsAreExclusive'
    BY <1>1, <1>2 DEF CompletionsAreExclusive, Ended
  <1>9. ReferencesMatchOperations'
    BY <1>1, <1>2, <1>4 DEF ReferencesMatchOperations, Count
  <1>10. DescriptorsAccounted' /\ BuffersConserved' /\ CleanExit'
    BY <1>1, <1>2 DEF DescriptorsAccounted, BuffersConserved, CleanExit
  <1>11. NothingUnanswered' /\ AcceptArmed' /\ ShutdownOnce'
    BY <1>1, <1>2 DEF NothingUnanswered, Settled, Parsed, AtEndOfStream, AcceptArmed, ShutdownOnce
  <1>12. ReplyKept /\ CancelUndisturbed /\ Dropped
    BY <1>2, <1>4 DEF ReplyKept, CancelUndisturbed, Dropped
  <1>13. Lived
    BY <1>2, <1>4 DEF Lived, OperationsBegin
  <1>14. QED
    BY <1>5, <1>6, <1>7, <1>8, <1>9, <1>10, <1>11, <1>12, <1>13 DEF IInv, Safe

LEMMA KernelIsSafe ==
    ASSUME IInv, Kernel PROVE Safe
  <1>1. TypeOK /\ DoomedInKernel
    BY DEF IInv
  <1>2. CASE KernelAcceptFails
    BY <1>2, PlainCqePosted DEF KernelAcceptFails
  <1>3. ASSUME NEW c \in Fds, KernelReceiveFails(c) \/ KernelSendFails(c)
        PROVE  Safe
    BY <1>3, PlainCqePosted DEF KernelReceiveFails, KernelSendFails
  <1>4. ASSUME NEW op, KernelEndsTarget(op)
        PROVE  Safe
    BY <1>1, <1>4, PlainCqePosted DEF KernelEndsTarget, DoomedInKernel
  <1>5. ASSUME NEW op, KernelCancels(op)
        PROVE  Safe
    <2>1. op \in kernel /\ op # AcceptOperation
      BY <1>5, Targets, OperationNames DEF KernelCancels
    <2>2. QED
      BY <1>5, <2>1, PlainCqePosted DEF KernelCancels
  <1>6. QED
    BY <1>2, <1>3, <1>4, <1>5, KernelAcceptsIsSafe, KernelReceivesIsSafe, KernelReceivesEofIsSafe,
       KernelSendsIsSafe, KernelFindsTargetIsSafe DEF Kernel

-----------------------------------------------------------------------------
(* The invariant, and the properties it gives.                             *)

LEMMA InitIInv ==
    ASSUME Init PROVE IInv
  <1>1. Zeroed \in Connection
    <2>1. <<>> \in Seq(Line)
      BY EmptySeq
    <2>2. QED
      BY <2>1 DEF Zeroed, Connection
  <1>2. NoPeer \in Peers
    BY DEF NoPeer, Peers
  <1>3. TypeOK
    <2>1. cq \in Seq(Cqes) /\ <<>> \in Seq((Replies \cup {NULL}) \X Nat)
      BY EmptySeq DEF Init
    <2>2. sq \subseteq Operations /\ kernel \subseteq Operations /\ doomed \subseteq Operations
      BY OperationNames DEF Init
    <2>3. /\ conn \in [Fds -> Connection] /\ peer \in [Fds -> Peers]
          /\ wire \in [Fds -> Seq((Replies \cup {NULL}) \X Nat)]
      BY <1>1, <1>2, <2>1 DEF Init
    <2>4. arrivals \in 0..MaxArrivals
      BY WorkerAssumption DEF Init
    <2>5. QED
      BY <2>1, <2>2, <2>3, <2>4 DEF Init, TypeOK
  <1>4. DOMAIN cq = {} /\ \A op : ~Ended(op)
    <2>1. DOMAIN cq = {}
      BY EmptySeq, LenProperties DEF Init
    <2>2. QED
      BY <2>1 DEF Ended
  <1>5. \A op : Outstanding(op) <=> op = AcceptOperation
    BY <1>4 DEF Init, Outstanding
  <1>6. CqesWellFormed /\ DoomedInKernel /\ CompletionsAreExclusive
    BY <1>4 DEF Init, CqesWellFormed, DoomedInKernel, CompletionsAreExclusive
  <1>7. SendsBounded
    BY <1>4, OperationNames, WorkerAssumption DEF Init, SendsBounded, Zeroed
  <1>8. ReferencesMatchOperations
    BY <1>5, OperationNames DEF Init, ReferencesMatchOperations
  <1>9. DescriptorsAccounted /\ BuffersConserved
    BY <1>4 DEF Init, DescriptorsAccounted, BuffersConserved
  <1>10. CleanExit /\ NothingUnanswered /\ AcceptArmed /\ ShutdownOnce
    BY DEF Init, CleanExit, NothingUnanswered, AcceptArmed, ShutdownOnce
  <1>11. QED
    BY <1>3, <1>6, <1>7, <1>8, <1>9, <1>10 DEF IInv

LEMMA NextIsSafe ==
    ASSUME IInv, [Next]_vars PROVE Safe
  <1>1. CASE UNCHANGED vars
    BY <1>1, StutterIsSafe
  <1>2. CASE Complete
    <2>1. CASE AcceptedConnection \/ AcceptedWhileStopping \/ AcceptEnded \/ AcceptCancelCompleted
      BY <2>1, AcceptedConnectionIsSafe, AcceptedWhileStoppingIsSafe, AcceptEndedIsSafe,
         AcceptCancelCompletedIsSafe
    <2>2. ASSUME NEW c \in Fds, CancelCompleted(c) \/ ReceiveCompleted(c) \/ SendCompleted(c)
          PROVE  Safe
      <3>1. PICK k, e : Completion(c, k, e)
        BY <2>2, CancelCompletes, ReceiveCompletes, SendCompletes
      <3>2. QED
        BY <3>1, CompletionIsSafe
    <2>3. QED
      BY <1>2, <2>1, <2>2 DEF Complete
  <1>3. CASE Main
    BY <1>3, StartShutdownIsSafe, IdleStepsAreSafe DEF Main
  <1>4. CASE SubmitInterrupted \/ OnSignal
    BY <1>4, IdleStepsAreSafe
  <1>5. CASE Kernel
    BY <1>5, KernelIsSafe
  <1>6. CASE Terminated
    BY <1>6, StutterIsSafe DEF Terminated
  <1>7. QED
    BY <1>1, <1>2, <1>3, <1>4, <1>5, <1>6 DEF Next

\* The inductive invariant holds in every state: whatever the kernel completes
\* or cancels, and in whatever order main sees it, the worker's bookkeeping
\* agrees with the operations it has in flight.
THEOREM BookkeepingAgrees == Spec => []IInv
  <1>1. IInv /\ [Next]_vars => IInv'
    BY NextIsSafe DEF Safe
  <1>2. QED
    BY <1>1, InitIInv, PTL DEF Spec

\* The variables keep their types, the completion queue and the wire included.
THEOREM TypeCorrect == Spec => []TypeOK
  <1>1. IInv => TypeOK
    BY DEF IInv
  <1>2. QED
    BY <1>1, BookkeepingAgrees, PTL

\* Every connection is referenced once by each of its outstanding operations,
\* and freed with the last of them: no CQE finds a connection that is gone.
THEOREM ReferencesAreExact == Spec => []ReferencesMatchOperations
  <1>1. IInv => ReferencesMatchOperations
    BY DEF IInv
  <1>2. QED
    BY <1>1, BookkeepingAgrees, PTL

\* No operation completes twice, and none is submitted while it is in flight.
THEOREM CompletionsAreUnique == Spec => []CompletionsAreExclusive
  <1>1. IInv => CompletionsAreExclusive
    BY DEF IInv
  <1>2. QED
    BY <1>1, BookkeepingAgrees, PTL

\* No descriptor that accept returned is lost, closed early or used twice.
THEOREM DescriptorsAreKept == Spec => []DescriptorsAccounted
  <1>1. IInv => DescriptorsAccounted
    BY DEF IInv
  <1>2. QED
    BY <1>1, BookkeepingAgrees, PTL

\* No provided buffer is lost and none is given back twice.
THEOREM BuffersAreKept == Spec => []BuffersConserved
  <1>1. IInv => BuffersConserved
    BY DEF IInv
  <1>2. QED
    BY <1>1, BookkeepingAgrees, PTL

\* main returns with nothing in flight, no buffer out and no descriptor open.
THEOREM ExitIsClean == Spec => []CleanExit
  <1>1. IInv => CleanExit
    BY DEF IInv
  <1>2. QED
    BY <1>1, BookkeepingAgrees, PTL

\* Until the worker stops, the listener's accept is in flight.
THEOREM ListenerKeepsAccepting == Spec => []ListenerArmed
  <1>1. IInv => ListenerArmed
    BY DEF IInv, AcceptArmed, ReferencesMatchOperations, ListenerArmed
  <1>2. QED
    BY <1>1, BookkeepingAgrees, PTL

\* A connection that is served, with no reply on its way, has no request left
\* to answer and has a receive armed or a cancel to arm one after: the last
\* reference, which it always holds, must be one of these.
THEOREM NoConnectionStalls == Spec => []NoStalledConnection
  <1>1. ASSUME IInv, NEW c \in Fds, Serving(c), ~conn[c].sending
        PROVE  /\ conn[c].input = <<>> \/ Parsed(conn[c]).verdict = "incomplete"
               /\ conn[c].receive_active \/ conn[c].cancel_pending
    <2>1. NothingUnanswered /\ ReferencesMatchOperations /\ c \in connections
      BY <1>1 DEF IInv, Serving
    <2>2. conn[c].input = <<>> \/ Parsed(conn[c]).verdict = "incomplete"
      BY <1>1, <2>1 DEF NothingUnanswered, Settled, Serving
    <2>3. conn[c].receive_active \/ conn[c].cancel_pending
      <3>1. ~Outstanding(Send(c))
        BY <1>1, <2>1 DEF ReferencesMatchOperations
      <3>2. Outstanding(Receive(c)) \/ Outstanding(Cancel(c))
        <4>1. /\ conn[c].references = Count(Outstanding(Receive(c)))
                                      + Count(Outstanding(Send(c))) + Count(Outstanding(Cancel(c)))
              /\ conn[c].references > 0
          BY <2>1 DEF ReferencesMatchOperations
        <4>2. QED
          BY <3>1, <4>1 DEF Count
      <3>3. QED
        BY <2>1, <3>2 DEF ReferencesMatchOperations
    <2>4. QED
      BY <2>2, <2>3
  <1>2. IInv => NoStalledConnection
    BY <1>1 DEF NoStalledConnection
  <1>3. QED
    BY <1>2, BookkeepingAgrees, PTL

\* The reply and its position do not change under a send in flight.
THEOREM RepliesAreStable == Spec => ReplyStableWhileSending
  <1>1. IInv /\ [Next]_vars => ReplyKept
    BY NextIsSafe DEF Safe
  <1>2. QED
    BY <1>1, BookkeepingAgrees, PTL DEF Spec, ReplyStableWhileSending, ReplyKept

\* A cancel in flight never meets a receive submitted after it.
THEOREM CancelsFindTheirTarget == Spec => NoReceiveArmedDuringCancel
  <1>1. IInv /\ [Next]_vars => CancelUndisturbed
    BY NextIsSafe DEF Safe
  <1>2. QED
    BY <1>1, BookkeepingAgrees, PTL DEF Spec, NoReceiveArmedDuringCancel, CancelUndisturbed

\* No connection ends but for one of the reasons the code has to end it.
THEOREM NoConnectionIsLost == Spec => DroppedForReason
  <1>1. IInv /\ [Next]_vars => Dropped
    BY NextIsSafe DEF Safe
  <1>2. QED
    BY <1>1, BookkeepingAgrees, PTL DEF Spec, DroppedForReason, Dropped, Reason

-----------------------------------------------------------------------------
(* The worker implements OperationLifetime.                                *)

\* A connection lives as long as one of its operations is outstanding.
ConnectionsAlive ==
    /\ connections \subseteq Fds
    /\ \A c \in Fds : c \in connections <=> OutstandingKinds(c) # {}

LEMMA AliveWhileOutstanding == IInv => ConnectionsAlive
  <1> SUFFICES ASSUME IInv PROVE ConnectionsAlive
    OBVIOUS
  <1>1. TypeOK /\ ReferencesMatchOperations
    BY DEF IInv
  <1>2. \A c \in Fds : OutstandingKinds(c) # {}
           <=> Outstanding(Receive(c)) \/ Outstanding(Send(c)) \/ Outstanding(Cancel(c))
    BY DEF OutstandingKinds, Receive, Send, Cancel
  <1>3. ASSUME NEW c \in connections
        PROVE  Outstanding(Receive(c)) \/ Outstanding(Send(c)) \/ Outstanding(Cancel(c))
    BY <1>1 DEF ReferencesMatchOperations, Count
  <1>4. QED
    BY <1>1, <1>2, <1>3 DEF TypeOK, ReferencesMatchOperations, ConnectionsAlive

\* OutstandingKinds by kind, before and after a step.
LEMMA KindsAreOperations ==
    ASSUME NEW c \in Fds
    PROVE  /\ OutstandingKinds(c) \subseteq {"receive", "send", "cancel"}
           /\ OutstandingKinds(c)' \subseteq {"receive", "send", "cancel"}
           /\ \A kind \in {"receive", "send", "cancel"} :
                 /\ <<kind, c>> \in Mine(c)
                 /\ kind \in OutstandingKinds(c) <=> Outstanding(<<kind, c>>)
                 /\ kind \in OutstandingKinds(c)' <=> Outstanding(<<kind, c>>)'
           /\ \A op \in Mine(c) : op[1] \in {"receive", "send", "cancel"} /\ op = <<op[1], c>>
  BY DEF OutstandingKinds, Mine, Receive, Send, Cancel

LEMMA UpdatedAt ==
    ASSUME NEW D, NEW R, NEW f \in [D -> R], NEW g \in [D -> R], NEW c \in D,
           \A b \in D \ {c} : f[b] = g[b]
    PROVE  f = [g EXCEPT ![c] = f[c]]
  OBVIOUS

\* Every step of the worker, of the kernel and of its peers is one of the
\* abstract steps.
LEMMA StepIsLifetimeStep ==
    ASSUME IInv, Safe PROVE Lifetime!Next
  <1> DEFINE OpKinds == {"receive", "send", "cancel"}
             before == [c \in Fds |-> OutstandingKinds(c)]
             after == [c \in Fds |-> OutstandingKinds(c)']
  <1>1. /\ connections \subseteq Fds /\ connections' \subseteq Fds
        /\ \A c \in Fds : c \in connections <=> OutstandingKinds(c) # {}
        /\ \A c \in Fds : c \in connections' <=> OutstandingKinds(c)' # {}
    <2>1. IInv'
      BY DEF Safe
    <2>2. ConnectionsAlive /\ ConnectionsAlive'
      BY <2>1, AliveWhileOutstanding, PTL
    <2>3. QED
      BY <2>2 DEF ConnectionsAlive
  <1>2. after = before'
    OBVIOUS
  <1>3. after \in [Fds -> SUBSET OpKinds] /\ before \in [Fds -> SUBSET OpKinds]
    BY KindsAreOperations
  <1>4. CASE OperationsBegin
    <2>1. \A c \in Fds : before[c] \subseteq after[c] /\ (c \notin connections => after[c] = before[c])
      BY <1>1, <1>4, KindsAreOperations DEF OperationsBegin
    <2>2. Lifetime!Begin
      BY <1>2, <1>3, <1>4, <2>1 DEF Lifetime!Begin, OperationsBegin
    <2>3. QED
      BY <2>2 DEF Lifetime!Next
  <1>5. ASSUME NEW c \in Fds, Others(c)
        PROVE  after = [before EXCEPT ![c] = after[c]]
    <2>1. ASSUME NEW b \in Fds \ {c}
          PROVE  OutstandingKinds(b)' = OutstandingKinds(b)
      <3>1. \A op \in Mine(b) : Outstanding(op)' <=> Outstanding(op)
        BY <1>5 DEF Others
      <3>2. \A kind \in OpKinds : kind \in OutstandingKinds(b)' <=> kind \in OutstandingKinds(b)
        BY <3>1, KindsAreOperations
      <3>3. OutstandingKinds(b) \subseteq OpKinds /\ OutstandingKinds(b)' \subseteq OpKinds
        BY KindsAreOperations
      <3> HIDE DEF OpKinds
      <3>4. QED
        BY <3>2, <3>3
    <2>2. \A b \in Fds \ {c} : after[b] = before[b]
      BY <2>1
    <2>3. after \in [Fds -> SUBSET OpKinds] /\ before \in [Fds -> SUBSET OpKinds]
      BY <1>3
    <2> HIDE DEF after, before
    <2>4. QED
      BY <2>2, <2>3, UpdatedAt
  <1>6. ASSUME NEW c \in Fds, ConnectionBegins(c)
        PROVE  Lifetime!Next
    <2>1. after[c] \in (SUBSET OpKinds) \ {{}}
      BY <1>1, <1>3, <1>6 DEF ConnectionBegins
    <2>2. after = [before EXCEPT ![c] = after[c]]
      BY <1>5, <1>6 DEF ConnectionBegins
    <2>3. Lifetime!Create(c)
      BY <1>2, <1>6, <2>1, <2>2 DEF Lifetime!Create, ConnectionBegins
    <2>4. QED
      BY <2>3 DEF Lifetime!Next
  <1>7. ASSUME NEW c \in Fds, NEW ended \in Mine(c), OperationEnds(c, ended)
        PROVE  Lifetime!Next
    <2> DEFINE kind == ended[1]
               begun == after[c] \ (before[c] \ {kind})
               left == (before[c] \ {kind}) \cup begun
    <2>1. kind \in OpKinds /\ ended = <<kind, c>> /\ kind \in before[c]
      BY <1>7, KindsAreOperations DEF OperationEnds
    <2>2. before[c] \ {kind} \subseteq after[c]
      <3>1. ASSUME NEW other \in before[c], other # kind
            PROVE  other \in after[c]
        <4>1. /\ other \in OpKinds /\ Outstanding(<<other, c>>)
              /\ <<other, c>> \in Mine(c) /\ <<other, c>> # ended
          BY <2>1, <3>1, KindsAreOperations
        <4>2. Outstanding(<<other, c>>)'
          BY <1>7, <4>1 DEF OperationEnds
        <4>3. other \in OutstandingKinds(c)'
          BY <4>1, <4>2, KindsAreOperations
        <4>4. QED
          BY <4>3
      <3>2. QED
        BY <3>1
    <2>3. left = after[c] /\ begun \in SUBSET (OpKinds \ (before[c] \ {kind}))
      BY <1>3, <2>2
    <2>4. after = [before EXCEPT ![c] = left]
      BY <1>5, <1>7, <2>3 DEF OperationEnds
    <2>5. connections' = IF left = {} THEN connections \ {c} ELSE connections
      BY <1>1, <1>7, <2>3 DEF OperationEnds
    <2> HIDE DEF kind, begun, before, after
    <2>6. Lifetime!Complete(c, kind)
      BY <1>2, <1>7, <2>1, <2>3, <2>4, <2>5 DEF Lifetime!Complete, OperationEnds, before
    <2>7. QED
      BY <2>1, <2>6 DEF Lifetime!Next
  <1>8. QED
    BY <1>4, <1>6, <1>7 DEF Safe, Lived

\* The worker implements OperationLifetime: a connection is freed by the
\* completion that ends its last operation and by nothing else, and no
\* operation of a connection that was freed is outstanding.
THEOREM FreedWithTheLastOperation == Spec => ImplementsLifetime
  <1>1. Init => Lifetime!Init
    <2>1. ASSUME Init
          PROVE  connections = {} /\ \A c \in Fds : OutstandingKinds(c) = {}
      <3>1. IInv /\ connections = {}
        BY <2>1, InitIInv DEF Init
      <3>2. QED
        BY <3>1, AliveWhileOutstanding DEF ConnectionsAlive
    <2>2. QED
      BY <2>1 DEF Lifetime!Init
  <1>2. IInv /\ [Next]_vars => [Lifetime!Next]_(Lifetime!vars)
    BY NextIsSafe, StepIsLifetimeStep
  <1>3. QED
    BY <1>1, <1>2, BookkeepingAgrees, PTL DEF Spec, ImplementsLifetime, Lifetime!Spec

-----------------------------------------------------------------------------
(* The input of oneshot/server.c, whose receives complete once each.        *)

\* A receive that is armed while a reply is sent leaves half the input free.
Roomy(k) ==
    k.receive_active /\ k.sending /\ ~k.failed /\ ~k.close_after_send
        => Len(k.input) <= InputCapacity \div 2

\* A receive's CQE is its last and brings one buffer at most.
OneBuffer ==
    \A i \in DOMAIN cq :
        cq[i].op[1] = "receive" => ~cq[i].more /\ Len(cq[i].data) <= BufferSize

RoomInv == (\A c \in Fds : Roomy(conn[c])) /\ OneBuffer

\* What a function that only prepares an operation leaves of its context.
LEMMA GetSqeKeeps ==
    ASSUME NEW d \in Contexts, NEW op \in Operations
    PROVE  GetSqe(d, op) \in Contexts /\ GetSqe(d, op).k = d.k /\ GetSqe(d, op).fd = d.fd
<1>1. CASE Cardinality(d.sq) < QueueDepth
  BY <1>1 DEF GetSqe, Contexts
<1>2. CASE ~(Cardinality(d.sq) < QueueDepth)
  BY <1>2 DEF GetSqe, Contexts
<1>. QED  BY <1>1, <1>2

LEMMA PreparedKeeps ==
    ASSUME NEW d \in Contexts
    PROVE  /\ SubmitReceive(d) \in Contexts /\ SubmitReceive(d).fd = d.fd
           /\ SameInput(d.k, SubmitReceive(d).k)
           /\ SubmitSend(d) \in Contexts /\ SubmitSend(d).fd = d.fd
           /\ SameInput(d.k, SubmitSend(d).k)
           /\ SubmitSend(d).k.receive_active = d.k.receive_active
           /\ CancelReceive(d) \in Contexts /\ CancelReceive(d).fd = d.fd
           /\ SameInput(d.k, CancelReceive(d).k)
           /\ CancelReceive(d).k.receive_active = d.k.receive_active
<1>1. d.fd \in Fds /\ d.k \in Connection
  BY DEF Contexts
<1>2. Receive(d.fd) \in Operations /\ Send(d.fd) \in Operations /\ Cancel(d.fd) \in Operations
  BY <1>1, OperationNames
<1>3. ASSUME NEW j \in Connection, NEW op \in Operations
      PROVE  LET e == [GetSqe(d, op) EXCEPT !.k = j]
             IN e \in Contexts /\ e.k = j /\ e.fd = d.fd
  BY GetSqeKeeps, WithConnection
<1> DEFINE armed == [d.k EXCEPT !.receive_active = TRUE, !.references = @ + 1]
           counted == [d.k EXCEPT !.references = @ + 1]
           cancelling == [d.k EXCEPT !.cancel_pending = TRUE, !.references = @ + 1]
<1>4. armed \in Connection /\ SameInput(d.k, armed)
  BY <1>1, ArmedConnection
<1>5. /\ cancelling \in Connection /\ SameInput(d.k, cancelling)
      /\ cancelling.receive_active = d.k.receive_active
  BY <1>1, CancellingConnection
<1>6. /\ counted \in Connection /\ SameInput(d.k, counted)
      /\ counted.receive_active = d.k.receive_active
  <2>1. ASSUME NEW n \in Nat
        PROVE  LET j == [d.k EXCEPT !.references = n]
               IN /\ j \in Connection /\ SameInput(d.k, j) /\ j.receive_active = d.k.receive_active
    BY <1>1 DEF Connection, SameInput
  <2>2. d.k.references + 1 \in Nat
    BY <1>1 DEF Connection
  <2>. QED  BY <2>1, <2>2
<1>7. /\ SubmitReceive(d) = [GetSqe(d, Receive(d.fd)) EXCEPT !.k = armed]
      /\ SubmitSend(d) = [GetSqe(d, Send(d.fd)) EXCEPT !.k = counted]
      /\ CancelReceive(d) = d \/ CancelReceive(d) = [GetSqe(d, Cancel(d.fd)) EXCEPT !.k = cancelling]
  BY DEF SubmitReceive, SubmitSend, CancelReceive
<1> HIDE DEF armed, counted, cancelling
<1>8. SubmitReceive(d) \in Contexts /\ SubmitReceive(d).k = armed /\ SubmitReceive(d).fd = d.fd
  BY <1>2, <1>3, <1>4, <1>7
<1>9. SubmitSend(d) \in Contexts /\ SubmitSend(d).k = counted /\ SubmitSend(d).fd = d.fd
  BY <1>2, <1>3, <1>6, <1>7
<1>10. /\ CancelReceive(d) \in Contexts /\ CancelReceive(d).fd = d.fd
       /\ SameInput(d.k, CancelReceive(d).k)
       /\ CancelReceive(d).k.receive_active = d.k.receive_active
  <2>1. CASE CancelReceive(d) = d
    BY <2>1 DEF SameInput
  <2>2. CASE CancelReceive(d) = [GetSqe(d, Cancel(d.fd)) EXCEPT !.k = cancelling]
    <3>1. /\ CancelReceive(d) \in Contexts /\ CancelReceive(d).k = cancelling
          /\ CancelReceive(d).fd = d.fd
      BY <1>2, <1>3, <1>5, <2>2
    <3>. QED  BY <1>5, <3>1
  <2>. QED  BY <1>7, <2>1, <2>2
<1>. QED  BY <1>4, <1>6, <1>8, <1>9, <1>10

\* Replying takes a request out of the input.
LEMMA ReplyShrinks ==
    ASSUME NEW d \in Contexts, Parsed(d.k).verdict # "incomplete"
    PROVE  /\ StartResponse(d) \in Contexts /\ StartResponse(d).fd = d.fd
           /\ StartResponse(d).k.receive_active = d.k.receive_active
           /\ Len(StartResponse(d).k.input) <= Len(d.k.input)
<1> DEFINE parsed == Parsed(d.k)
           rejected == parsed.verdict = "reject"
           rest == IF rejected THEN <<>> ELSE SubSeq(d.k.input, parsed.length + 1, Len(d.k.input))
           close == rejected \/ parsed.close_after \/ (d.k.read_eof /\ rest = <<>>)
           reply == IF rejected THEN "bad_request" ELSE Response(parsed.http10, close)
           k == [d.k EXCEPT !.input = rest, !.output = reply, !.close_after_send = close,
                            !.sent = 0, !.sending = TRUE]
<1>1. d.k \in Connection /\ d.k.input \in Seq(Line) /\ Len(d.k.input) \in Nat
  BY LenProperties DEF Contexts, Connection
<1>2. /\ parsed.verdict \in Verdicts
      /\ parsed.verdict = "complete" => parsed.length \in 2..Len(d.k.input)
  BY <1>1, ParsedResult
<1>3. rest \in Seq(Line) /\ Len(rest) <= Len(d.k.input)
  <2>1. CASE rejected
    BY <1>1, <2>1
  <2>2. CASE ~rejected
    <3>1. parsed.length \in 2..Len(d.k.input)
      BY <1>2, <2>2 DEF Verdicts
    <3>2. /\ SubSeq(d.k.input, parsed.length + 1, Len(d.k.input)) \in Seq(Line)
          /\ Len(SubSeq(d.k.input, parsed.length + 1, Len(d.k.input))) <= Len(d.k.input)
      BY <1>1, <3>1, SubSeqProperties
    <3>. QED  BY <2>2, <3>2
  <2>. QED  BY <2>1, <2>2
<1>4. close \in BOOLEAN /\ reply \in Replies
  BY DEF Response, Replies
<1>5. StartResponse(d) = SubmitSend([d EXCEPT !.k = k])
  BY DEF StartResponse, Reply
<1> HIDE DEF rest, close, reply
<1>6. k \in Connection /\ k.input = rest /\ k.receive_active = d.k.receive_active
  BY <1>1, <1>3, <1>4 DEF Connection
<1> HIDE DEF k
<1> DEFINE e == [d EXCEPT !.k = k]
<1>7. e \in Contexts /\ e.k = k /\ e.fd = d.fd
  BY <1>6, WithConnection
<1>8. StartResponse(d) = SubmitSend(e)
  BY <1>5
<1> HIDE DEF e
<1>9. /\ SubmitSend(e) \in Contexts /\ SubmitSend(e).fd = e.fd
      /\ SubmitSend(e).k.input = e.k.input /\ SubmitSend(e).k.receive_active = e.k.receive_active
  BY <1>7, PreparedKeeps DEF SameInput
<1>. QED  BY <1>3, <1>6, <1>7, <1>8, <1>9

\* drive_connection, of a connection whose receive if armed will not be joined
\* by a reply that leaves more than half the input behind.
LEMMA DriveRoomy ==
    ASSUME NEW d \in Contexts, NEW stop \in BOOLEAN, Roomy(d.k),
           d.k.receive_active /\ ~d.k.sending
               => stop \/ Settled(d.k) \/ Len(d.k.input) <= InputCapacity \div 2
    PROVE  /\ DriveConnection(d, stop) \in Contexts /\ DriveConnection(d, stop).fd = d.fd
           /\ Roomy(DriveConnection(d, stop).k)
<1> DEFINE ready == ~d.k.sending /\ d.k.input # <<>> /\ Parsed(d.k).verdict # "incomplete"
           f == IF ready THEN StartResponse(d) ELSE d
           e == IF f.k.close_after_send THEN CancelReceive(f) ELSE PauseOrRearm(f)
           half == InputCapacity \div 2
<1>1. CASE stop \/ d.k.failed \/ d.k.close_after_send
  BY <1>1 DEF DriveConnection
<1>2. CASE ~(stop \/ d.k.failed \/ d.k.close_after_send)
  <2>1. DriveConnection(d, stop) = e
    BY <1>2 DEF DriveConnection, DriveReceive
  <2>2. half \in Nat
    BY FramingAssumption
  <2>3. f \in Contexts /\ f.fd = d.fd /\ Roomy(f.k)
    <3>1. CASE ready
      <4>1. /\ f \in Contexts /\ f.fd = d.fd
            /\ f.k.receive_active = d.k.receive_active /\ Len(f.k.input) <= Len(d.k.input)
        BY <3>1, ReplyShrinks
      <4>2. d.k.receive_active => Len(d.k.input) <= half
        BY <1>2, <3>1 DEF Settled
      <4>3. Len(f.k.input) \in Nat /\ Len(d.k.input) \in Nat
        BY <4>1, LenProperties DEF Contexts, Connection
      <4> HIDE DEF f, half, ready
      <4>4. f.k.receive_active => Len(f.k.input) <= half
        BY <4>1, <4>2, <4>3, <2>2
      <4>. QED  BY <4>1, <4>4 DEF Roomy, half
    <3>2. CASE ~ready
      BY <3>2
    <3>. QED  BY <3>1, <3>2
  <2> HIDE DEF f, ready
  <2>4. e \in Contexts /\ e.fd = f.fd /\ Roomy(e.k)
    <3>1. CASE e = CancelReceive(f)
      BY <2>3, <3>1, PreparedKeeps DEF Roomy, SameInput
    <3>2. CASE e = f
      BY <2>3, <3>2
    <3>3. CASE ~MustPause(f.k) /\ e = SubmitReceive(f)
      <4>1. e \in Contexts /\ e.fd = f.fd /\ SameInput(f.k, e.k)
        BY <2>3, <3>3, PreparedKeeps
      <4>2. Len(f.k.input) \in Nat
        BY <2>3, LenProperties DEF Contexts, Connection
      <4>3. f.k.sending => Len(f.k.input) <= half
        BY <3>3, <4>2, <2>2 DEF MustPause
      <4> HIDE DEF e
      <4>. QED  BY <4>1, <4>3 DEF Roomy, SameInput
    <3>. QED  BY <3>1, <3>2, <3>3 DEF PauseOrRearm
  <2> HIDE DEF e
  <2>. QED  BY <2>1, <2>3, <2>4
<1>. QED  BY <1>1, <1>2

\* The end of a completion, with or without releasing its reference.
LEMMA ConnectionRoomy ==
    ASSUME TypeOK, \A c \in Fds : Roomy(conn[c]), NEW d \in Contexts, Roomy(d.k),
           Keep(d) \/ ReleaseConnection(d)
    PROVE  \A c \in Fds : Roomy(conn[c])'
<1>1. d.fd \in Fds /\ d.k \in Connection /\ conn \in [Fds -> Connection]
  BY DEF Contexts, TypeOK
<1>2. PICK j : conn' = [conn EXCEPT ![d.fd] = j] /\ Roomy(j)
  <2>1. Roomy(Zeroed)
    BY DEF Roomy, Zeroed
  <2>2. Roomy([d.k EXCEPT !.references = @ - 1])
    BY <1>1 DEF Roomy, Connection
  <2>. QED  BY <2>1, <2>2 DEF Keep, ReleaseConnection
<1>3. \A c \in Fds : conn'[c] = IF c = d.fd THEN j ELSE conn[c]
  BY <1>1, <1>2
<1>. QED  BY <1>2, <1>3 DEF Roomy

LEMMA TailOneBuffer ==
    ASSUME TypeOK, OneBuffer, cq # <<>>, cq' = Tail(cq)
    PROVE  OneBuffer'
  BY TailQueue DEF TypeOK, OneBuffer

LEMMA ContextOf ==
    ASSUME TypeOK, NEW c \in Fds, NEW k \in Connection
    PROVE  Context(c, k) \in Contexts /\ Context(c, k).k = k /\ Context(c, k).fd = c
  BY DEF TypeOK, Context, Contexts

LEMMA CancelCompletedRoomy ==
    ASSUME IInv, RoomInv, NEW c \in Fds, CancelCompleted(c) PROVE RoomInv'
<1> DEFINE k == [conn[c] EXCEPT !.cancel_pending = FALSE]
           d == Context(c, k)
<1>1. TypeOK /\ NothingUnanswered /\ conn[c] \in Connection /\ stopping \in BOOLEAN
  BY DEF IInv, TypeOK
<1>2. PICK r \in Reads : stopping' = r[3] /\ ReleaseConnection(DriveConnection(d, r[1]))
  BY DEF CancelCompleted
<1>3. /\ k \in Connection /\ SameInput(conn[c], k)
      /\ k.receive_active = conn[c].receive_active
  BY <1>1 DEF Connection, SameInput
<1> HIDE DEF k
<1>4. d \in Contexts /\ d.k = k
  BY <1>1, <1>3, ContextOf
<1> HIDE DEF d
<1>5. r[1] \in BOOLEAN /\ (stopping => r[1])
  BY <1>1, ReadsGrow
<1>6. k.receive_active => r[1] \/ Settled(k)
  <2>1. ~stopping /\ c \in connections => Settled(conn[c])
    BY <1>1 DEF NothingUnanswered
  <2>2. cq # <<>> /\ Head(cq).op = Cancel(c)
    BY DEF CancelCompleted, Completes
  <2>3. Outstanding(Cancel(c))
    BY <1>1, <2>2, OutstandingAfter DEF IInv
  <2>4. c \in connections
    BY <2>3 DEF IInv, ReferencesMatchOperations
  <2>. QED  BY <1>3, <1>5, <2>1, <2>4, SettledSame
<1>7. Roomy(k)
  BY <1>3 DEF RoomInv, Roomy, SameInput
<1> DEFINE e == DriveConnection(d, r[1])
<1>8. e \in Contexts /\ Roomy(e.k)
  BY <1>4, <1>5, <1>6, <1>7, DriveRoomy
<1>9. ReleaseConnection(e)
  BY <1>2
<1> HIDE DEF e
<1>10. \A b \in Fds : Roomy(conn[b])'
  BY <1>1, <1>8, <1>9, ConnectionRoomy DEF RoomInv
<1>. QED  BY <1>1, <1>10, TailOneBuffer DEF RoomInv, CancelCompleted, Completes

LEMMA ReceiveCompletedRoomy ==
    ASSUME IInv, RoomInv, NEW c \in Fds, ReceiveCompleted(c) PROVE RoomInv'
<1> DEFINE cqe == Head(cq)
<1>1. TypeOK /\ conn[c] \in Connection /\ stopping \in BOOLEAN
  BY DEF IInv, TypeOK
<1>2. cq # <<>> /\ cqe.op = Receive(c) /\ cqe.op[1] = "receive"
  BY OperationNames DEF ReceiveCompleted, Completes
<1>3. cqe \in Cqes /\ cqe = cq[1] /\ 1 \in DOMAIN cq
  BY <1>1, <1>2, OldestCqe DEF TypeOK
<1>4. ~cqe.more
  BY <1>2, <1>3 DEF RoomInv, OneBuffer
<1>5. PICK r \in Reads :
         LET d == Context(c, Received(conn[c], cqe, r[1]))
             e == IF d.k.failed \/ r[2] THEN CancelReceive(d) ELSE DriveConnection(d, r[3])
         IN stopping' = r[3] /\ IF cqe.more THEN Keep(e) ELSE ReleaseConnection(e)
  BY DEF ReceiveCompleted, EndReceive
<1> DEFINE k == Received(conn[c], cqe, r[1])
           d == Context(c, k)
           e == IF d.k.failed \/ r[2] THEN CancelReceive(d) ELSE DriveConnection(d, r[3])
<1>6. ReleaseConnection(e)
  BY <1>4, <1>5
<1>7. k \in Connection /\ ~k.receive_active
  BY <1>1, <1>3, <1>4, ReceivedConnection
<1> HIDE DEF k, cqe
<1>8. d \in Contexts /\ d.k = k
  BY <1>1, <1>7, ContextOf
<1> HIDE DEF d
<1>9. r[2] \in BOOLEAN /\ r[3] \in BOOLEAN
  BY <1>1, ReadsGrow
<1>10. e \in Contexts /\ Roomy(e.k)
  <2>1. e = CancelReceive(d) \/ e = DriveConnection(d, r[3])
    OBVIOUS
  <2> HIDE DEF e
  <2>2. CASE e = CancelReceive(d)
    BY <1>7, <1>8, <2>2, PreparedKeeps DEF Roomy
  <2>3. CASE e = DriveConnection(d, r[3])
    <3>1. Roomy(d.k) /\ ~d.k.receive_active
      BY <1>7, <1>8 DEF Roomy
    <3>. QED  BY <1>8, <1>9, <2>3, <3>1, DriveRoomy
  <2>. QED  BY <2>1, <2>2, <2>3
<1> HIDE DEF e
<1>11. \A b \in Fds : Roomy(conn[b])'
  BY <1>1, <1>6, <1>10, ConnectionRoomy DEF RoomInv
<1>. QED  BY <1>1, <1>11, TailOneBuffer DEF RoomInv, ReceiveCompleted, Completes

LEMMA SentRoomy ==
    ASSUME NEW d \in Contexts, NEW cqe \in Cqes, NEW stop \in BOOLEAN, Roomy(d.k), d.k.sending
    PROVE  Sent(d, cqe, stop) \in Contexts /\ Roomy(Sent(d, cqe, stop).k)
<1> DEFINE n == d.k.sent + cqe.count
           k == [d.k EXCEPT !.sent = n]
           failed == [d EXCEPT !.k = [d.k EXCEPT !.failed = TRUE]]
           partial == [d EXCEPT !.k = k]
           done == [d EXCEPT !.k = [k EXCEPT !.sending = FALSE]]
<1>1. d.k \in Connection
  BY DEF Contexts
<1>2. n \in Nat
  BY <1>1 DEF Connection, Cqes
<1>3. Sent(d, cqe, stop) \in {CancelReceive(failed), SubmitSend(partial), CancelReceive(done),
                              DriveConnection(done, stop)}
  <2>1. k.sent = n
    BY <1>1 DEF Connection
  <2> HIDE DEF n
  <2>. QED  BY DEF Sent, FinishReply, n
<1> HIDE DEF n
<1>4. k \in Connection /\ [d.k EXCEPT !.failed = TRUE] \in Connection
      /\ [k EXCEPT !.sending = FALSE] \in Connection
  BY <1>1, <1>2 DEF Connection
<1>5. /\ k.receive_active = d.k.receive_active /\ k.sending = d.k.sending /\ k.input = d.k.input
      /\ k.failed = d.k.failed /\ k.close_after_send = d.k.close_after_send
  BY <1>1 DEF Connection
<1>6. CASE Sent(d, cqe, stop) = CancelReceive(failed)
  <2> DEFINE l == [d.k EXCEPT !.failed = TRUE]
  <2>0. l.failed
    BY <1>1 DEF Connection
  <2>1. failed \in Contexts /\ failed.k.failed
    <3> HIDE DEF l
    <3>1. failed = [d EXCEPT !.k = l] /\ l \in Connection
      BY <1>4 DEF l
    <3> HIDE DEF failed
    <3>. QED  BY <2>0, <3>1, WithConnection
  <2> HIDE DEF failed
  <2>. QED  BY <1>6, <2>1, PreparedKeeps DEF Roomy, SameInput
<1>7. CASE Sent(d, cqe, stop) = SubmitSend(partial)
  <2>1. partial \in Contexts /\ partial.k = k
    BY <1>4, WithConnection
  <2>2. Roomy(partial.k)
    BY <1>5, <2>1 DEF Roomy
  <2> HIDE DEF partial, k
  <2>. QED  BY <1>7, <2>1, <2>2, PreparedKeeps DEF Roomy, SameInput
<1>8. done \in Contexts /\ ~done.k.sending /\ done.k.receive_active = d.k.receive_active
      /\ done.k.input = d.k.input /\ done.k.failed = d.k.failed
      /\ done.k.close_after_send = d.k.close_after_send
  <2>1. done \in Contexts /\ done.k = [k EXCEPT !.sending = FALSE]
    BY <1>4, WithConnection
  <2>2. /\ ~[k EXCEPT !.sending = FALSE].sending
        /\ [k EXCEPT !.sending = FALSE].receive_active = k.receive_active
        /\ [k EXCEPT !.sending = FALSE].input = k.input
        /\ [k EXCEPT !.sending = FALSE].failed = k.failed
        /\ [k EXCEPT !.sending = FALSE].close_after_send = k.close_after_send
    BY <1>4 DEF Connection
  <2> HIDE DEF done, k
  <2>. QED  BY <1>5, <2>1, <2>2
<1> HIDE DEF done
<1>9. CASE Sent(d, cqe, stop) = CancelReceive(done)
  BY <1>8, <1>9, PreparedKeeps DEF Roomy, SameInput
<1>10. CASE Sent(d, cqe, stop) = DriveConnection(done, stop)
  <2>1. Roomy(done.k)
    BY <1>8 DEF Roomy
  <2>2. \/ done.k.failed \/ done.k.close_after_send \/ ~done.k.receive_active
        \/ Len(done.k.input) <= InputCapacity \div 2
    BY <1>8 DEF Roomy
  <2>. QED  BY <1>8, <1>10, <2>1, <2>2, DriveRoomy DEF Settled
<1>. QED  BY <1>3, <1>6, <1>7, <1>9, <1>10

LEMMA SendCompletedRoomy ==
    ASSUME IInv, RoomInv, NEW c \in Fds, SendCompleted(c) PROVE RoomInv'
<1>1. TypeOK /\ conn[c] \in Connection /\ stopping \in BOOLEAN /\ Roomy(conn[c])
  BY DEF IInv, TypeOK, RoomInv
<1>2. cq # <<>> /\ Head(cq).op = Send(c) /\ Head(cq) \in Cqes
  BY <1>1, OldestCqe DEF SendCompleted, Completes, TypeOK
<1>3. conn[c].sending
  <2>1. Outstanding(Send(c))
    BY <1>1, <1>2, OutstandingAfter DEF IInv
  <2>. QED  BY <2>1 DEF IInv, ReferencesMatchOperations
<1>4. PICK r \in Reads : ReleaseConnection(Sent(Context(c, conn[c]), Head(cq), r[1]))
  BY DEF SendCompleted
<1>5. r[1] \in BOOLEAN
  BY <1>1, ReadsGrow
<1> DEFINE d == Context(c, conn[c])
           e == Sent(d, Head(cq), r[1])
<1>6. d \in Contexts /\ d.k = conn[c]
  BY <1>1, ContextOf
<1> HIDE DEF d
<1>7. e \in Contexts /\ Roomy(e.k)
  BY <1>1, <1>2, <1>3, <1>5, <1>6, SentRoomy
<1>8. ReleaseConnection(e)
  BY <1>4 DEF d
<1> HIDE DEF e
<1>9. \A b \in Fds : Roomy(conn[b])'
  BY <1>1, <1>7, <1>8, ConnectionRoomy DEF RoomInv
<1>. QED  BY <1>1, <1>9, TailOneBuffer DEF RoomInv, SendCompleted, Completes

\* The listener's completions link in empty connections at most.
LEMMA ListenerRoomy ==
    ASSUME IInv, RoomInv,
           AcceptedConnection \/ AcceptedWhileStopping \/ AcceptEnded \/ AcceptCancelCompleted
    PROVE  RoomInv'
<1>1. TypeOK
  BY DEF IInv
<1>2. cq # <<>> /\ cq' = Tail(cq)
  BY DEF AcceptedConnection, AcceptedWhileStopping, AcceptEnded, AcceptCancelCompleted, Completes
<1>3. \A b \in Fds : Roomy(conn[b])'
  <2>1. CASE AcceptedConnection
    <3>1. conn' = [conn EXCEPT ![Head(cq).fd] = SubmitReceive(Context(Head(cq).fd, Zeroed)).k]
      BY <2>1 DEF AcceptedConnection
    <3>2. Head(cq).fd \in Fds
      <4>1. Head(cq).op \in Operations /\ Head(cq).op[1] = "accept" /\ Head(cq).res = "ok"
        BY <1>1, <1>2, <2>1, OldestCqe DEF AcceptedConnection, Completes, TypeOK
      <4>2. Head(cq).op = AcceptOperation
        BY <4>1, OperationNames
      <4>. QED  BY <1>2, <4>1, <4>2, ListenerCqe
    <3>3. PICK c \in Fds : c = Head(cq).fd
      BY <3>2
    <3>4. Zeroed \in Connection /\ ~Zeroed.sending
      BY WorkerAssumption DEF Zeroed, Connection
    <3> DEFINE d == Context(c, Zeroed)
    <3>5. d \in Contexts /\ d.k = Zeroed
      BY <1>1, <3>4, ContextOf
    <3>6. ~SubmitReceive(d).k.sending
      BY <3>4, <3>5, PreparedKeeps DEF SameInput
    <3> HIDE DEF d
    <3>7. conn' = [conn EXCEPT ![c] = SubmitReceive(d).k] /\ conn \in [Fds -> Connection]
      BY <1>1, <3>1, <3>3 DEF d, TypeOK
    <3>. QED  BY <3>6, <3>7 DEF RoomInv, Roomy
  <2>2. CASE conn' = conn
    BY <2>2 DEF RoomInv, Roomy
  <2>. QED  BY <2>1, <2>2 DEF AcceptedWhileStopping, AcceptEnded, AcceptCancelCompleted
<1>. QED  BY <1>1, <1>2, <1>3, TailOneBuffer DEF RoomInv

\* main's steps and the signal change no input and queue no CQE.
LEMMA MainRoomy ==
    ASSUME IInv, RoomInv, Main \/ SubmitInterrupted \/ OnSignal \/ UNCHANGED vars
    PROVE  RoomInv'
<1>1. conn \in [Fds -> Connection]
  BY DEF IInv, TypeOK
<1>2. CASE StartShutdown
  <2>1. ASSUME NEW c \in Fds PROVE Roomy(conn[c])'
    <3>1. conn'[c] = conn[c]
          \/ conn'[c] = [conn[c] EXCEPT !.cancel_pending = TRUE, !.references = @ + 1]
      BY <1>2 DEF StartShutdown
    <3>2. Roomy(conn[c]) /\ conn[c] \in Connection
      BY <1>1 DEF RoomInv
    <3>3. SameInput(conn[c], conn'[c]) /\ conn'[c].receive_active = conn[c].receive_active
      BY <3>1, <3>2, CancellingConnection DEF SameInput
    <3>. QED  BY <3>2, <3>3 DEF Roomy, SameInput
  <2>2. cq' = cq
    BY <1>2 DEF StartShutdown
  <2>. QED  BY <2>1, <2>2 DEF RoomInv, OneBuffer
<1>3. CASE ~StartShutdown
  <2>1. conn' = conn /\ cq' = cq
    BY <1>3 DEF Main, Submit, WaitTimedOut, BatchReaped, Exit, SubmitInterrupted, OnSignal, vars
  <2>. QED  BY <2>1 DEF RoomInv, OneBuffer, Roomy
<1>. QED  BY <1>2, <1>3

\* The kernel queues at most one CQE.
LEMMA PostedOneBuffer ==
    ASSUME TypeOK, OneBuffer, NEW cqe, Post(cqe),
           cqe.op[1] = "receive" => ~cqe.more /\ Len(cqe.data) <= BufferSize
    PROVE  OneBuffer'
<1>1. cq \in Seq(Cqes)
  BY DEF TypeOK
<1>2. /\ DOMAIN cq = 1..Len(cq) /\ Len(cq) \in Nat /\ cq' = Append(cq, cqe)
      /\ Len(cq') = Len(cq) + 1 /\ DOMAIN cq' = 1..(Len(cq) + 1)
      /\ \A i \in 1..Len(cq) : cq'[i] = cq[i]
      /\ cq'[Len(cq) + 1] = cqe
  BY <1>1 DEF Post
<1>3. ASSUME NEW i \in DOMAIN cq', cq'[i].op[1] = "receive"
      PROVE  ~cq'[i].more /\ Len(cq'[i].data) <= BufferSize
  <2>1. i \in DOMAIN cq \/ i = Len(cq) + 1
    BY <1>2
  <2>. QED  BY <1>2, <1>3, <2>1 DEF OneBuffer
<1>. QED  BY <1>3 DEF OneBuffer

LEMMA KernelRoomy ==
    ASSUME IInv, RoomInv, ~Multishot, Kernel PROVE RoomInv'
<1>1. TypeOK /\ OneBuffer
  BY DEF IInv, RoomInv
<1>2. conn' = conn
  BY DEF Kernel, KernelAcceptFails, KernelAccepts, KernelReceives, KernelReceivesEof,
         KernelReceiveFails, KernelSends, KernelSendFails, KernelFindsTarget, KernelEndsTarget,
         KernelCancels, worker
<1>3. OneBuffer'
  <2>1. ASSUME NEW op, NEW res, Post(Cqe(op, res, FALSE)) PROVE OneBuffer'
    <3>1. ~Cqe(op, res, FALSE).more /\ Len(Cqe(op, res, FALSE).data) <= BufferSize
      BY WorkerAssumption DEF Cqe
    <3>. QED  BY <1>1, <2>1, <3>1, PostedOneBuffer
  <2>2. ASSUME NEW cqe, Post(cqe), cqe.op[1] # "receive" PROVE OneBuffer'
    BY <1>1, <2>2, PostedOneBuffer
  <2>3. CASE KernelAcceptFails
    BY <2>1, <2>3 DEF KernelAcceptFails
  <2>4. ASSUME NEW c \in Fds, KernelAccepts(c) PROVE OneBuffer'
    <3>1. PICK more \in MayContinue(TRUE) : Post([Cqe(AcceptOperation, "ok", more) EXCEPT !.fd = c])
      BY <2>4 DEF KernelAccepts
    <3>2. [Cqe(AcceptOperation, "ok", more) EXCEPT !.fd = c].op = AcceptOperation
      BY DEF Cqe
    <3>. QED  BY <2>2, <3>1, <3>2, OperationNames
  <2>5. ASSUME NEW c \in Fds, KernelReceives(c) PROVE OneBuffer'
    <3> DEFINE from == peer[c].position
               left == Len(peer[c].script) - from
               most == IF left < BufferSize THEN left ELSE BufferSize
    <3>1. PICK n \in Pieces(most), buffer \in free, more \in MayContinue(Multishot) :
             Post([Cqe(Receive(c), "ok", more) EXCEPT
                      !.buffer = buffer, !.data = SubSeq(peer[c].script, from + 1, from + n)])
      BY <2>5 DEF KernelReceives
    <3>2. ~more
      BY WorkerAssumption DEF MayContinue
    <3>3. from \in Nat /\ left \in Int /\ BufferSize \in Nat
      <4>1. peer[c] \in Peers
        BY <1>1 DEF TypeOK
      <4>2. peer[c].script \in Scripts \cup {<<>>} /\ peer[c].position \in Nat
        BY <4>1 DEF Peers
      <4>3. peer[c].script \in Seq(Line)
        BY <4>2, WorkerAssumption, EmptySeq
      <4>. QED  BY <4>2, <4>3, LenProperties, WorkerAssumption
    <3>4. n \in Nat /\ n <= BufferSize
      BY <3>3 DEF Pieces
    <3> HIDE DEF from, most
    <3> DEFINE data == SubSeq(peer[c].script, from + 1, from + n)
               cqe == [Cqe(Receive(c), "ok", more) EXCEPT !.buffer = buffer, !.data = data]
    <3>5. Len(data) <= BufferSize
      <4>1. Len(data) = IF from + 1 <= from + n THEN from + n - (from + 1) + 1 ELSE 0
        BY <3>3, <3>4
      <4>. QED  BY <3>3, <3>4, <4>1
    <3> HIDE DEF data
    <3>6. ~cqe.more /\ cqe.data = data
      BY <3>2 DEF Cqe
    <3>7. Post(cqe)
      BY <3>1 DEF data
    <3> HIDE DEF cqe
    <3>. QED  BY <1>1, <3>5, <3>6, <3>7, PostedOneBuffer
  <2>6. ASSUME NEW c \in Fds, KernelReceivesEof(c) PROVE OneBuffer'
    <3>1. PICK buffer \in free \cup {NULL} :
             Post([Cqe(Receive(c), "eof", FALSE) EXCEPT !.buffer = buffer])
      BY <2>6 DEF KernelReceivesEof
    <3> DEFINE cqe == [Cqe(Receive(c), "eof", FALSE) EXCEPT !.buffer = buffer]
    <3>2. ~cqe.more /\ Len(cqe.data) <= BufferSize
      BY WorkerAssumption DEF Cqe
    <3> HIDE DEF cqe
    <3>. QED  BY <1>1, <3>1, <3>2, PostedOneBuffer DEF cqe
  <2>7. ASSUME NEW c \in Fds, KernelReceiveFails(c) \/ KernelSendFails(c) PROVE OneBuffer'
    BY <2>1, <2>7 DEF KernelReceiveFails, KernelSendFails
  <2>8. ASSUME NEW c \in Fds, KernelSends(c) PROVE OneBuffer'
    <3>1. PICK n : Post([Cqe(Send(c), "ok", FALSE) EXCEPT !.count = n])
      BY <2>8 DEF KernelSends
    <3>2. [Cqe(Send(c), "ok", FALSE) EXCEPT !.count = n].op = Send(c)
      BY DEF Cqe
    <3>. QED  BY <2>2, <3>1, <3>2, OperationNames
  <2>9. ASSUME NEW op \in Operations,
               KernelFindsTarget(op) \/ KernelEndsTarget(op) \/ KernelCancels(op)
        PROVE  OneBuffer'
    <3>1. CASE KernelFindsTarget(op)
      BY <1>1, <3>1 DEF KernelFindsTarget, OneBuffer
    <3>2. CASE KernelEndsTarget(op) \/ KernelCancels(op)
      BY <2>1, <3>2 DEF KernelEndsTarget, KernelCancels
    <3>. QED  BY <2>9, <3>1, <3>2
  <2>. QED  BY <2>3, <2>4, <2>5, <2>6, <2>7, <2>8, <2>9 DEF Kernel
<1>. QED  BY <1>2, <1>3 DEF RoomInv, Roomy

LEMMA NextRoomy ==
    ASSUME IInv, RoomInv, ~Multishot, [Next]_vars PROVE RoomInv'
<1>1. CASE Complete
  BY <1>1, ListenerRoomy, CancelCompletedRoomy, ReceiveCompletedRoomy, SendCompletedRoomy DEF Complete
<1>2. CASE Main \/ SubmitInterrupted \/ OnSignal \/ UNCHANGED vars
  BY <1>2, MainRoomy
<1>3. CASE Kernel
  BY <1>3, KernelRoomy
<1>. QED  BY <1>1, <1>2, <1>3 DEF Next, Terminated

\* oneshot/server.c never has to check the pipelined input limit while it sends
\* a reply: if a buffer is at most half of the input, the data of the receive
\* that drive_connection armed or left armed fits, for any peers and timing.
THEOREM PipelinedInputFits ==
    ASSUME ~Multishot, BufferSize <= InputCapacity - InputCapacity \div 2
    PROVE  Spec => []OneshotInputFits
<1>1. Init => RoomInv
  BY DEF Init, RoomInv, Roomy, Zeroed, OneBuffer
<1>2. IInv /\ RoomInv /\ [Next]_vars => RoomInv'
  BY NextRoomy
<1>3. IInv /\ RoomInv => OneshotInputFits
  <2> SUFFICES ASSUME IInv, RoomInv, NEW i \in DOMAIN cq, cq[i].op[1] = "receive",
                      NEW c, c = cq[i].op[2],
                      conn[c].sending, ~conn[c].failed, ~conn[c].close_after_send
               PROVE  Len(cq[i].data) <= InputCapacity - Len(conn[c].input)
    BY DEF OneshotInputFits
  <2>1. cq[i].op \in Operations /\ cq[i] \in Cqes
    BY QueuedCqes DEF IInv, TypeOK
  <2>2. c \in Fds /\ cq[i].op = Receive(c)
    BY <2>1, WorkerAssumption DEF Operations, Receive, AcceptOperation, AcceptCancel
  <2>3. ~cq[i].more /\ Len(cq[i].data) <= BufferSize
    BY DEF RoomInv, OneBuffer
  <2>4. Outstanding(Receive(c))
    BY <2>2, <2>3 DEF Outstanding, Ended
  <2>5. conn[c].receive_active
    BY <2>2, <2>4 DEF IInv, ReferencesMatchOperations
  <2>6. Len(conn[c].input) <= InputCapacity \div 2
    BY <2>2, <2>5 DEF RoomInv, Roomy
  <2>7. Len(conn[c].input) \in Nat /\ Len(cq[i].data) \in Nat
    BY <2>1, <2>2, LenProperties DEF IInv, TypeOK, Connection, Cqes
  <2>8. InputCapacity \in Nat /\ InputCapacity \div 2 \in Nat /\ BufferSize \in Nat
    BY FramingAssumption, WorkerAssumption
  <2> DEFINE half == InputCapacity \div 2
  <2>9. Len(conn[c].input) <= half /\ BufferSize <= InputCapacity - half /\ half \in Nat
    BY <2>6, <2>8
  <2> HIDE DEF half
  <2>10. ASSUME NEW data \in Nat, NEW input \in Nat, NEW h \in Nat, NEW capacity \in Nat,
                 NEW size \in Nat, data <= size, input <= h, size <= capacity - h
          PROVE  data <= capacity - input
    BY <2>10
  <2>. QED  BY <2>3, <2>7, <2>8, <2>9, <2>10
<1>. QED  BY <1>1, <1>2, <1>3, BookkeepingAgrees, PTL DEF Spec

-----------------------------------------------------------------------------
(* The lines a peer sent, between its stream and the input.                *)

IsData(cqe, c) == cqe.op = Receive(c) /\ cqe.res = "ok"

\* The lines of s from line i on are those of the input and, in their order,
\* those of the receive CQEs of c in q; at[n] is how many lines of s come
\* before those of the n-th CQE.
FeedsAt(s, i, input, q, c, at) ==
    /\ at \in [1..(Len(q) + 1) -> 0..Len(s)]
    /\ at[1] = i - 1 + Len(input) /\ input = SubSeq(s, i, at[1])
    /\ at[Len(q) + 1] = Len(s)
    /\ \A n \in 1..Len(q) :
          IF IsData(q[n], c)
          THEN at[n + 1] = at[n] + Len(q[n].data) /\ q[n].data = SubSeq(s, at[n] + 1, at[n + 1])
          ELSE at[n + 1] = at[n]

Feeds(s, i, input, q, c) ==
    \E at \in [1..(Len(q) + 1) -> 0..Len(s)] : FeedsAt(s, i, input, q, c, at)

LEMMA SliceOfConcat ==
    ASSUME NEW S, NEW s \in Seq(S), NEW t \in Seq(S), NEW m \in Nat \ {0}, NEW n \in 0..Len(s)
    PROVE  SubSeq(s \o t, m, n) = SubSeq(s, m, n)
  <1>1. Len(s) \in Nat /\ \A j \in 1..Len(s) : (s \o t)[j] = s[j] /\ s[j] \in S
    BY PrefixElements, LenProperties, ElementOfSeq
  <1>2. \A j \in m..n : (s \o t)[j] = s[j] /\ s[j] \in S
    BY <1>1
  <1>3. /\ SubSeq(s, m, n) \in Seq(S)
        /\ Len(SubSeq(s, m, n)) = IF m <= n THEN n - m + 1 ELSE 0
        /\ \A j \in 1..(n - m + 1) : SubSeq(s, m, n)[j] = s[m + j - 1]
    BY <1>2, SubSeqProperties
  <1>4. /\ SubSeq(s \o t, m, n) \in Seq(S)
        /\ Len(SubSeq(s \o t, m, n)) = IF m <= n THEN n - m + 1 ELSE 0
        /\ \A j \in 1..(n - m + 1) : SubSeq(s \o t, m, n)[j] = (s \o t)[m + j - 1]
    BY <1>2, SubSeqProperties
  <1>5. Len(SubSeq(s, m, n)) = Len(SubSeq(s \o t, m, n))
    BY <1>3, <1>4
  <1>6. ASSUME NEW j \in 1..Len(SubSeq(s, m, n))
        PROVE  SubSeq(s, m, n)[j] = SubSeq(s \o t, m, n)[j]
    <2>1. j \in 1..(n - m + 1) /\ m + j - 1 \in m..n
      BY <1>3, <1>1
    <2>2. QED
      BY <1>2, <1>3, <1>4, <2>1
  <1>7. QED
    BY <1>3, <1>4, <1>5, <1>6, SeqEqual

LEMMA SliceAfterConcat ==
    ASSUME NEW S, NEW s \in Seq(S), NEW t \in Seq(S)
    PROVE  SubSeq(s \o t, Len(s) + 1, Len(s) + Len(t)) = t
  <1>1. Len(s) \in Nat /\ Len(t) \in Nat /\ Len(s \o t) = Len(s) + Len(t)
    BY ConcatProperties, LenProperties
  <1>2. SubSeq(s, Len(s) + 1, Len(s)) = <<>>
    BY <1>1, SubSeqEmpty
  <1>3. SubSeq(s \o t, Len(s) + 1, Len(s \o t)) = <<>> \o t
    BY <1>1, <1>2, RestOfConcat
  <1>4. QED
    BY <1>1, <1>3, ConcatEmptySeq

\* The facts about where the lines are.
LEMMA FedLengths ==
    ASSUME NEW s \in Seq(Line), NEW i \in 1..(Len(s) + 1), NEW input \in Seq(Line),
           NEW q \in Seq(Cqes), NEW c, NEW at, FeedsAt(s, i, input, q, c, at)
    PROVE  /\ Len(s) \in Nat /\ Len(input) \in Nat /\ Len(q) \in Nat
           /\ \A n \in 1..(Len(q) + 1) : at[n] \in 0..Len(s)
           /\ \A n \in 1..Len(q) : q[n] \in Cqes /\ q[n].data \in Seq(Line)
  <1>1. \A n \in 1..Len(q) : q[n] \in Cqes
    BY ElementOfSeq
  <1>2. QED
    BY <1>1, LenProperties DEF FeedsAt, Cqes

LEMMA FeedsNothing ==
    ASSUME NEW q \in Seq(Cqes), NEW c, \A n \in 1..Len(q) : ~IsData(q[n], c)
    PROVE  Feeds(<<>>, 1, <<>>, q, c)
  <1> DEFINE at == [n \in 1..(Len(q) + 1) |-> 0]
  <1>1. Len(q) \in Nat /\ Len(<<>>) = 0
    BY LenProperties
  <1>2. at \in [1..(Len(q) + 1) -> 0..Len(<<>>)]
    BY <1>1
  <1>3. SubSeq(<<>>, 1, 0) = <<>>
    BY SubSeqEmpty
  <1>4. \A n \in 1..(Len(q) + 1) : at[n] = 0
    OBVIOUS
  <1> HIDE DEF at
  <1>5. at[1] = 0 /\ at[Len(q) + 1] = 0
    BY <1>1, <1>4
  <1>6. \A n \in 1..Len(q) : at[n + 1] = at[n]
    BY <1>1, <1>4
  <1>7. FeedsAt(<<>>, 1, <<>>, q, c, at)
    BY <1>1, <1>2, <1>3, <1>5, <1>6 DEF FeedsAt
  <1>8. QED
    BY <1>2, <1>7 DEF Feeds

\* A CQE that brings no lines is completed, ...
LEMMA FeedsAfterOther ==
    ASSUME NEW s \in Seq(Line), NEW i \in 1..(Len(s) + 1), NEW input \in Seq(Line),
           NEW q \in Seq(Cqes), NEW c, Feeds(s, i, input, q, c),
           q # <<>>, ~IsData(Head(q), c)
    PROVE  Feeds(s, i, input, Tail(q), c)
  <1>1. PICK old : FeedsAt(s, i, input, q, c, old)
    BY DEF Feeds
  <1> DEFINE at == [n \in 1..Len(q) |-> old[n + 1]]
  <1>2. /\ Len(s) \in Nat /\ Len(q) \in Nat /\ Len(q) > 0
        /\ \A n \in 1..(Len(q) + 1) : old[n] \in 0..Len(s)
    BY <1>1, FedLengths, EmptySeq
  <1>3. /\ Tail(q) \in Seq(Cqes) /\ Len(Tail(q)) = Len(q) - 1 /\ Head(q) = q[1]
        /\ \A n \in 1..Len(Tail(q)) : Tail(q)[n] = q[n + 1]
    BY HeadTailProperties
  <1>4. at \in [1..(Len(Tail(q)) + 1) -> 0..Len(s)]
    BY <1>2, <1>3
  <1>5. \A n \in 1..Len(q) : at[n] = old[n + 1]
    OBVIOUS
  <1> HIDE DEF at
  <1>6. old[2] = old[1]
    BY <1>1, <1>2, <1>3 DEF FeedsAt
  <1>7. at[1] = old[1] /\ at[Len(Tail(q)) + 1] = old[Len(q) + 1]
    BY <1>2, <1>3, <1>5, <1>6
  <1>8. ASSUME NEW n \in 1..Len(Tail(q))
        PROVE  /\ n + 1 \in 1..Len(q) /\ Tail(q)[n] = q[n + 1]
               /\ at[n] = old[n + 1] /\ at[n + 1] = old[(n + 1) + 1]
    BY <1>2, <1>3, <1>5
  <1>9. FeedsAt(s, i, input, Tail(q), c, at)
    BY <1>1, <1>4, <1>7, <1>8 DEF FeedsAt
  <1>10. QED
    BY <1>4, <1>9 DEF Feeds

\* ... and one that does adds them to the input.
LEMMA FeedsAfterData ==
    ASSUME NEW s \in Seq(Line), NEW i \in 1..(Len(s) + 1), NEW input \in Seq(Line),
           NEW q \in Seq(Cqes), NEW c, Feeds(s, i, input, q, c),
           q # <<>>, IsData(Head(q), c)
    PROVE  Feeds(s, i, input \o Head(q).data, Tail(q), c)
  <1>1. PICK old : FeedsAt(s, i, input, q, c, old)
    BY DEF Feeds
  <1> DEFINE at == [n \in 1..Len(q) |-> old[n + 1]]
  <1>2. /\ Len(s) \in Nat /\ Len(q) \in Nat /\ Len(q) > 0 /\ Len(input) \in Nat
        /\ \A n \in 1..(Len(q) + 1) : old[n] \in 0..Len(s)
        /\ \A n \in 1..Len(q) : q[n].data \in Seq(Line)
    BY <1>1, FedLengths, EmptySeq
  <1>20. old[1] \in 0..Len(s) /\ old[2] \in 0..Len(s)
    BY <1>2
  <1>3. /\ Tail(q) \in Seq(Cqes) /\ Len(Tail(q)) = Len(q) - 1 /\ Head(q) = q[1]
        /\ \A n \in 1..Len(Tail(q)) : Tail(q)[n] = q[n + 1]
    BY HeadTailProperties
  <1>4. at \in [1..(Len(Tail(q)) + 1) -> 0..Len(s)]
    BY <1>2, <1>3
  <1>5. \A n \in 1..Len(q) : at[n] = old[n + 1]
    OBVIOUS
  <1> HIDE DEF at
  <1>6. PICK data \in Seq(Line) : data = Head(q).data
    BY <1>2, <1>3
  <1>7. old[2] = old[1] + Len(data) /\ data = SubSeq(s, old[1] + 1, old[2])
    <2>1. 1 \in 1..Len(q) /\ 1 + 1 = 2
      BY <1>2
    <2>2. QED
      BY <1>1, <1>3, <1>6, <2>1 DEF FeedsAt
  <1>8. at[1] = old[2] /\ at[Len(Tail(q)) + 1] = old[Len(q) + 1]
    BY <1>2, <1>3, <1>5
  <1>9. ASSUME NEW n \in 1..Len(Tail(q))
        PROVE  /\ n + 1 \in 1..Len(q) /\ Tail(q)[n] = q[n + 1]
               /\ at[n] = old[n + 1] /\ at[n + 1] = old[(n + 1) + 1]
    BY <1>2, <1>3, <1>5
  <1>10. Len(data) \in Nat /\ Len(input \o data) = Len(input) + Len(data)
    BY <1>6, ConcatProperties, LenProperties
  <1>11. old[1] = i - 1 + Len(input) /\ input = SubSeq(s, i, old[1])
    BY <1>1 DEF FeedsAt
  <1>12. input \o data = SubSeq(s, i, old[2])
    <2>1. /\ old[1] \in i - 1..Len(s) /\ old[2] \in old[1]..Len(s)
      <3>1. old[1] = i - 1 + Len(input) /\ old[2] = old[1] + Len(data)
        BY <1>7, <1>11
      <3>2. Len(input) \in Nat /\ Len(data) \in Nat /\ Len(s) \in Nat
        BY <1>2, <1>10
      <3>3. QED
        BY <1>20, <3>1, <3>2
    <2>2. SubSeq(s, i, old[1]) \o SubSeq(s, old[1] + 1, old[2]) = SubSeq(s, i, old[2])
      BY <2>1, ConcatAdjacentSubSeq
    <2>3. QED
      BY <1>7, <1>11, <2>2
  <1>13. at[1] = i - 1 + Len(input \o data)
    <2>1. at[1] = (i - 1 + Len(input)) + Len(data)
      BY <1>7, <1>8, <1>11
    <2>2. QED
      BY <1>2, <1>10, <2>1
  <1>14. at[Len(Tail(q)) + 1] = Len(s)
    BY <1>1, <1>8 DEF FeedsAt
  <1>15. FeedsAt(s, i, input \o data, Tail(q), c, at)
    BY <1>1, <1>4, <1>8, <1>9, <1>12, <1>13, <1>14 DEF FeedsAt
  <1>16. QED
    BY <1>4, <1>6, <1>15 DEF Feeds

\* A request is taken from the input.
LEMMA FeedsTaken ==
    ASSUME NEW s \in Seq(Line), NEW i \in 1..(Len(s) + 1), NEW input \in Seq(Line),
           NEW q \in Seq(Cqes), NEW c, Feeds(s, i, input, q, c), NEW m \in 0..Len(input)
    PROVE  Feeds(s, i + m, SubSeq(input, m + 1, Len(input)), q, c)
  <1>1. PICK at : FeedsAt(s, i, input, q, c, at)
    BY DEF Feeds
  <1>2. /\ Len(s) \in Nat /\ Len(q) \in Nat /\ Len(input) \in Nat
        /\ \A n \in 1..(Len(q) + 1) : at[n] \in 0..Len(s)
    BY <1>1, FedLengths
  <1>3. PICK rest : rest = SubSeq(input, m + 1, Len(input))
    OBVIOUS
  <1>4. at[1] = i - 1 + Len(input) /\ input = SubSeq(s, i, at[1]) /\ at[1] \in 0..Len(s)
    BY <1>1, <1>2 DEF FeedsAt
  <1>5. Len(rest) = Len(input) - m
    BY <1>2, <1>3, RestOfStream
  <1>6. rest = SubSeq(s, i + m, at[1])
    <2>1. CASE m = Len(input)
      <3>1. rest = <<>>
        BY <1>2, <1>3, <2>1, SubSeqEmpty
      <3>2. SubSeq(s, i + m, at[1]) = <<>>
        BY <1>2, <1>4, <2>1, SubSeqEmpty
      <3>3. QED
        BY <3>1, <3>2
    <2>2. CASE m # Len(input)
      <3>1. /\ i \in 1..Len(s) /\ at[1] \in 1..Len(s)
            /\ m + 1 \in 1..(at[1] - i + 1) /\ Len(input) \in 1..(at[1] - i + 1)
            /\ i + (m + 1) - 1 = i + m /\ i + Len(input) - 1 = at[1]
        BY <1>2, <1>4, <2>2
      <3>2. SubSeq(SubSeq(s, i, at[1]), m + 1, Len(input)) = SubSeq(s, i + (m + 1) - 1, i + Len(input) - 1)
        BY <3>1, SubSeqOfSubSeq
      <3>3. QED
        BY <1>3, <1>4, <3>1, <3>2
    <2>3. QED
      BY <2>1, <2>2
  <1>7. at[1] = (i + m) - 1 + Len(rest)
    <2>1. i - 1 + Len(input) = (i + m) - 1 + (Len(input) - m)
      BY <1>2
    <2>2. QED
      BY <1>4, <1>5, <2>1
  <1>8. FeedsAt(s, i + m, rest, q, c, at)
    BY <1>1, <1>6, <1>7 DEF FeedsAt
  <1>9. QED
    BY <1>1, <1>3, <1>8 DEF Feeds, FeedsAt

\* A CQE is posted: another's, or of the connection and without lines, ...
LEMMA FeedsPosted ==
    ASSUME NEW s \in Seq(Line), NEW i \in 1..(Len(s) + 1), NEW input \in Seq(Line),
           NEW q \in Seq(Cqes), NEW c, Feeds(s, i, input, q, c),
           NEW cqe \in Cqes, ~IsData(cqe, c)
    PROVE  Feeds(s, i, input, Append(q, cqe), c)
  <1>1. PICK old : FeedsAt(s, i, input, q, c, old)
    BY DEF Feeds
  <1>2. /\ Len(s) \in Nat /\ Len(q) \in Nat
        /\ \A n \in 1..(Len(q) + 1) : old[n] \in 0..Len(s)
    BY <1>1, FedLengths
  <1> DEFINE at == [n \in 1..(Len(q) + 2) |-> IF n <= Len(q) + 1 THEN old[n] ELSE Len(s)]
  <1>3. /\ Append(q, cqe) \in Seq(Cqes) /\ Len(Append(q, cqe)) = Len(q) + 1
        /\ Append(q, cqe)[Len(q) + 1] = cqe
        /\ \A n \in 1..Len(q) : Append(q, cqe)[n] = q[n]
    BY <1>2, AppendProperties
  <1>4. at \in [1..(Len(Append(q, cqe)) + 1) -> 0..Len(s)]
    BY <1>2, <1>3
  <1>5. /\ \A n \in 1..(Len(q) + 1) : at[n] = old[n]
        /\ at[(Len(q) + 1) + 1] = Len(s)
    BY <1>2
  <1> HIDE DEF at
  <1>6. old[Len(q) + 1] = Len(s)
    BY <1>1 DEF FeedsAt
  <1>7. at[1] = old[1] /\ at[Len(q) + 1] = Len(s)
    BY <1>2, <1>5, <1>6
  <1>8. ASSUME NEW n \in 1..Len(q)
        PROVE  Append(q, cqe)[n] = q[n] /\ at[n] = old[n] /\ at[n + 1] = old[n + 1]
    BY <1>2, <1>3, <1>5
  <1>9. ASSUME NEW n \in 1..Len(Append(q, cqe))
        PROVE  IF IsData(Append(q, cqe)[n], c)
               THEN /\ at[n + 1] = at[n] + Len(Append(q, cqe)[n].data)
                    /\ Append(q, cqe)[n].data = SubSeq(s, at[n] + 1, at[n + 1])
               ELSE at[n + 1] = at[n]
    <2>1. CASE n = Len(q) + 1
      BY <1>3, <1>5, <1>7, <2>1
    <2>2. CASE n # Len(q) + 1
      <3>1. n \in 1..Len(q)
        BY <1>2, <1>3, <2>2
      <3>2. QED
        BY <1>1, <1>8, <3>1 DEF FeedsAt
    <2>3. QED
      BY <2>1, <2>2
  <1>10. FeedsAt(s, i, input, Append(q, cqe), c, at)
    <2>1. at[1] = i - 1 + Len(input) /\ input = SubSeq(s, i, at[1])
      BY <1>1, <1>7 DEF FeedsAt
    <2>2. at[Len(Append(q, cqe)) + 1] = Len(s)
      BY <1>3, <1>5
    <2>3. QED
      BY <1>4, <1>9, <2>1, <2>2 DEF FeedsAt
  <1>11. QED
    BY <1>4, <1>10 DEF Feeds

\* ... or the next lines arrive.
LEMMA FeedsReceived ==
    ASSUME NEW s \in Seq(Line), NEW i \in 1..(Len(s) + 1), NEW input \in Seq(Line),
           NEW q \in Seq(Cqes), NEW c, Feeds(s, i, input, q, c),
           NEW cqe \in Cqes, IsData(cqe, c)
    PROVE  Feeds(s \o cqe.data, i, input, Append(q, cqe), c)
  <1>1. PICK old : FeedsAt(s, i, input, q, c, old)
    BY DEF Feeds
  <1>2. /\ Len(s) \in Nat /\ Len(q) \in Nat
        /\ \A n \in 1..(Len(q) + 1) : old[n] \in 0..Len(s)
    BY <1>1, FedLengths
  <1>3. PICK t \in Seq(Line) : t = cqe.data
    BY DEF Cqes
  <1>4. PICK st : st = s \o t
    OBVIOUS
  <1>5. st \in Seq(Line) /\ Len(st) = Len(s) + Len(t) /\ Len(t) \in Nat
    BY <1>4, ConcatProperties, LenProperties
  <1> DEFINE at == [n \in 1..(Len(q) + 2) |-> IF n <= Len(q) + 1 THEN old[n] ELSE Len(st)]
  <1>6. /\ Append(q, cqe) \in Seq(Cqes) /\ Len(Append(q, cqe)) = Len(q) + 1
        /\ Append(q, cqe)[Len(q) + 1] = cqe
        /\ \A n \in 1..Len(q) : Append(q, cqe)[n] = q[n]
    BY <1>2, AppendProperties
  <1>7. at \in [1..(Len(Append(q, cqe)) + 1) -> 0..Len(st)]
    BY <1>2, <1>5, <1>6
  <1>8. /\ \A n \in 1..(Len(q) + 1) : at[n] = old[n]
        /\ at[(Len(q) + 1) + 1] = Len(st)
    BY <1>2
  <1> HIDE DEF at
  <1>9. old[Len(q) + 1] = Len(s)
    BY <1>1 DEF FeedsAt
  <1>10. at[1] = old[1] /\ at[Len(q) + 1] = Len(s)
    BY <1>2, <1>8, <1>9
  <1>11. ASSUME NEW m \in Nat \ {0}, NEW n \in 1..(Len(q) + 1)
         PROVE  SubSeq(st, m, old[n]) = SubSeq(s, m, old[n])
    BY <1>2, <1>4, SliceOfConcat
  <1>12. ASSUME NEW n \in 1..Len(q)
         PROVE  /\ Append(q, cqe)[n] = q[n] /\ at[n] = old[n] /\ at[n + 1] = old[n + 1]
                /\ SubSeq(st, old[n] + 1, old[n + 1]) = SubSeq(s, old[n] + 1, old[n + 1])
    <2>1. old[n] + 1 \in Nat \ {0} /\ n + 1 \in 1..(Len(q) + 1) /\ n \in 1..(Len(q) + 1)
      BY <1>2
    <2>2. QED
      BY <1>6, <1>8, <1>11, <2>1
  <1>13. ASSUME NEW n \in 1..Len(Append(q, cqe))
         PROVE  IF IsData(Append(q, cqe)[n], c)
                THEN /\ at[n + 1] = at[n] + Len(Append(q, cqe)[n].data)
                     /\ Append(q, cqe)[n].data = SubSeq(st, at[n] + 1, at[n + 1])
                ELSE at[n + 1] = at[n]
    <2>1. CASE n = Len(q) + 1
      <3>1. t = SubSeq(st, Len(s) + 1, Len(st))
        BY <1>4, <1>5, SliceAfterConcat
      <3>2. QED
        BY <1>3, <1>5, <1>6, <1>8, <1>10, <2>1, <3>1
    <2>2. CASE n # Len(q) + 1
      <3>1. n \in 1..Len(q)
        BY <1>2, <1>6, <2>2
      <3>2. QED
        BY <1>1, <1>12, <3>1 DEF FeedsAt
    <2>3. QED
      BY <2>1, <2>2
  <1>14. FeedsAt(st, i, input, Append(q, cqe), c, at)
    <2>1. at[1] = i - 1 + Len(input) /\ input = SubSeq(s, i, at[1])
      BY <1>1, <1>10 DEF FeedsAt
    <2>2. SubSeq(st, i, at[1]) = SubSeq(s, i, at[1])
      BY <1>2, <1>10, <1>11
    <2>3. at[Len(Append(q, cqe)) + 1] = Len(st)
      BY <1>6, <1>8
    <2>4. QED
      BY <1>7, <1>13, <2>1, <2>2, <2>3 DEF FeedsAt
  <1>15. QED
    BY <1>3, <1>4, <1>7, <1>14 DEF Feeds

\* What the input decides is what the stream calls for there.
LEMMA InputDecides ==
    ASSUME NEW s \in Seq(Line), NEW i \in 1..(Len(s) + 1), NEW input \in Seq(Line),
           NEW q \in Seq(Cqes), NEW c, Feeds(s, i, input, q, c),
           ParseRequest(input).verdict # "incomplete"
    PROVE  ParseAt(s, i) = ParseRequest(input)
  <1>1. PICK at : FeedsAt(s, i, input, q, c, at)
    BY DEF Feeds
  <1>2. /\ Len(s) \in Nat /\ Len(q) \in Nat /\ Len(input) \in Nat
        /\ \A n \in 1..(Len(q) + 1) : at[n] \in 0..Len(s)
    BY <1>1, FedLengths
  <1>3. at[1] = i - 1 + Len(input) /\ input = SubSeq(s, i, at[1]) /\ at[1] \in i - 1..Len(s)
    BY <1>1, <1>2 DEF FeedsAt
  <1>4. PICK rest : rest = SubSeq(s, at[1] + 1, Len(s))
    OBVIOUS
  <1>5. rest \in Seq(Line)
    <2>1. at[1] + 1 \in 1..(Len(s) + 1)
      BY <1>2, <1>3
    <2>2. QED
      BY <1>4, <2>1, RestOfStream
  <1>6. SubSeq(s, i, Len(s)) = input \o rest
    <2>1. Len(s) \in at[1]..Len(s)
      BY <1>2, <1>3
    <2>2. SubSeq(s, i, at[1]) \o SubSeq(s, at[1] + 1, Len(s)) = SubSeq(s, i, Len(s))
      BY <1>3, <2>1, ConcatAdjacentSubSeq
    <2>3. QED
      BY <1>3, <1>4, <2>2
  <1>7. QED
    BY <1>5, <1>6, FragmentationIndependence DEF ParseAt

\* With no lines on their way the input is the rest of the stream.
LEMMA InputIsRest ==
    ASSUME NEW s \in Seq(Line), NEW i \in 1..(Len(s) + 1), NEW input \in Seq(Line),
           NEW q \in Seq(Cqes), NEW c, Feeds(s, i, input, q, c),
           \A n \in 1..Len(q) : ~IsData(q[n], c)
    PROVE  input = SubSeq(s, i, Len(s)) /\ Len(input) = Len(s) - i + 1
  <1>1. PICK at : FeedsAt(s, i, input, q, c, at)
    BY DEF Feeds
  <1>2. /\ Len(s) \in Nat /\ Len(q) \in Nat /\ Len(input) \in Nat
        /\ \A n \in 1..(Len(q) + 1) : at[n] \in 0..Len(s)
    BY <1>1, FedLengths
  <1> DEFINE T == {n \in Nat : n <= Len(q) => at[n + 1] = at[1]}
  <1>3. 0 \in T
    OBVIOUS
  <1>4. ASSUME NEW n \in Nat, n \in T PROVE n + 1 \in T
    <2>1. ASSUME n + 1 <= Len(q) PROVE at[(n + 1) + 1] = at[1]
      <3>1. n + 1 \in 1..Len(q)
        BY <1>2, <2>1
      <3>2. at[(n + 1) + 1] = at[n + 1]
        BY <1>1, <3>1 DEF FeedsAt
      <3>3. QED
        BY <1>4, <1>2, <2>1, <3>2
    <2>2. QED
      BY <2>1
  <1> HIDE DEF T
  <1>5. Len(q) \in T
    BY <1>2, <1>3, <1>4, NatSetInduction
  <1>6. at[1] = Len(s)
    <2>1. at[Len(q) + 1] = at[1]
      BY <1>2, <1>5 DEF T
    <2>2. QED
      BY <1>1, <2>1 DEF FeedsAt
  <1>7. input = SubSeq(s, i, Len(s)) /\ Len(s) = i - 1 + Len(input)
    BY <1>1, <1>6 DEF FeedsAt
  <1>8. QED
    BY <1>2, <1>7

-----------------------------------------------------------------------------
(* The dialogue with one peer: p is the peer, w what is on its wire, k the  *)
(* connection, q the completion queue; live says that the connection exists *)
(* and out that its send was submitted and has not posted its CQE.          *)

Heard(p) == SubSeq(p.script, 1, p.position)

\* The units on the wire are those of the replies, in their order.
OnWire(w, replies) ==
    \A n \in 1..Len(w) :
        /\ ((n - 1) \div ReplyLength) + 1 \in 1..Len(replies)
        /\ w[n] = <<replies[((n - 1) \div ReplyLength) + 1], ((n - 1) % ReplyLength) + 1>>

\* All of them are on the wire, or all but what is left of the last one.
SendLane(c, k, w, q, out, replies) ==
    /\ ~k.sending => Len(w) = ReplyLength * Len(replies)
    /\ k.sending => Len(replies) > 0 /\ k.output = replies[Len(replies)]
    /\ out => Len(w) = ReplyLength * (Len(replies) - 1) + k.sent
    /\ \A n \in 1..Len(q) :
          q[n].op = Send(c) => Len(w) = ReplyLength * (Len(replies) - 1) + k.sent + q[n].count

\* The worker took the requests it replied to, and what follows them is in the
\* input or on its way there.
ReceiveLane(c, p, k, q, replies) ==
    \E i \in 1..(Len(Heard(p)) + 1) :
        Consumed(Heard(p), i, replies) /\ Feeds(Heard(p), i, k.input, q, c)

Told(c, p, w, k, q, live, out, stop) ==
    \E replies \in Seq(Replies) :
        /\ Dialogue(Heard(p), p.closed, replies)
        /\ OnWire(w, replies)
        /\ live => /\ SendLane(c, k, w, q, out, replies)
                   /\ ~stop /\ ~k.failed /\ ~k.close_after_send => ReceiveLane(c, p, k, q, replies)

LEMMA HeardLines ==
    ASSUME NEW p \in Peers, p.position <= Len(p.script)
    PROVE  /\ Heard(p) \in Seq(Line) /\ Len(Heard(p)) = p.position
           /\ p.script \in Seq(Line) /\ p.position \in 0..Len(p.script) /\ Len(p.script) \in Nat
           /\ p.closed \in BOOLEAN
  <1>1. p.script \in Seq(Line) /\ p.position \in Nat /\ p.closed \in BOOLEAN
    BY WorkerAssumption, EmptySeq DEF Peers
  <1>2. Len(p.script) \in Nat
    BY <1>1, LenProperties
  <1>3. \A j \in 1..p.position : p.script[j] \in Line
    BY <1>1, <1>2, ElementOfSeq
  <1>4. Heard(p) \in Seq(Line) /\ Len(Heard(p)) = IF 1 <= p.position THEN p.position - 1 + 1 ELSE 0
    BY <1>1, <1>3, SubSeqProperties DEF Heard
  <1>5. QED
    BY <1>1, <1>2, <1>4

LEMMA HeardMore ==
    ASSUME NEW p \in Peers, p.position <= Len(p.script),
           NEW n \in 0..(Len(p.script) - p.position)
    PROVE  LET data == SubSeq(p.script, p.position + 1, p.position + n)
               r == [p EXCEPT !.position = @ + n]
           IN /\ data \in Seq(Line) /\ Heard(r) = Heard(p) \o data
              /\ r \in Peers /\ r.position <= Len(r.script) /\ r.closed = p.closed
  <1>1. /\ p.script \in Seq(Line) /\ Len(p.script) \in Nat /\ p.position \in 0..Len(p.script)
    BY HeardLines
  <1> DEFINE to == p.position + n
             r == [p EXCEPT !.position = @ + n]
             data == SubSeq(p.script, p.position + 1, to)
  <1>2. to \in p.position..Len(p.script) /\ to \in Nat
    BY <1>1
  <1>3. r = [p EXCEPT !.position = to]
    OBVIOUS
  <1> HIDE DEF to
  <1>4. /\ r \in Peers /\ r.position = to /\ r.script = p.script /\ r.closed = p.closed
    BY <1>2, <1>3 DEF Peers
  <1>5. \A j \in (p.position + 1)..to : p.script[j] \in Line
    BY <1>1, <1>2, ElementOfSeq
  <1>6. data \in Seq(Line)
    BY <1>1, <1>2, <1>5, SubSeqProperties
  <1>7. SubSeq(p.script, 1, p.position) \o data = SubSeq(p.script, 1, to)
    <2>1. PICK script \in Seq(Line), position \in Nat : script = p.script /\ position = p.position
      BY <1>1
    <2>2. 1 \in 1..(Len(script) + 1) /\ position \in (1 - 1)..Len(script) /\ to \in position..Len(script)
      BY <1>1, <1>2, <2>1
    <2>3. SubSeq(script, 1, position) \o SubSeq(script, position + 1, to) = SubSeq(script, 1, to)
      BY <2>2, ConcatAdjacentSubSeq
    <2>4. QED
      BY <2>1, <2>3
  <1>8. r.position <= Len(r.script)
    BY <1>1, <1>2, <1>4
  <1>9. QED
    BY <1>4, <1>6, <1>7, <1>8 DEF Heard, to

\* Only some fields of the connection matter.
LEMMA ToldSame ==
    ASSUME NEW c, NEW p, NEW w, NEW k, NEW j, NEW q, NEW live, NEW out, NEW stop, NEW more,
           Told(c, p, w, k, q, live, out, stop), SameInput(k, j), stop => more
    PROVE  Told(c, p, w, j, q, live, out, more)
  BY DEF Told, SameInput, SendLane, ReceiveLane

LEMMA ToldFreed ==
    ASSUME NEW c, NEW p, NEW w, NEW k, NEW j, NEW q, NEW r, NEW live, NEW out, NEW now, NEW stop, NEW more,
           Told(c, p, w, k, q, live, out, stop)
    PROVE  Told(c, p, w, j, r, FALSE, now, more)
  BY DEF Told

\* A reply is added to those on the wire before any unit of it is.
LEMMA OnWireGrows ==
    ASSUME NEW w, NEW replies \in Seq(Replies), NEW reply \in Replies, OnWire(w, replies)
    PROVE  OnWire(w, Append(replies, reply))
  <1>1. /\ Len(Append(replies, reply)) = Len(replies) + 1 /\ Len(replies) \in Nat
        /\ \A n \in 1..Len(replies) : Append(replies, reply)[n] = replies[n]
    BY AppendProperties, LenProperties
  <1>2. 1..Len(replies) \subseteq 1..Len(Append(replies, reply))
    BY <1>1
  <1>3. QED
    BY <1>1, <1>2 DEF OnWire

\* Another CQE is completed: nothing of the dialogue changes.
LEMMA ToldTail ==
    ASSUME NEW c, NEW p \in Peers, p.position <= Len(p.script), NEW w, NEW k \in Connection,
           NEW q \in Seq(Cqes), q # <<>>, NEW live, NEW out, NEW stop, NEW more,
           Told(c, p, w, k, q, live, out, stop), stop => more, ~IsData(Head(q), c)
    PROVE  Told(c, p, w, k, Tail(q), live, out, more)
  <1>1. PICK replies \in Seq(Replies) :
           /\ Dialogue(Heard(p), p.closed, replies)
           /\ OnWire(w, replies)
           /\ live => /\ SendLane(c, k, w, q, out, replies)
                      /\ ~stop /\ ~k.failed /\ ~k.close_after_send => ReceiveLane(c, p, k, q, replies)
    BY DEF Told
  <1>2. Len(q) \in Nat /\ Len(Tail(q)) = Len(q) - 1 /\ \A n \in 1..Len(Tail(q)) : Tail(q)[n] = q[n + 1]
    BY HeadTailProperties, LenProperties
  <1>3. SendLane(c, k, w, q, out, replies) => SendLane(c, k, w, Tail(q), out, replies)
    <2>1. \A n \in 1..Len(Tail(q)) : n + 1 \in 1..Len(q) /\ Tail(q)[n] = q[n + 1]
      BY <1>2
    <2>2. QED
      BY <2>1 DEF SendLane
  <1>4. ReceiveLane(c, p, k, q, replies) => ReceiveLane(c, p, k, Tail(q), replies)
    <2>1. Heard(p) \in Seq(Line) /\ k.input \in Seq(Line)
      BY HeardLines DEF Connection
    <2>2. QED
      BY <2>1, FeedsAfterOther DEF ReceiveLane
  <1>5. QED
    BY <1>1, <1>3, <1>4 DEF Told

\* A CQE is posted that brings no lines and ends no send.
LEMMA ToldPosted ==
    ASSUME NEW c, NEW p \in Peers, p.position <= Len(p.script), NEW w, NEW k \in Connection,
           NEW q \in Seq(Cqes), NEW live, NEW out, NEW now, NEW stop,
           Told(c, p, w, k, q, live, out, stop), now => out,
           NEW cqe \in Cqes, ~IsData(cqe, c), live /\ cqe.op = Send(c) => out /\ cqe.count = 0
    PROVE  Told(c, p, w, k, Append(q, cqe), live, now, stop)
  <1>1. PICK replies \in Seq(Replies) :
           /\ Dialogue(Heard(p), p.closed, replies)
           /\ OnWire(w, replies)
           /\ live => /\ SendLane(c, k, w, q, out, replies)
                      /\ ~stop /\ ~k.failed /\ ~k.close_after_send => ReceiveLane(c, p, k, q, replies)
    BY DEF Told
  <1>2. /\ Len(q) \in Nat /\ Len(Append(q, cqe)) = Len(q) + 1
        /\ Append(q, cqe)[Len(q) + 1] = cqe
        /\ \A n \in 1..Len(q) : Append(q, cqe)[n] = q[n]
    BY AppendProperties, LenProperties
  <1>3. ASSUME live, SendLane(c, k, w, q, out, replies)
        PROVE  SendLane(c, k, w, Append(q, cqe), now, replies)
    <2>1. ASSUME NEW n \in 1..Len(Append(q, cqe)), Append(q, cqe)[n].op = Send(c)
          PROVE  Len(w) = ReplyLength * (Len(replies) - 1) + k.sent + Append(q, cqe)[n].count
      <3>1. CASE n = Len(q) + 1
        <4>1. out /\ Append(q, cqe)[n].count = 0
          BY <1>2, <1>3, <2>1, <3>1
        <4>2. Len(w) = ReplyLength * (Len(replies) - 1) + k.sent
          BY <1>3, <4>1 DEF SendLane
        <4>3. ReplyLength * (Len(replies) - 1) + k.sent \in Int
          BY WorkerAssumption, LenProperties DEF Connection
        <4>4. QED
          BY <4>1, <4>2, <4>3
      <3>2. CASE n # Len(q) + 1
        <4>1. n \in 1..Len(q)
          BY <1>2, <3>2
        <4>2. QED
          BY <1>2, <1>3, <2>1, <4>1 DEF SendLane
      <3>3. QED
        BY <3>1, <3>2
    <2>2. QED
      BY <1>3, <2>1 DEF SendLane
  <1>4. ReceiveLane(c, p, k, q, replies) => ReceiveLane(c, p, k, Append(q, cqe), replies)
    <2>1. Heard(p) \in Seq(Line) /\ k.input \in Seq(Line)
      BY HeardLines DEF Connection
    <2>2. QED
      BY <2>1, FeedsPosted DEF ReceiveLane
  <1>5. QED
    BY <1>1, <1>3, <1>4 DEF Told

\* The peer of a connection ends its stream.
LEMMA ToldClosed ==
    ASSUME NEW c, NEW p \in Peers, NEW w, NEW k, NEW q, NEW live, NEW out, NEW stop,
           Told(c, p, w, k, q, live, out, stop)
    PROVE  Told(c, [p EXCEPT !.closed = TRUE], w, k, q, live, out, stop)
  <1> DEFINE r == [p EXCEPT !.closed = TRUE]
  <1>1. Heard(r) = Heard(p) /\ r.closed = TRUE /\ p.closed \in BOOLEAN
    BY DEF Heard, Peers
  <1>2. \A replies : Dialogue(Heard(p), p.closed, replies) => Dialogue(Heard(p), TRUE, replies)
    BY <1>1, DialogueCloses
  <1> HIDE DEF r
  <1>3. Told(c, r, w, k, q, live, out, stop)
    BY <1>1, <1>2 DEF Told, ReceiveLane
  <1>4. QED
    BY <1>3 DEF r

\* The next lines of the peer's stream arrive.
LEMMA ToldReceived ==
    ASSUME NEW c \in Fds, NEW p \in Peers, p.position <= Len(p.script), ~p.closed,
           NEW w, NEW k \in Connection,
           NEW q \in Seq(Cqes), NEW live, NEW out, NEW stop,
           Told(c, p, w, k, q, live, out, stop),
           NEW n \in 0..(Len(p.script) - p.position),
           NEW cqe \in Cqes, IsData(cqe, c), cqe.op # Send(c),
           cqe.data = SubSeq(p.script, p.position + 1, p.position + n)
    PROVE  Told(c, [p EXCEPT !.position = @ + n], w, k, Append(q, cqe), live, out, stop)
  <1>1. PICK replies \in Seq(Replies) :
           /\ Dialogue(Heard(p), p.closed, replies)
           /\ OnWire(w, replies)
           /\ live => /\ SendLane(c, k, w, q, out, replies)
                      /\ ~stop /\ ~k.failed /\ ~k.close_after_send => ReceiveLane(c, p, k, q, replies)
    BY DEF Told
  <1>2. PICK r : r = [p EXCEPT !.position = @ + n]
    OBVIOUS
  <1>3. /\ cqe.data \in Seq(Line) /\ Heard(r) = Heard(p) \o cqe.data
        /\ r \in Peers /\ r.closed = p.closed
    BY <1>2, HeardMore
  <1>4. Heard(p) \in Seq(Line) /\ k.input \in Seq(Line) /\ p.closed = FALSE
    BY HeardLines DEF Connection
  <1>5. Dialogue(Heard(r), r.closed, replies)
    BY <1>1, <1>3, <1>4, DialogueGrows
  <1>6. SendLane(c, k, w, q, out, replies) => SendLane(c, k, w, Append(q, cqe), out, replies)
    <2>1. \A m \in 1..Len(Append(q, cqe)) :
              (m \in 1..Len(q) /\ Append(q, cqe)[m] = q[m]) \/ Append(q, cqe)[m] = cqe
      <3>1. /\ Len(q) \in Nat /\ Len(Append(q, cqe)) = Len(q) + 1
            /\ Append(q, cqe)[Len(q) + 1] = cqe
            /\ \A m \in 1..Len(q) : Append(q, cqe)[m] = q[m]
        BY AppendProperties, LenProperties
      <3>2. \A m \in 1..(Len(q) + 1) : m \in 1..Len(q) \/ m = Len(q) + 1
        BY <3>1
      <3>3. QED
        BY <3>1, <3>2
    <2>2. QED
      BY <2>1 DEF SendLane
  <1>7. ASSUME ReceiveLane(c, p, k, q, replies)
        PROVE  ReceiveLane(c, r, k, Append(q, cqe), replies)
    <2>1. PICK i \in 1..(Len(Heard(p)) + 1) :
             Consumed(Heard(p), i, replies) /\ Feeds(Heard(p), i, k.input, q, c)
      BY <1>7 DEF ReceiveLane
    <2>2. Consumed(Heard(r), i, replies)
      BY <1>3, <1>4, <2>1, ConsumedGrows
    <2>3. Feeds(Heard(r), i, k.input, Append(q, cqe), c)
      BY <1>3, <1>4, <2>1, FeedsReceived
    <2>4. i \in 1..(Len(Heard(r)) + 1)
      BY <2>2 DEF Consumed
    <2>5. QED
      BY <2>2, <2>3, <2>4 DEF ReceiveLane
  <1>8. Told(c, r, w, k, Append(q, cqe), live, out, stop)
    BY <1>1, <1>5, <1>6, <1>7 DEF Told
  <1>9. QED
    BY <1>2, <1>8

-----------------------------------------------------------------------------
(* The functions a completion calls, and the dialogue.                      *)

\* A worker that read the end of a peer's stream reads no more of it.
Hushed(k, p) == k.read_eof => p.closed /\ ~k.receive_active

Tells(d, p, w, q, stop) ==
    /\ Hushed(d.k, p)
    /\ Told(d.fd, p, w, d.k, q, TRUE, Send(d.fd) \in d.sq \cup d.kernel, stop)

LEMMA PreparedSends ==
    ASSUME NEW d \in Contexts
    PROVE  /\ Send(d.fd) \in SubmitReceive(d).sq \cup SubmitReceive(d).kernel
                  <=> Send(d.fd) \in d.sq \cup d.kernel
           /\ Send(d.fd) \in CancelReceive(d).sq \cup CancelReceive(d).kernel
                  <=> Send(d.fd) \in d.sq \cup d.kernel
  <1>1. d.fd \in Fds
    BY DEF Contexts
  <1>2. Send(d.fd) # Receive(d.fd) /\ Send(d.fd) # Cancel(d.fd)
    BY <1>1, OperationNames
  <1>3. ASSUME NEW op
        PROVE  GetSqe(d, op).sq \cup GetSqe(d, op).kernel = d.sq \cup d.kernel \cup {op}
    <2>1. CASE Cardinality(d.sq) < QueueDepth
      BY <2>1 DEF GetSqe, Contexts
    <2>2. CASE ~(Cardinality(d.sq) < QueueDepth)
      BY <2>2 DEF GetSqe, Contexts
    <2>3. QED
      BY <2>1, <2>2
  <1>4. ASSUME NEW op, NEW j
        PROVE  LET e == [GetSqe(d, op) EXCEPT !.k = j]
               IN e.sq \cup e.kernel = d.sq \cup d.kernel \cup {op}
    <2>1. /\ [GetSqe(d, op) EXCEPT !.k = j].sq = GetSqe(d, op).sq
          /\ [GetSqe(d, op) EXCEPT !.k = j].kernel = GetSqe(d, op).kernel
      BY DEF GetSqe, Contexts
    <2>2. QED
      BY <1>3, <2>1
  <1>5. SubmitReceive(d).sq \cup SubmitReceive(d).kernel = d.sq \cup d.kernel \cup {Receive(d.fd)}
    BY <1>4 DEF SubmitReceive
  <1>6. \/ CancelReceive(d) = d
        \/ CancelReceive(d).sq \cup CancelReceive(d).kernel = d.sq \cup d.kernel \cup {Cancel(d.fd)}
    BY <1>4 DEF CancelReceive
  <1>7. QED
    BY <1>2, <1>5, <1>6

\* A receive or a cancel is prepared.
LEMMA CancelReceiveTells ==
    ASSUME NEW d \in Contexts, NEW p, NEW w, NEW q, NEW stop, Tells(d, p, w, q, stop)
    PROVE  Tells(CancelReceive(d), p, w, q, stop)
  <1>1. /\ CancelReceive(d).fd = d.fd /\ SameInput(d.k, CancelReceive(d).k)
        /\ CancelReceive(d).k.receive_active = d.k.receive_active
    BY PreparedKeeps
  <1>2. Told(d.fd, p, w, CancelReceive(d).k, q, TRUE, Send(d.fd) \in d.sq \cup d.kernel, stop)
    BY <1>1 DEF Tells, Told, SameInput, SendLane, ReceiveLane
  <1>3. (Send(d.fd) \in CancelReceive(d).sq \cup CancelReceive(d).kernel)
            = (Send(d.fd) \in d.sq \cup d.kernel)
    BY PreparedSends
  <1>4. QED
    BY <1>1, <1>2, <1>3 DEF Tells, Hushed, SameInput

LEMMA SubmitReceiveTells ==
    ASSUME NEW d \in Contexts, NEW p, NEW w, NEW q, NEW stop, Tells(d, p, w, q, stop), ~d.k.read_eof
    PROVE  Tells(SubmitReceive(d), p, w, q, stop)
  <1>1. SubmitReceive(d).fd = d.fd /\ SameInput(d.k, SubmitReceive(d).k)
    BY PreparedKeeps
  <1>2. Told(d.fd, p, w, SubmitReceive(d).k, q, TRUE, Send(d.fd) \in d.sq \cup d.kernel, stop)
    BY <1>1 DEF Tells, Told, SameInput, SendLane, ReceiveLane
  <1>3. (Send(d.fd) \in SubmitReceive(d).sq \cup SubmitReceive(d).kernel)
            = (Send(d.fd) \in d.sq \cup d.kernel)
    BY PreparedSends
  <1>4. QED
    BY <1>1, <1>2, <1>3 DEF Tells, Hushed, SameInput

\* A send is prepared, of what is left of the last reply.
LEMMA SubmitSendTells ==
    ASSUME NEW d \in Contexts, NEW p, NEW w, NEW q, NEW stop,
           Hushed(d.k, p), Told(d.fd, p, w, d.k, q, TRUE, TRUE, stop)
    PROVE  Tells(SubmitSend(d), p, w, q, stop)
  <1>1. /\ SubmitSend(d).fd = d.fd /\ SameInput(d.k, SubmitSend(d).k)
        /\ SubmitSend(d).k.receive_active = d.k.receive_active
    BY PreparedKeeps
  <1>2. Told(d.fd, p, w, SubmitSend(d).k, q, TRUE, TRUE, stop)
    BY <1>1 DEF Told, SameInput, SendLane, ReceiveLane
  <1>3. ASSUME NEW out PROVE Told(d.fd, p, w, SubmitSend(d).k, q, TRUE, out, stop)
    BY <1>2 DEF Told, SendLane
  <1>4. QED
    BY <1>1, <1>3 DEF Tells, Hushed, SameInput

LEMMA PauseOrRearmTells ==
    ASSUME NEW d \in Contexts, NEW p, NEW w, NEW q, NEW stop, Tells(d, p, w, q, stop)
    PROVE  Tells(PauseOrRearm(d), p, w, q, stop)
  BY CancelReceiveTells, SubmitReceiveTells DEF PauseOrRearm, CanArm

\* What the worker replies, and what it then still has to take.
LEMMA NextReply ==
    ASSUME NEW c, NEW k \in Connection, NEW s \in Seq(Line), NEW closed \in BOOLEAN,
           NEW q \in Seq(Cqes), NEW replies, NEW i \in 1..(Len(s) + 1),
           Consumed(s, i, replies), Feeds(s, i, k.input, q, c), k.input # <<>>,
           k.read_eof => closed /\ \A n \in 1..Len(q) : ~IsData(q[n], c),
           Parsed(k).verdict # "incomplete"
    PROVE  LET parsed == Parsed(k)
               rejected == parsed.verdict = "reject"
               rest == IF rejected THEN <<>> ELSE SubSeq(k.input, parsed.length + 1, Len(k.input))
               close == rejected \/ parsed.close_after \/ (k.read_eof /\ rest = <<>>)
               reply == IF rejected THEN "bad_request" ELSE Response(parsed.http10, close)
           IN /\ reply \in Replies /\ replies \in Seq(Replies)
              /\ Dialogue(s, closed, Append(replies, reply))
              /\ ~close => \E j \in 1..(Len(s) + 1) :
                              /\ Consumed(s, j, Append(replies, reply)) /\ Feeds(s, j, rest, q, c)
  <1> DEFINE parsed == Parsed(k)
             rejected == parsed.verdict = "reject"
             rest == IF rejected THEN <<>> ELSE SubSeq(k.input, parsed.length + 1, Len(k.input))
             close == rejected \/ parsed.close_after \/ (k.read_eof /\ rest = <<>>)
             reply == IF rejected THEN "bad_request" ELSE Response(parsed.http10, close)
  <1>1. k.input \in Seq(Line) /\ Len(k.input) \in Nat /\ Len(s) \in Nat /\ k.read_eof \in BOOLEAN
    BY LenProperties DEF Connection
  <1>2. PICK request : request = ParseRequest(k.input)
    OBVIOUS
  <1>3. /\ request.verdict \in Verdicts
        /\ request.close_after \in BOOLEAN /\ request.http10 \in BOOLEAN
        /\ request.verdict = "complete" => request.length \in 2..Len(k.input)
    BY <1>1, <1>2, ParseRequestResult
  <1>4. /\ replies \in Seq(Replies)
        /\ \A r \in Replies : LastReply(s, i, closed, r) => Dialogue(s, closed, Append(replies, r))
    BY DEF Consumed, Dialogue
  <1>5. request.verdict # "incomplete" => parsed = request /\ ParseAt(s, i) = request
    BY <1>1, <1>2, InputDecides DEF Parsed, AtEndOfStream
  <1>6. CASE request.verdict = "reject"
    <2>1. rejected /\ close /\ reply = "bad_request"
      BY <1>5, <1>6
    <2>2. LastReply(s, i, closed, "bad_request")
      BY <1>5, <1>6 DEF LastReply
    <2>3. QED
      BY <1>4, <2>1, <2>2 DEF Replies
  <1>7. CASE request.verdict = "incomplete"
    <2>1. k.read_eof /\ rejected
      BY <1>2, <1>7 DEF Parsed, AtEndOfStream, Rejected, Result
    <2>2. close /\ reply = "bad_request"
      BY <2>1
    <2>3. k.input = SubSeq(s, i, Len(s)) /\ Len(k.input) = Len(s) - i + 1
      BY <1>1, <2>1, InputIsRest
    <2>4. ParseAt(s, i) = request
      BY <1>2, <2>3 DEF ParseAt
    <2>5. Len(k.input) # 0
      BY <1>1, EmptySeq
    <2>6. i <= Len(s)
      BY <1>1, <2>3, <2>5
    <2>7. LastReply(s, i, closed, "bad_request")
      BY <1>7, <2>1, <2>4, <2>6 DEF LastReply
    <2>8. QED
      BY <1>4, <2>2, <2>7 DEF Replies
  <1>8. CASE request.verdict = "complete"
    <2>1. /\ ~rejected /\ parsed = request /\ ParseAt(s, i) = request
          /\ request.length \in 2..Len(k.input)
      BY <1>3, <1>5, <1>8
    <2>2. PICK length \in 2..Len(k.input) : length = request.length
      BY <2>1
    <2>3. rest = SubSeq(k.input, length + 1, Len(k.input)) /\ reply = Response(request.http10, close)
      BY <2>1, <2>2
    <2>4. close <=> request.close_after \/ (k.read_eof /\ rest = <<>>)
      BY <2>1
    <2>5. Len(rest) = Len(k.input) - length
      <3>1. length + 1 \in 1..(Len(k.input) + 1)
        BY <1>1
      <3>2. Len(SubSeq(k.input, length + 1, Len(k.input))) = Len(k.input) - (length + 1) + 1
        BY <1>1, <3>1, RestOfStream
      <3>3. Len(k.input) - (length + 1) + 1 = Len(k.input) - length
        BY <1>1
      <3>4. QED
        BY <2>3, <3>2, <3>3
    <2> HIDE DEF rest, close
    <2>6. reply \in Replies
      BY <1>3, <2>3, <2>4, ResponseIsReply DEF reply, Response, Replies
    <2> HIDE DEF reply
    <2>7. CASE request.close_after
      <3>1. LastReply(s, i, closed, reply)
        BY <1>8, <2>1, <2>3, <2>4, <2>7 DEF LastReply, Response
      <3>2. QED
        BY <1>4, <2>4, <2>6, <2>7, <3>1 DEF reply, close, rest
    <2>8. CASE ~request.close_after /\ k.read_eof /\ rest = <<>>
      <3>1. Len(k.input) = Len(s) - i + 1
        BY <1>1, <2>8, InputIsRest
      <3>2. Len(k.input) = length
        BY <1>1, <2>5, <2>8, EmptySeq
      <3>3. i + length = Len(s) + 1
        BY <1>1, <3>1, <3>2
      <3>4. GoesOn(request) /\ closed
        BY <1>8, <2>8 DEF GoesOn
      <3>5. LastReply(s, i, closed, reply)
        BY <2>1, <2>2, <2>3, <2>4, <2>8, <3>3, <3>4 DEF LastReply, Response
      <3>6. QED
        BY <1>4, <2>4, <2>6, <2>8, <3>5 DEF reply, close, rest
    <2>9. CASE ~request.close_after /\ ~(k.read_eof /\ rest = <<>>)
      <3>1. ~close /\ reply = Response(request.http10, FALSE)
        BY <2>3, <2>4, <2>9 DEF Response
      <3>2. GoesOn(ParseAt(s, i))
        BY <1>8, <2>1, <2>9 DEF GoesOn
      <3>3. Consumed(s, i + length, Append(replies, reply))
        BY <2>1, <2>2, <3>1, <3>2, RequestConsumed
      <3>4. length \in 0..Len(k.input)
        BY <1>1
      <3>5. Feeds(s, i + length, rest, q, c)
        BY <1>1, <2>3, <3>4, FeedsTaken
      <3>6. i + length \in 1..(Len(s) + 1) /\ Append(replies, reply) \in Seq(Replies)
        BY <3>3 DEF Consumed
      <3>7. Dialogue(s, closed, Append(replies, reply))
        BY <3>3, <3>6 DEF Dialogue
      <3>8. QED
        BY <1>4, <2>6, <3>3, <3>5, <3>6, <3>7 DEF reply, close, rest
    <2>10. QED
      BY <2>7, <2>8, <2>9
  <1>9. QED
    BY <1>3, <1>6, <1>7, <1>8 DEF Verdicts

\* drive_connection starts a reply.
LEMMA ReplyTells ==
    ASSUME NEW d \in Contexts, NEW p \in Peers, p.position <= Len(p.script), NEW w,
           NEW q \in Seq(Cqes), Tells(d, p, w, q, FALSE),
           ~d.k.sending, ~d.k.failed, ~d.k.close_after_send, d.k.input # <<>>,
           Parsed(d.k).verdict # "incomplete",
           d.k.read_eof => \A n \in 1..Len(q) : ~IsData(q[n], d.fd),
           \A n \in 1..Len(q) : q[n].op # Send(d.fd)
    PROVE  /\ StartResponse(d) \in Contexts /\ StartResponse(d).fd = d.fd
           /\ Tells(StartResponse(d), p, w, q, FALSE)
  <1> DEFINE parsed == Parsed(d.k)
             rejected == parsed.verdict = "reject"
             rest == IF rejected THEN <<>> ELSE SubSeq(d.k.input, parsed.length + 1, Len(d.k.input))
             close == rejected \/ parsed.close_after \/ (d.k.read_eof /\ rest = <<>>)
             reply == IF rejected THEN "bad_request" ELSE Response(parsed.http10, close)
             k == [d.k EXCEPT !.input = rest, !.output = reply, !.close_after_send = close,
                              !.sent = 0, !.sending = TRUE]
             s == Heard(p)
  <1>1. d.k \in Connection /\ d.fd \in Fds /\ d.k.input \in Seq(Line)
    BY DEF Contexts, Connection
  <1>2. s \in Seq(Line) /\ p.closed \in BOOLEAN
    BY HeardLines
  <1>3. PICK replies \in Seq(Replies) :
           /\ Dialogue(s, p.closed, replies)
           /\ OnWire(w, replies)
           /\ SendLane(d.fd, d.k, w, q, Send(d.fd) \in d.sq \cup d.kernel, replies)
           /\ ReceiveLane(d.fd, p, d.k, q, replies)
    BY DEF Tells, Told
  <1>4. PICK i \in 1..(Len(s) + 1) : Consumed(s, i, replies) /\ Feeds(s, i, d.k.input, q, d.fd)
    BY <1>3 DEF ReceiveLane
  <1>5. d.k.read_eof => p.closed /\ \A n \in 1..Len(q) : ~IsData(q[n], d.fd)
    BY DEF Tells, Hushed
  <1> HIDE DEF s
  <1>6. /\ reply \in Replies
        /\ Dialogue(s, p.closed, Append(replies, reply))
        /\ ~close => \E j \in 1..(Len(s) + 1) :
                        /\ Consumed(s, j, Append(replies, reply)) /\ Feeds(s, j, rest, q, d.fd)
    BY <1>1, <1>2, <1>4, <1>5, NextReply
  <1>7. StartResponse(d) = SubmitSend([d EXCEPT !.k = k])
    BY DEF StartResponse, Reply
  <1>8. StartResponse(d) \in Contexts /\ StartResponse(d).fd = d.fd
    BY ReplyShrinks
  <1>9. rest \in Seq(Line)
    <2>1. /\ parsed.verdict \in Verdicts
          /\ parsed.verdict = "complete" => parsed.length \in 2..Len(d.k.input)
      BY <1>1, ParsedResult
    <2>2. CASE rejected
      BY <2>2
    <2>3. CASE ~rejected
      <3>1. parsed.length \in 2..Len(d.k.input) /\ Len(d.k.input) \in Nat
        BY <1>1, <2>1, <2>3, LenProperties DEF Verdicts
      <3>2. parsed.length + 1 \in 1..(Len(d.k.input) + 1)
        BY <3>1
      <3>3. SubSeq(d.k.input, parsed.length + 1, Len(d.k.input)) \in Seq(Line)
        BY <1>1, <3>2, RestOfStream
      <3>4. QED
        BY <2>3, <3>3
    <2>4. QED
      BY <2>2, <2>3
  <1>10. close \in BOOLEAN
    BY <1>1, ParsedResult DEF Connection
  <1> HIDE DEF rest, close, reply
  <1>11. /\ k \in Connection /\ k.input = rest /\ k.output = reply /\ k.close_after_send = close
         /\ k.sent = 0 /\ k.sending = TRUE /\ k.read_eof = d.k.read_eof /\ k.failed = d.k.failed
         /\ k.receive_active = d.k.receive_active
    BY <1>1, <1>6, <1>9, <1>10 DEF Connection
  <1> HIDE DEF k
  <1> DEFINE e == [d EXCEPT !.k = k]
  <1>12. e \in Contexts /\ e.k = k /\ e.fd = d.fd
    BY <1>11, WithConnection
  <1> HIDE DEF e
  <1> DEFINE all == Append(replies, reply)
  <1>13. /\ all \in Seq(Replies) /\ Len(all) = Len(replies) + 1 /\ Len(replies) \in Nat
         /\ all[Len(replies) + 1] = reply
    BY <1>6, AppendProperties, LenProperties
  <1>14. OnWire(w, all)
    BY <1>3, <1>6, OnWireGrows
  <1> HIDE DEF all
  <1>15. SendLane(d.fd, k, w, q, TRUE, all)
    <2>1. Len(w) = ReplyLength * Len(replies)
      BY <1>3 DEF SendLane
    <2>2. Len(all) - 1 = Len(replies) /\ Len(all) > 0 /\ all[Len(all)] = reply
      BY <1>13
    <2>3. ReplyLength * Len(replies) + 0 = ReplyLength * Len(replies)
      BY <1>13, WorkerAssumption
    <2>4. Len(w) = ReplyLength * (Len(all) - 1) + k.sent
      BY <1>11, <2>1, <2>2, <2>3
    <2>5. QED
      BY <1>11, <2>2, <2>4 DEF SendLane
  <1>16. ~k.close_after_send => ReceiveLane(d.fd, p, k, q, all)
    BY <1>6, <1>11 DEF ReceiveLane, all, s
  <1>17. Told(d.fd, p, w, k, q, TRUE, TRUE, FALSE)
    BY <1>6, <1>13, <1>14, <1>15, <1>16 DEF Told, all, s
  <1>18. Hushed(k, p)
    BY <1>11 DEF Tells, Hushed
  <1>19. Tells(SubmitSend(e), p, w, q, FALSE)
    BY <1>12, <1>17, <1>18, SubmitSendTells
  <1>20. QED
    BY <1>7, <1>8, <1>19 DEF e

\* What a connection that is driven must not still have in the queue.
Quiet(d, q) ==
    /\ d.k.read_eof => \A n \in 1..Len(q) : ~IsData(q[n], d.fd)
    /\ ~d.k.sending => \A n \in 1..Len(q) : q[n].op # Send(d.fd)

LEMMA DriveTells ==
    ASSUME NEW d \in Contexts, NEW p \in Peers, p.position <= Len(p.script), NEW w,
           NEW q \in Seq(Cqes), NEW stop \in BOOLEAN, Tells(d, p, w, q, stop), Quiet(d, q)
    PROVE  /\ DriveConnection(d, stop) \in Contexts /\ DriveConnection(d, stop).fd = d.fd
           /\ Tells(DriveConnection(d, stop), p, w, q, stop)
  <1> DEFINE ready == ~d.k.sending /\ d.k.input # <<>> /\ Parsed(d.k).verdict # "incomplete"
             f == IF ready THEN StartResponse(d) ELSE d
  <1>1. CASE stop \/ d.k.failed \/ d.k.close_after_send
    BY <1>1 DEF DriveConnection
  <1>2. CASE ~(stop \/ d.k.failed \/ d.k.close_after_send)
    <2>1. DriveConnection(d, stop) = DriveReceive(f)
      BY <1>2 DEF DriveConnection
    <2>2. f \in Contexts /\ f.fd = d.fd /\ Tells(f, p, w, q, stop)
      <3>1. CASE ready
        BY <1>2, <3>1, ReplyTells DEF Quiet
      <3>2. CASE ~ready
        BY <3>2
      <3>3. QED
        BY <3>1, <3>2
    <2> HIDE DEF f
    <2>3. Tells(DriveReceive(f), p, w, q, stop)
      BY <2>2, CancelReceiveTells, PauseOrRearmTells DEF DriveReceive
    <2>4. DriveReceive(f) \in Contexts /\ DriveReceive(f).fd = f.fd
      BY <2>2, PreparedKeeps DEF DriveReceive, PauseOrRearm
    <2>5. QED
      BY <2>1, <2>2, <2>3, <2>4
  <1>3. QED
    BY <1>1, <1>2

\* What a receive completion makes of the connection.
LEMMA ReceivedTells ==
    ASSUME NEW c \in Fds, NEW p \in Peers, p.position <= Len(p.script), NEW w,
           NEW k \in Connection, NEW q \in Seq(Cqes), q # <<>>, Head(q).op = Receive(c),
           NEW out, NEW before, NEW stop, before => stop,
           Told(c, p, w, k, q, TRUE, out, before)
    PROVE  Told(c, p, w, Received(k, Head(q), stop), Tail(q), TRUE, out, stop)
  <1> DEFINE cqe == Head(q)
             ended == [k EXCEPT !.receive_active = @ /\ cqe.more]
             drop  == k.failed \/ k.close_after_send \/ stop
             j == Received(k, cqe, stop)
  <1>1. cqe \in Cqes
    <2>1. cqe = q[1] /\ 1 \in 1..Len(q)
      BY HeadTailProperties, LenProperties, EmptySeq
    <2>2. QED
      BY <2>1, ElementOfSeq
  <1>2. /\ j.sending = k.sending /\ j.sent = k.sent /\ j.output = k.output
        /\ j.close_after_send = k.close_after_send /\ (k.failed => j.failed)
    BY <1>1, ReceivedConnection
  <1>3. ended.input = k.input /\ ended.failed = k.failed
    BY DEF Connection
  <1>4. cqe.data \in Seq(Line) /\ k.input \in Seq(Line) /\ cqe.res \in {"ok", "eof", "error", "canceled"}
        /\ Len(cqe.data) \in Nat /\ Len(k.input) \in Nat /\ InputCapacity \in Nat
    BY <1>1, LenProperties, FramingAssumption DEF Connection, Cqes
  <1>5. CASE IsData(cqe, c)
    <2>1. \/ drop
          \/ j.failed
          \/ j.input = k.input \o cqe.data
      <3>1. cqe.res = "ok"
        BY <1>5 DEF IsData
      <3>2. CASE ~drop /\ Len(cqe.data) > InputCapacity - Len(k.input)
        <4>1. j = [ended EXCEPT !.failed = TRUE]
          BY <1>4, <3>1, <3>2 DEF Received
        <4>2. QED
          BY <4>1 DEF Connection
      <3>3. CASE ~drop /\ Len(cqe.data) <= InputCapacity - Len(k.input)
        <4>1. j = [ended EXCEPT !.input = @ \o cqe.data]
          BY <1>4, <3>1, <3>3 DEF Received
        <4>2. QED
          BY <1>3, <4>1 DEF Connection
      <3>4. \/ Len(cqe.data) > InputCapacity - Len(k.input)
            \/ Len(cqe.data) <= InputCapacity - Len(k.input)
        <4>1. \A a \in Nat : \A b \in Int : a > b \/ a <= b
          OBVIOUS
        <4>2. Len(cqe.data) \in Nat /\ InputCapacity - Len(k.input) \in Int
          BY <1>4
        <4>3. QED
          BY <4>1, <4>2
      <3> HIDE DEF j, ended
      <3>5. QED
        BY <3>2, <3>3, <3>4
    <2> HIDE DEF j, ended
    <2>2. PICK replies \in Seq(Replies) :
             /\ Dialogue(Heard(p), p.closed, replies)
             /\ OnWire(w, replies)
             /\ SendLane(c, k, w, q, out, replies)
             /\ ~before /\ ~k.failed /\ ~k.close_after_send => ReceiveLane(c, p, k, q, replies)
      BY DEF Told
    <2>3. Len(q) \in Nat /\ Len(Tail(q)) = Len(q) - 1 /\ \A n \in 1..Len(Tail(q)) : Tail(q)[n] = q[n + 1]
      BY HeadTailProperties, LenProperties
    <2>4. SendLane(c, j, w, Tail(q), out, replies)
      <3>1. \A n \in 1..Len(Tail(q)) : n + 1 \in 1..Len(q) /\ Tail(q)[n] = q[n + 1]
        BY <2>3
      <3>2. QED
        BY <1>2, <2>2, <3>1 DEF SendLane
    <2>5. ASSUME ~stop, ~j.failed, ~j.close_after_send
          PROVE  ReceiveLane(c, p, j, Tail(q), replies)
      <3>1. ~drop /\ ~before /\ j.input = k.input \o cqe.data
        BY <1>2, <2>1, <2>5
      <3>2. PICK i \in 1..(Len(Heard(p)) + 1) :
               Consumed(Heard(p), i, replies) /\ Feeds(Heard(p), i, k.input, q, c)
        BY <2>2, <3>1 DEF ReceiveLane
      <3>3. Heard(p) \in Seq(Line)
        BY HeardLines
      <3>4. Feeds(Heard(p), i, k.input \o cqe.data, Tail(q), c)
        BY <1>4, <1>5, <3>2, <3>3, FeedsAfterData
      <3>5. QED
        BY <3>1, <3>2, <3>4 DEF ReceiveLane
    <2>6. QED
      BY <2>2, <2>4, <2>5 DEF Told, j
  <1>6. CASE ~IsData(cqe, c)
    <2>1. cqe.res # "ok"
      BY <1>6 DEF IsData
    <2>2. j \in {ended, [ended EXCEPT !.read_eof = TRUE], [ended EXCEPT !.failed = TRUE]}
      BY <1>4, <2>1 DEF Received
    <2>3. j.input = k.input
      BY <1>3, <2>2 DEF Connection
    <2>4. Told(c, p, w, k, Tail(q), TRUE, out, stop)
      BY <1>6, ToldTail
    <2> HIDE DEF j
    <2>5. Told(c, p, w, j, Tail(q), TRUE, out, stop)
      BY <1>2, <2>3, <2>4 DEF Told, SendLane, ReceiveLane
    <2>6. QED
      BY <2>5 DEF j
  <1>7. QED
    BY <1>5, <1>6

Within(k, cqe) == k.sent + cqe.count <= ReplyLength

\* The CQE of a connection's send is the oldest, and it is the only one.
SendEnded(d, p, w, q, before, stop, out) ==
    /\ stop \in BOOLEAN /\ (before => stop) /\ Told(d.fd, p, w, d.k, q, TRUE, out, before)
    /\ p \in Peers /\ p.position <= Len(p.script) /\ q \in Seq(Cqes) /\ q # <<>>
    /\ Hushed(d.k, p) /\ Head(q).op = Send(d.fd) /\ Send(d.fd) \notin d.sq \cup d.kernel
    /\ d.k.sending /\ Within(d.k, Head(q))
    /\ d.k.read_eof => \A n \in 1..Len(Tail(q)) : ~IsData(Tail(q)[n], d.fd)
    /\ \A n \in 1..Len(Tail(q)) : Tail(q)[n].op # Send(d.fd)

\* What a send completion does: the rest is sent, or the reply is complete.
LEMMA SentTells ==
    ASSUME NEW d \in Contexts, NEW p, NEW w, NEW q, NEW before, NEW stop, NEW out,
           SendEnded(d, p, w, q, before, stop, out)
    PROVE  /\ Sent(d, Head(q), stop) \in Contexts /\ Sent(d, Head(q), stop).fd = d.fd
           /\ Tells(Sent(d, Head(q), stop), p, w, Tail(q), stop)
  <1> DEFINE cqe == Head(q)
             n == d.k.sent + cqe.count
             k == [d.k EXCEPT !.sent = n]
             failing == [d.k EXCEPT !.failed = TRUE]
             ending == [k EXCEPT !.sending = FALSE]
  <1>0. /\ stop \in BOOLEAN /\ (before => stop) /\ Told(d.fd, p, w, d.k, q, TRUE, out, before)
        /\ p \in Peers /\ p.position <= Len(p.script) /\ q \in Seq(Cqes) /\ q # <<>>
        /\ Hushed(d.k, p) /\ Head(q).op = Send(d.fd) /\ Send(d.fd) \notin d.sq \cup d.kernel
        /\ d.k.sending /\ Within(d.k, Head(q))
        /\ d.k.read_eof => \A m \in 1..Len(Tail(q)) : ~IsData(Tail(q)[m], d.fd)
        /\ \A m \in 1..Len(Tail(q)) : Tail(q)[m].op # Send(d.fd)
    BY DEF SendEnded
  <1>1. d.k \in Connection /\ d.fd \in Fds
    BY <1>0 DEF Contexts
  <1>2. cqe \in Cqes /\ cqe = q[1] /\ 1 \in 1..Len(q) /\ Tail(q) \in Seq(Cqes)
    <2>1. cqe = q[1] /\ 1 \in 1..Len(q) /\ Tail(q) \in Seq(Cqes)
      BY <1>0, HeadTailProperties, LenProperties, EmptySeq
    <2>2. QED
      BY <1>0, <2>1, ElementOfSeq
  <1>3. n \in Nat /\ n <= ReplyLength
    BY <1>0, <1>1, <1>2 DEF Connection, Cqes, Within
  <1>5. PICK replies \in Seq(Replies) :
           /\ Dialogue(Heard(p), p.closed, replies)
           /\ OnWire(w, replies)
           /\ Len(replies) > 0 /\ d.k.output = replies[Len(replies)]
           /\ Len(w) = ReplyLength * (Len(replies) - 1) + n
           /\ ~stop /\ ~d.k.failed /\ ~d.k.close_after_send
                  => ReceiveLane(d.fd, p, d.k, Tail(q), replies)
    <2>1. PICK replies \in Seq(Replies) :
             /\ Dialogue(Heard(p), p.closed, replies)
             /\ OnWire(w, replies)
             /\ SendLane(d.fd, d.k, w, q, out, replies)
             /\ ~before /\ ~d.k.failed /\ ~d.k.close_after_send
                    => ReceiveLane(d.fd, p, d.k, q, replies)
      BY <1>0 DEF Told
    <2>2. Len(w) = ReplyLength * (Len(replies) - 1) + d.k.sent + cqe.count
      BY <1>0, <1>2, <2>1 DEF SendLane
    <2>3. ReplyLength * (Len(replies) - 1) \in Int /\ d.k.sent \in Nat /\ cqe.count \in Nat
      BY <1>0, <1>1, <1>2, WorkerAssumption, LenProperties DEF Connection, Cqes
    <2>4. Len(w) = ReplyLength * (Len(replies) - 1) + n
      BY <1>0, <2>2, <2>3
    <2>5. ReceiveLane(d.fd, p, d.k, q, replies) => ReceiveLane(d.fd, p, d.k, Tail(q), replies)
      <3>1. Heard(p) \in Seq(Line) /\ d.k.input \in Seq(Line)
        BY <1>0, <1>1, HeardLines DEF Connection
      <3>2. ~IsData(Head(q), d.fd)
        BY <1>0, <1>1, OperationNames DEF IsData
      <3>3. QED
        BY <1>0, <3>1, <3>2, FeedsAfterOther DEF ReceiveLane
    <2>6. QED
      BY <1>0, <2>1, <2>4, <2>5 DEF SendLane
  <1>6. ReplyLength \in Nat \ {0} /\ Len(replies) \in Nat
    BY <1>0, <1>5, WorkerAssumption, LenProperties
  <1> HIDE DEF n
  <1>7. /\ k \in Connection /\ k.sent = n /\ k.sending /\ k.output = d.k.output /\ k.input = d.k.input
        /\ k.failed = d.k.failed /\ k.close_after_send = d.k.close_after_send
        /\ k.read_eof = d.k.read_eof /\ k.receive_active = d.k.receive_active
    BY <1>0, <1>1, <1>3 DEF Connection
  <1>8. /\ failing \in Connection /\ failing.failed /\ failing.sending = TRUE
        /\ failing.output = d.k.output
        /\ failing.read_eof = d.k.read_eof /\ failing.receive_active = d.k.receive_active
    BY <1>0, <1>1 DEF Connection
  <1> HIDE DEF k
  <1>9. /\ ending \in Connection /\ ~ending.sending /\ ending.input = k.input
        /\ ending.failed = k.failed /\ ending.close_after_send = k.close_after_send
        /\ ending.read_eof = k.read_eof /\ ending.receive_active = k.receive_active
    BY <1>0, <1>7 DEF Connection
  <1> HIDE DEF failing, ending, cqe
  <1> DEFINE r == Tail(q)
  <1>10. CASE cqe.res # "ok"
    <2> DEFINE e == [d EXCEPT !.k = failing]
    <2>1. e \in Contexts /\ e.k = failing /\ e.fd = d.fd /\ e.sq = d.sq /\ e.kernel = d.kernel
      BY <1>0, <1>8, WithConnection
    <2>2. Sent(d, cqe, stop) = CancelReceive(e)
      BY <1>0, <1>10 DEF Sent, failing
    <2> HIDE DEF e
    <2>3. SendLane(d.fd, failing, w, r, FALSE, replies)
      BY <1>0, <1>5, <1>8 DEF SendLane
    <2>4. Told(d.fd, p, w, failing, r, TRUE, FALSE, stop)
      BY <1>0, <1>5, <1>8, <2>3 DEF Told
    <2>5. (Send(d.fd) \in d.sq \cup d.kernel) = FALSE
      BY <1>0
    <2>6. Tells(e, p, w, r, stop)
      BY <1>0, <1>8, <2>1, <2>4, <2>5 DEF Tells, Hushed
    <2>7. QED
      BY <1>0, <2>1, <2>2, <2>6, CancelReceiveTells, PreparedKeeps DEF cqe
  <1>11. CASE cqe.res = "ok" /\ n < ReplyLength
    <2> DEFINE e == [d EXCEPT !.k = k]
    <2>1. e \in Contexts /\ e.k = k /\ e.fd = d.fd
      BY <1>0, <1>7, WithConnection
    <2>2. Sent(d, cqe, stop) = SubmitSend(e)
      <3>1. [d.k EXCEPT !.sent = @ + cqe.count] = k
        BY <1>0 DEF k, n, cqe
      <3>2. QED
        BY <1>0, <1>7, <1>11, <3>1 DEF Sent
    <2> HIDE DEF e
    <2>3. SendLane(d.fd, k, w, r, TRUE, replies)
      BY <1>0, <1>5, <1>7 DEF SendLane
    <2>4. ReceiveLane(d.fd, p, d.k, r, replies) => ReceiveLane(d.fd, p, k, r, replies)
      BY <1>0, <1>7 DEF ReceiveLane
    <2>5. Told(d.fd, p, w, k, r, TRUE, TRUE, stop)
      BY <1>0, <1>5, <1>7, <2>3, <2>4 DEF Told
    <2>6. Hushed(k, p)
      BY <1>0, <1>7 DEF Hushed
    <2>7. SubmitSend(e) \in Contexts /\ SubmitSend(e).fd = e.fd
      BY <1>0, <2>1, PreparedKeeps
    <2>8. Tells(SubmitSend(e), p, w, r, stop)
      BY <1>0, <2>1, <2>5, <2>6, SubmitSendTells
    <2>9. QED
      BY <1>0, <2>1, <2>2, <2>7, <2>8 DEF cqe
  <1>12. CASE cqe.res = "ok" /\ ~(n < ReplyLength)
    <2> DEFINE e == [d EXCEPT !.k = ending]
    <2>1. e \in Contexts /\ e.k = ending /\ e.fd = d.fd /\ e.sq = d.sq /\ e.kernel = d.kernel
      BY <1>0, <1>9, WithConnection
    <2>2. Sent(d, cqe, stop) = FinishReply(e, stop)
      <3>1. [d.k EXCEPT !.sent = @ + cqe.count] = k
        BY <1>0 DEF k, n, cqe
      <3>2. QED
        BY <1>0, <1>7, <1>12, <3>1 DEF Sent, ending
    <2> HIDE DEF e
    <2>3. Len(w) = ReplyLength * Len(replies)
      <3>1. n = ReplyLength
        BY <1>0, <1>3, <1>6, <1>12
      <3>2. ReplyLength * (Len(replies) - 1) + ReplyLength = ReplyLength * Len(replies)
        BY <1>0, <1>6
      <3>3. QED
        BY <1>0, <1>5, <3>1, <3>2
    <2>4. SendLane(d.fd, ending, w, r, FALSE, replies)
      BY <1>0, <1>9, <2>3 DEF SendLane
    <2>5. ReceiveLane(d.fd, p, d.k, r, replies) => ReceiveLane(d.fd, p, ending, r, replies)
      BY <1>0, <1>7, <1>9 DEF ReceiveLane
    <2>6. Told(d.fd, p, w, ending, r, TRUE, FALSE, stop)
      BY <1>0, <1>5, <1>7, <1>9, <2>4, <2>5 DEF Told
    <2>7. (Send(d.fd) \in d.sq \cup d.kernel) = FALSE
      BY <1>0
    <2>8. Tells(e, p, w, r, stop)
      BY <1>0, <1>7, <1>9, <2>1, <2>6, <2>7 DEF Tells, Hushed
    <2>9. Quiet(e, r)
      BY <1>0, <1>7, <1>9, <2>1 DEF Quiet
    <2>10. /\ FinishReply(e, stop) \in Contexts /\ FinishReply(e, stop).fd = e.fd
           /\ Tells(FinishReply(e, stop), p, w, r, stop)
      <3>1. /\ CancelReceive(e) \in Contexts /\ CancelReceive(e).fd = e.fd
            /\ Tells(CancelReceive(e), p, w, r, stop)
        BY <1>0, <2>1, <2>8, CancelReceiveTells, PreparedKeeps
      <3>2. /\ DriveConnection(e, stop) \in Contexts /\ DriveConnection(e, stop).fd = e.fd
            /\ Tells(DriveConnection(e, stop), p, w, r, stop)
        <4>1. /\ e \in Contexts /\ p \in Peers /\ p.position <= Len(p.script)
              /\ r \in Seq(Cqes) /\ stop \in BOOLEAN /\ Tells(e, p, w, r, stop) /\ Quiet(e, r)
          BY <1>0, <1>2, <2>1, <2>8, <2>9
        <4>2. QED
          BY <4>1, DriveTells
      <3>3. FinishReply(e, stop) \in {CancelReceive(e), DriveConnection(e, stop)}
        BY DEF FinishReply
      <3>4. QED
        BY <3>1, <3>2, <3>3
    <2>11. QED
      BY <1>0, <2>1, <2>2, <2>10 DEF cqe
  <1>13. QED
    BY <1>10, <1>11, <1>12

-----------------------------------------------------------------------------
(* The invariant behind WireCarriesReplies.                                 *)

PeersWithin == \A c \in Fds : peer[c].position <= Len(peer[c].script)

DialoguesTold ==
    \A c \in Fds : Told(c, peer[c], wire[c], conn[c], cq, c \in connections,
                        Send(c) \in sq \cup kernel, stopping)

ConnectionsHushed == \A c \in connections : Hushed(conn[c], peer[c])

\* The CQE that ends a peer's stream is the last of its receive.
EofsSeen ==
    \A i \in DOMAIN cq : cq[i].res = "eof" =>
        /\ ~cq[i].more
        /\ \A c \in Fds : cq[i].op = Receive(c) => peer[c].closed

\* Nothing was read from the peer of a connection that waits to be accepted.
NewPeersSilent ==
    \A i \in DOMAIN cq : \A c \in Fds : cq[i].fd = c =>
        wire[c] = <<>> /\ peer[c].position = 0 /\ ~peer[c].closed

WireInv == PeersWithin /\ DialoguesTold /\ ConnectionsHushed /\ EofsSeen /\ NewPeersSilent

LEMMA TellsLater ==
    ASSUME NEW d, NEW p, NEW w, NEW q, NEW stop, NEW more, stop => more, Tells(d, p, w, q, stop)
    PROVE  Tells(d, p, w, q, more)
  BY DEF Tells, Told

\* The oldest CQE is completed: what is left of the other facts.
LEMMA TailSilent ==
    ASSUME IInv, WireInv, cq # <<>>, cq' = Tail(cq), UNCHANGED <<peer, wire>>
    PROVE  PeersWithin' /\ EofsSeen' /\ NewPeersSilent'
  <1>1. \A i \in DOMAIN cq' : i \in Nat /\ i + 1 \in DOMAIN cq /\ cq'[i] = cq[i + 1]
    BY TailQueue DEF IInv, TypeOK
  <1>2. peer' = peer /\ wire' = wire
    OBVIOUS
  <1>3. PeersWithin'
    BY <1>2 DEF WireInv, PeersWithin
  <1>4. EofsSeen'
    BY <1>1, <1>2 DEF WireInv, EofsSeen
  <1>5. NewPeersSilent'
    BY <1>1, <1>2 DEF WireInv, NewPeersSilent
  <1>6. QED
    BY <1>3, <1>4, <1>5

\* What the connection of the oldest CQE does not still have in the queue.
LEMMA TailQuiet ==
    ASSUME IInv, WireInv, cq # <<>>, NEW c \in Fds, Head(cq).op \in {Receive(c), Send(c), Cancel(c)}
    PROVE  /\ c \in connections
           /\ conn[c].read_eof => peer[c].closed /\ ~conn[c].receive_active
           /\ Head(cq).op = Receive(c) /\ Head(cq).res = "eof" => peer[c].closed /\ ~Head(cq).more
           /\ conn[c].read_eof \/ (Head(cq).op = Receive(c) /\ Head(cq).res = "eof")
                  => \A n \in 1..Len(Tail(cq)) : ~IsData(Tail(cq)[n], c)
           /\ ~conn[c].sending \/ Head(cq).op = Send(c)
                  => \A n \in 1..Len(Tail(cq)) : Tail(cq)[n].op # Send(c)
  <1>1. /\ TypeOK /\ CqesWellFormed /\ CompletionsAreExclusive /\ ReferencesMatchOperations
        /\ cq \in Seq(Cqes)
    BY DEF IInv, TypeOK
  <1>2. Outstanding(Head(cq).op) /\ 1 \in DOMAIN cq /\ Head(cq) = cq[1]
    BY <1>1, OutstandingAfter, OldestCqe
  <1>3. c \in connections
    BY <1>1, <1>2 DEF ReferencesMatchOperations
  <1>4. conn[c].read_eof => peer[c].closed /\ ~conn[c].receive_active
    BY <1>3 DEF WireInv, ConnectionsHushed, Hushed
  <1>5. Head(cq).op = Receive(c) /\ Head(cq).res = "eof" => peer[c].closed /\ ~Head(cq).more
    BY <1>2 DEF WireInv, EofsSeen
  <1>6. ASSUME NEW n \in 1..Len(Tail(cq))
        PROVE  /\ n + 1 \in DOMAIN cq /\ 1 < n + 1 /\ Tail(cq)[n] = cq[n + 1]
               /\ Outstanding(cq[n + 1].op)
               /\ cq[n + 1].op = Head(cq).op => Head(cq).more
    <2>1. /\ Len(cq) \in Nat /\ DOMAIN cq = 1..Len(cq) /\ Len(Tail(cq)) = Len(cq) - 1
          /\ \A m \in 1..Len(Tail(cq)) : Tail(cq)[m] = cq[m + 1]
      BY <1>1, HeadTailProperties, LenProperties
    <2>2. n + 1 \in DOMAIN cq /\ 1 < n + 1 /\ Tail(cq)[n] = cq[n + 1]
      BY <2>1
    <2>3. cq[n + 1].op \in Operations
      BY <1>1, <2>2, QueuedCqes
    <2>4. Outstanding(cq[n + 1].op)
      BY <1>1, <2>2 DEF Outstanding, Ended, CompletionsAreExclusive
    <2>5. cq[n + 1].op = Head(cq).op => Head(cq).more
      BY <1>1, <1>2, <2>2 DEF CompletionsAreExclusive
    <2>6. QED
      BY <2>2, <2>4, <2>5
  <1>7. /\ conn[c].receive_active <=> Outstanding(Receive(c))
        /\ Outstanding(Send(c)) => conn[c].sending
    BY <1>1, <1>3 DEF ReferencesMatchOperations
  <1>8. conn[c].read_eof => \A n \in 1..Len(Tail(cq)) : ~IsData(Tail(cq)[n], c)
    BY <1>4, <1>6, <1>7 DEF IsData
  <1>9. Head(cq).op = Receive(c) /\ Head(cq).res = "eof"
            => \A n \in 1..Len(Tail(cq)) : ~IsData(Tail(cq)[n], c)
    BY <1>5, <1>6 DEF IsData
  <1>10. ~conn[c].sending => \A n \in 1..Len(Tail(cq)) : Tail(cq)[n].op # Send(c)
    BY <1>6, <1>7
  <1>11. Head(cq).op = Send(c) => \A n \in 1..Len(Tail(cq)) : Tail(cq)[n].op # Send(c)
    <2>1. Head(cq).op = Send(c) => ~Head(cq).more
      BY <1>1, LastCqe
    <2>2. QED
      BY <1>6, <2>1
  <1>12. QED
    BY <1>3, <1>4, <1>5, <1>8, <1>9, <1>10, <1>11

\* The dialogue of a peer, before the completion of the oldest CQE and after it
\* if that is another's.
LEMMA ToldBefore ==
    ASSUME IInv, WireInv, NEW c \in Fds
    PROVE  /\ peer[c] \in Peers /\ peer[c].position <= Len(peer[c].script)
           /\ conn[c] \in Connection /\ cq \in Seq(Cqes) /\ stopping \in BOOLEAN
           /\ Told(c, peer[c], wire[c], conn[c], cq, c \in connections,
                   Send(c) \in sq \cup kernel, stopping)
  BY DEF IInv, TypeOK, WireInv, PeersWithin, DialoguesTold

LEMMA ToldOthers ==
    ASSUME IInv, WireInv, cq # <<>>, NEW b \in Fds, Head(cq).op # Receive(b),
           cq' = Tail(cq), UNCHANGED <<peer, wire>>, conn'[b] = conn[b], stopping => stopping',
           b \in connections' <=> b \in connections,
           Send(b) \in sq' \cup kernel' <=> Send(b) \in sq \cup kernel
    PROVE  Told(b, peer'[b], wire'[b], conn'[b], cq', b \in connections',
                Send(b) \in sq' \cup kernel', stopping')
  <1>1. PICK p, w, k, q, live, out, stop :
           /\ p = peer[b] /\ w = wire[b] /\ k = conn[b] /\ q = cq
           /\ live = (b \in connections) /\ out = (Send(b) \in sq \cup kernel) /\ stop = stopping
    OBVIOUS
  <1>2. PICK more : more = stopping'
    OBVIOUS
  <1>3. /\ p \in Peers /\ p.position <= Len(p.script) /\ k \in Connection /\ q \in Seq(Cqes)
        /\ Told(b, p, w, k, q, live, out, stop)
    BY <1>1, ToldBefore
  <1>4. ~IsData(Head(q), b) /\ q # <<>> /\ (stop => more)
    BY <1>1, <1>2 DEF IsData
  <1>5. Told(b, p, w, k, Tail(q), live, out, more)
    BY <1>3, <1>4, ToldTail
  <1>6. /\ peer'[b] = p /\ wire'[b] = w /\ conn'[b] = k /\ cq' = Tail(q) /\ stopping' = more
        /\ (b \in connections') = live /\ (Send(b) \in sq' \cup kernel') = out
    BY <1>1, <1>2
  <1>7. QED
    BY <1>5, <1>6

\* A completion whose functions leave the dialogue in order.
LEMMA CompletionTells ==
    ASSUME IInv, WireInv, NEW c \in Fds, NEW k, NEW e, Completion(c, k, e),
           NEW f \in Contexts, f.fd = c, Keep(f) \/ ReleaseConnection(f),
           Tells(f, peer[c], wire[c], Tail(cq), stopping')
    PROVE  WireInv'
  <1>1. /\ cq # <<>> /\ Head(cq).op \in {Receive(c), Send(c), Cancel(c)} /\ c \in connections
        /\ Extends(Context(c, k), e, EndedAfter) /\ Handles(c, e)
    BY DEF Completion
  <1>2. /\ cq' = Tail(cq) /\ (stopping => stopping') /\ peer' = peer /\ wire' = wire
        /\ e.fd = c /\ sq' = e.sq /\ kernel' = e.kernel
    BY <1>1 DEF Handles, Extends, Context, Keep, ReleaseConnection
  <1>3. PeersWithin' /\ EofsSeen' /\ NewPeersSilent'
    BY <1>1, <1>2, TailSilent
  <1>4. conn \in [Fds -> Connection] /\ connections \subseteq Fds /\ f.k \in Connection
    BY DEF IInv, TypeOK, Contexts
  <1>5. /\ sq' = f.sq /\ kernel' = f.kernel /\ connections' \subseteq connections
        /\ \A b \in Fds \ {c} : conn'[b] = conn[b] /\ (b \in connections' <=> b \in connections)
        /\ \/ /\ connections' = connections /\ SameInput(f.k, conn'[c])
              /\ conn'[c].receive_active = f.k.receive_active
           \/ c \notin connections'
    <2>1. CASE Keep(f)
      BY <1>4, <2>1 DEF Keep, SameInput
    <2>2. CASE ReleaseConnection(f) /\ f.k.references = 1
      BY <1>4, <2>2 DEF ReleaseConnection
    <2>3. CASE ReleaseConnection(f) /\ f.k.references # 1
      <3> DEFINE j == [f.k EXCEPT !.references = @ - 1]
      <3>1. SameInput(f.k, j) /\ j.receive_active = f.k.receive_active
        BY <1>4 DEF Connection, SameInput
      <3>2. /\ conn' = [conn EXCEPT ![c] = j] /\ connections' = connections
            /\ sq' = f.sq /\ kernel' = f.kernel
        BY <2>3 DEF ReleaseConnection
      <3> HIDE DEF j
      <3>3. QED
        BY <1>4, <3>1, <3>2
    <2>4. QED
      BY <2>1, <2>2, <2>3
  <1>6. ASSUME NEW b \in Fds \ {c}
        PROVE  Told(b, peer'[b], wire'[b], conn'[b], cq', b \in connections',
                    Send(b) \in sq' \cup kernel', stopping')
    <2>1. Send(b) \in Operations /\ Send(b) \notin {Receive(c), Send(c), Cancel(c)}
          /\ Receive(b) \notin {Receive(c), Send(c), Cancel(c)}
      BY OperationNames
    <2>2. Send(b) \in sq' \cup kernel' <=> Send(b) \in sq \cup kernel
      BY <1>1, <1>2, <2>1, OthersUnchanged
    <2>3. QED
      BY <1>1, <1>2, <1>5, <2>1, <2>2, ToldOthers
  <1>7. Told(c, peer'[c], wire'[c], conn'[c], cq', c \in connections',
             Send(c) \in sq' \cup kernel', stopping')
    <2>1. PICK p, w, q, j, live, out, stop :
             /\ p = peer'[c] /\ w = wire'[c] /\ q = cq' /\ j = conn'[c] /\ stop = stopping'
             /\ live = (c \in connections') /\ out = (Send(c) \in sq' \cup kernel')
      OBVIOUS
    <2>2. Told(c, p, w, f.k, q, TRUE, Send(c) \in f.sq \cup f.kernel, stop)
      BY <1>2, <2>1 DEF Tells
    <2>3. (Send(c) \in f.sq \cup f.kernel) = out
      BY <1>5, <2>1
    <2>4. SameInput(f.k, j) \/ ~live
      BY <1>5, <2>1
    <2>5. Told(c, p, w, j, q, live, out, stop)
      BY <2>2, <2>3, <2>4 DEF Told, SameInput, SendLane, ReceiveLane
    <2>6. QED
      BY <2>1, <2>5
  <1>8. DialoguesTold'
    BY <1>6, <1>7 DEF DialoguesTold
  <1>9. ConnectionsHushed'
    <2>1. ASSUME NEW b \in connections' PROVE Hushed(conn'[b], peer'[b])
      <3>1. CASE b = c
        <4>1. Hushed(f.k, peer[c])
          BY DEF Tells
        <4>2. conn'[c].receive_active = f.k.receive_active /\ conn'[c].read_eof = f.k.read_eof
          BY <1>5, <2>1, <3>1 DEF SameInput
        <4>3. QED
          BY <1>2, <3>1, <4>1, <4>2 DEF Hushed
      <3>2. CASE b # c
        <4>1. b \in Fds \ {c} /\ b \in connections
          BY <1>4, <1>5, <2>1, <3>2
        <4>2. QED
          BY <1>2, <1>5, <4>1 DEF WireInv, ConnectionsHushed
      <3>3. QED
        BY <3>1, <3>2
    <2>2. QED
      BY <2>1 DEF ConnectionsHushed
  <1>10. QED
    BY <1>3, <1>8, <1>9 DEF WireInv

LEMMA CancelCompletedTells ==
    ASSUME IInv, WireInv, NEW c \in Fds, CancelCompleted(c) PROVE WireInv'
  <1> DEFINE k == [conn[c] EXCEPT !.cancel_pending = FALSE]
             d == Context(c, k)
  <1>1. PICK r \in Reads : stopping' = r[3] /\ ReleaseConnection(DriveConnection(d, r[1]))
    BY DEF CancelCompleted
  <1>2. cq # <<>> /\ Head(cq).op = Cancel(c) /\ Cancel(c) # Receive(c)
    BY OperationNames DEF CancelCompleted, Completes
  <1>3. /\ peer[c] \in Peers /\ peer[c].position <= Len(peer[c].script)
        /\ conn[c] \in Connection /\ cq \in Seq(Cqes) /\ stopping \in BOOLEAN
        /\ Told(c, peer[c], wire[c], conn[c], cq, c \in connections, Send(c) \in sq \cup kernel, stopping)
    BY ToldBefore
  <1>4. Tail(cq) \in Seq(Cqes)
    BY <1>2, <1>3, HeadTailProperties
  <1>5. /\ r[1] \in BOOLEAN /\ (stopping => r[1]) /\ (r[1] => stopping')
    BY <1>1, <1>3, ReadsGrow
  <1>6. k \in Connection /\ SameInput(conn[c], k) /\ k.receive_active = conn[c].receive_active
    BY <1>3 DEF Connection, SameInput
  <1> HIDE DEF k
  <1>7. d \in Contexts /\ d.k = k /\ d.fd = c /\ d.sq = sq /\ d.kernel = kernel
    BY <1>6, ContextOf DEF IInv, Context
  <1> HIDE DEF d
  <1>8. /\ c \in connections
        /\ conn[c].read_eof => peer[c].closed /\ ~conn[c].receive_active
        /\ conn[c].read_eof => \A n \in 1..Len(Tail(cq)) : ~IsData(Tail(cq)[n], c)
        /\ ~conn[c].sending => \A n \in 1..Len(Tail(cq)) : Tail(cq)[n].op # Send(c)
    BY <1>2, TailQuiet
  <1>9. Told(c, peer[c], wire[c], conn[c], Tail(cq), TRUE, Send(c) \in sq \cup kernel, r[1])
    <2>1. PICK out : out = (Send(c) \in sq \cup kernel)
      OBVIOUS
    <2>2. (c \in connections) = TRUE
      BY <1>8
    <2>3. Told(c, peer[c], wire[c], conn[c], cq, TRUE, out, stopping)
      BY <1>3, <2>1, <2>2
    <2>4. ~IsData(Head(cq), c)
      BY <1>2 DEF IsData
    <2>5. Told(c, peer[c], wire[c], conn[c], Tail(cq), TRUE, out, r[1])
      BY <1>2, <1>3, <1>5, <2>3, <2>4, ToldTail
    <2>6. QED
      BY <2>1, <2>5
  <1>10. Tells(d, peer[c], wire[c], Tail(cq), r[1])
    <2>1. Told(c, peer[c], wire[c], k, Tail(cq), TRUE, Send(c) \in sq \cup kernel, r[1])
      BY <1>6, <1>9 DEF Told, SameInput, SendLane, ReceiveLane
    <2>2. QED
      BY <1>6, <1>7, <1>8, <2>1 DEF Tells, Hushed, SameInput
  <1>11. Quiet(d, Tail(cq))
    BY <1>6, <1>7, <1>8 DEF Quiet, SameInput
  <1> DEFINE f == DriveConnection(d, r[1])
  <1>12. f \in Contexts /\ f.fd = c /\ Tells(f, peer[c], wire[c], Tail(cq), r[1])
    BY <1>3, <1>4, <1>5, <1>7, <1>10, <1>11, DriveTells
  <1>13. ReleaseConnection(f)
    BY <1>1
  <1> HIDE DEF f
  <1>14. Tells(f, peer[c], wire[c], Tail(cq), stopping')
    BY <1>5, <1>12, TellsLater
  <1>15. PICK l, e : Completion(c, l, e)
    BY CancelCompletes
  <1>16. QED
    BY <1>12, <1>13, <1>14, <1>15, CompletionTells

LEMMA ReceiveCompletedTells ==
    ASSUME IInv, WireInv, NEW c \in Fds, ReceiveCompleted(c) PROVE WireInv'
  <1> DEFINE cqe == Head(cq)
  <1>1. PICK r \in Reads :
           LET d == Context(c, Received(conn[c], cqe, r[1]))
               f == IF d.k.failed \/ r[2] THEN CancelReceive(d) ELSE DriveConnection(d, r[3])
           IN stopping' = r[3] /\ IF cqe.more THEN Keep(f) ELSE ReleaseConnection(f)
    BY DEF ReceiveCompleted, EndReceive
  <1> DEFINE k == Received(conn[c], cqe, r[1])
             d == Context(c, k)
             f == IF d.k.failed \/ r[2] THEN CancelReceive(d) ELSE DriveConnection(d, r[3])
  <1>2. stopping' = r[3] /\ (Keep(f) \/ ReleaseConnection(f))
    BY <1>1
  <1>3. cq # <<>> /\ cqe.op = Receive(c)
    BY DEF ReceiveCompleted, Completes
  <1>4. /\ peer[c] \in Peers /\ peer[c].position <= Len(peer[c].script)
        /\ conn[c] \in Connection /\ cq \in Seq(Cqes) /\ stopping \in BOOLEAN
        /\ Told(c, peer[c], wire[c], conn[c], cq, c \in connections, Send(c) \in sq \cup kernel, stopping)
    BY ToldBefore
  <1>5. Tail(cq) \in Seq(Cqes) /\ cqe \in Cqes
    BY <1>3, <1>4, HeadTailProperties, OldestCqe
  <1>6. /\ r[1] \in BOOLEAN /\ r[2] \in BOOLEAN /\ r[3] \in BOOLEAN
        /\ (stopping => r[1]) /\ (r[1] => r[3])
    BY <1>4, ReadsGrow
  <1>7. /\ k \in Connection
        /\ k.receive_active <=> conn[c].receive_active /\ cqe.more
        /\ k.sending = conn[c].sending
        /\ k.read_eof => conn[c].read_eof \/ cqe.res = "eof"
    BY <1>4, <1>5, ReceivedConnection
  <1>8. /\ c \in connections
        /\ conn[c].read_eof => peer[c].closed /\ ~conn[c].receive_active
        /\ cqe.res = "eof" => peer[c].closed /\ ~cqe.more
        /\ conn[c].read_eof \/ cqe.res = "eof"
               => \A n \in 1..Len(Tail(cq)) : ~IsData(Tail(cq)[n], c)
        /\ ~conn[c].sending => \A n \in 1..Len(Tail(cq)) : Tail(cq)[n].op # Send(c)
    BY <1>3, TailQuiet
  <1>9. Told(c, peer[c], wire[c], k, Tail(cq), TRUE, Send(c) \in sq \cup kernel, r[1])
    <2>1. PICK out : out = (Send(c) \in sq \cup kernel)
      OBVIOUS
    <2>2. (c \in connections) = TRUE
      BY <1>8
    <2>3. Told(c, peer[c], wire[c], conn[c], cq, TRUE, out, stopping)
      BY <1>4, <2>1, <2>2
    <2>4. Told(c, peer[c], wire[c], Received(conn[c], Head(cq), r[1]), Tail(cq), TRUE, out, r[1])
      BY <1>3, <1>4, <1>6, <2>3, ReceivedTells
    <2>5. QED
      BY <2>1, <2>4
  <1> HIDE DEF k
  <1>10. d \in Contexts /\ d.k = k /\ d.fd = c /\ d.sq = sq /\ d.kernel = kernel
    BY <1>7, ContextOf DEF IInv, Context
  <1> HIDE DEF d, cqe
  <1>11. Tells(d, peer[c], wire[c], Tail(cq), r[3])
    <2>1. Tells(d, peer[c], wire[c], Tail(cq), r[1])
      BY <1>7, <1>8, <1>9, <1>10 DEF Tells, Hushed
    <2>2. QED
      BY <1>6, <2>1, TellsLater
  <1>12. Quiet(d, Tail(cq))
    BY <1>7, <1>8, <1>10 DEF Quiet
  <1>13. f \in Contexts /\ f.fd = c /\ Tells(f, peer[c], wire[c], Tail(cq), r[3])
    <2>1. /\ CancelReceive(d) \in Contexts /\ CancelReceive(d).fd = c
          /\ Tells(CancelReceive(d), peer[c], wire[c], Tail(cq), r[3])
      BY <1>10, <1>11, PreparedKeeps, CancelReceiveTells
    <2>2. /\ DriveConnection(d, r[3]) \in Contexts /\ DriveConnection(d, r[3]).fd = c
          /\ Tells(DriveConnection(d, r[3]), peer[c], wire[c], Tail(cq), r[3])
      <3>1. PICK p, w, q, stop :
                p = peer[c] /\ w = wire[c] /\ q = Tail(cq) /\ stop = r[3]
        OBVIOUS
      <3>2. /\ d \in Contexts /\ d.fd = c /\ p \in Peers /\ p.position <= Len(p.script)
            /\ q \in Seq(Cqes) /\ stop \in BOOLEAN /\ Tells(d, p, w, q, stop) /\ Quiet(d, q)
        BY <1>4, <1>5, <1>6, <1>10, <1>11, <1>12, <3>1
      <3>3. /\ DriveConnection(d, stop) \in Contexts /\ DriveConnection(d, stop).fd = c
            /\ Tells(DriveConnection(d, stop), p, w, q, stop)
        BY <3>2, DriveTells
      <3>4. QED
        BY <3>1, <3>3
    <2>3. f \in {CancelReceive(d), DriveConnection(d, r[3])}
      OBVIOUS
    <2> HIDE DEF f
    <2>4. QED
      BY <2>1, <2>2, <2>3
  <1> HIDE DEF f
  <1>14. PICK l, e : Completion(c, l, e)
    BY ReceiveCompletes
  <1>15. QED
    BY <1>2, <1>13, <1>14, CompletionTells

LEMMA SendCompletedTells ==
    ASSUME IInv, WireInv, NEW c \in Fds, SendCompleted(c) PROVE WireInv'
  <1> DEFINE d == Context(c, conn[c])
  <1>1. PICK r \in Reads : stopping' = r[3] /\ ReleaseConnection(Sent(d, Head(cq), r[1]))
    BY DEF SendCompleted
  <1>2. cq # <<>> /\ Head(cq).op = Send(c)
    BY DEF SendCompleted, Completes
  <1>3. /\ peer[c] \in Peers /\ peer[c].position <= Len(peer[c].script)
        /\ conn[c] \in Connection /\ cq \in Seq(Cqes) /\ stopping \in BOOLEAN
        /\ Told(c, peer[c], wire[c], conn[c], cq, c \in connections, Send(c) \in sq \cup kernel, stopping)
    BY ToldBefore
  <1>4. /\ r[1] \in BOOLEAN /\ (stopping => r[1]) /\ (r[1] => stopping')
    BY <1>1, <1>3, ReadsGrow
  <1>5. d \in Contexts /\ d.k = conn[c] /\ d.fd = c /\ d.sq = sq /\ d.kernel = kernel
    BY <1>3, ContextOf DEF IInv, Context
  <1> HIDE DEF d
  <1>6. /\ c \in connections
        /\ conn[c].read_eof => peer[c].closed /\ ~conn[c].receive_active
        /\ conn[c].read_eof => \A n \in 1..Len(Tail(cq)) : ~IsData(Tail(cq)[n], c)
        /\ \A n \in 1..Len(Tail(cq)) : Tail(cq)[n].op # Send(c)
    BY <1>2, TailQuiet
  <1>7. /\ conn[c].sending /\ conn[c].sent + Head(cq).count <= ReplyLength
        /\ Send(c) \notin sq \cup kernel
    <2>1. /\ TypeOK /\ CqesWellFormed /\ SendsBounded /\ CompletionsAreExclusive
          /\ ReferencesMatchOperations
      BY DEF IInv
    <2>2. Head(cq) = cq[1] /\ 1 \in DOMAIN cq
      BY <1>2, <1>3, OldestCqe
    <2>3. Outstanding(Send(c)) /\ ~Head(cq).more
      BY <1>2, <2>1, OutstandingAfter, LastCqe
    <2>4. Ended(Send(c)) /\ Send(c) \in Operations
      BY <1>2, <2>2, <2>3, OperationNames DEF Ended
    <2>5. QED
      BY <1>2, <1>6, <2>1, <2>2, <2>3, <2>4
         DEF ReferencesMatchOperations, CompletionsAreExclusive, SendsBounded
  <1> DEFINE f == Sent(d, Head(cq), r[1])
  <1>8. f \in Contexts /\ f.fd = c /\ Tells(f, peer[c], wire[c], Tail(cq), r[1])
    <2>1. PICK out : out = (Send(c) \in sq \cup kernel)
      OBVIOUS
    <2>2. (c \in connections) = TRUE
      BY <1>6
    <2>3. Told(c, peer[c], wire[c], conn[c], cq, TRUE, out, stopping)
      BY <1>3, <2>1, <2>2
    <2>4. Hushed(d.k, peer[c])
      BY <1>5, <1>6 DEF Hushed
    <2>5. PICK p, w, q, before, stop :
             p = peer[c] /\ w = wire[c] /\ q = cq /\ before = stopping /\ stop = r[1]
      OBVIOUS
    <2>6. /\ p \in Peers /\ p.position <= Len(p.script) /\ q \in Seq(Cqes) /\ q # <<>>
          /\ stop \in BOOLEAN /\ (before => stop) /\ Hushed(d.k, p)
          /\ Told(d.fd, p, w, d.k, q, TRUE, out, before)
      BY <1>2, <1>3, <1>4, <1>5, <2>3, <2>4, <2>5
    <2>7. /\ Head(q).op = Send(d.fd) /\ Send(d.fd) \notin d.sq \cup d.kernel /\ d.k.sending
          /\ Within(d.k, Head(q))
          /\ d.k.read_eof => \A n \in 1..Len(Tail(q)) : ~IsData(Tail(q)[n], d.fd)
          /\ \A n \in 1..Len(Tail(q)) : Tail(q)[n].op # Send(d.fd)
      BY <1>2, <1>5, <1>6, <1>7, <2>5 DEF Within
    <2>20. SendEnded(d, p, w, q, before, stop, out)
      BY <2>6, <2>7 DEF SendEnded
    <2>8. /\ Sent(d, Head(q), stop) \in Contexts /\ Sent(d, Head(q), stop).fd = d.fd
          /\ Tells(Sent(d, Head(q), stop), p, w, Tail(q), stop)
      BY <1>5, <2>6, <2>20, SentTells
    <2>9. QED
      BY <1>5, <2>5, <2>8
  <1>9. ReleaseConnection(f)
    BY <1>1
  <1> HIDE DEF f
  <1>10. Tells(f, peer[c], wire[c], Tail(cq), stopping')
    BY <1>4, <1>8, TellsLater
  <1>11. PICK l, e : Completion(c, l, e)
    BY SendCompletes
  <1>12. QED
    BY <1>8, <1>9, <1>10, <1>11, CompletionTells

\* A connection that was just accepted, or that is about to be.
LEMMA ToldNew ==
    ASSUME NEW c \in Fds, NEW p \in Peers, p.position = 0, NEW k, k.input = <<>>, ~k.sending,
           NEW q \in Seq(Cqes), \A n \in 1..Len(q) : ~IsData(q[n], c) /\ q[n].op # Send(c),
           NEW live, NEW out, ~out, NEW stop
    PROVE  Told(c, p, <<>>, k, q, live, out, stop)
  <1>1. p.script \in Seq(Line) /\ p.closed \in BOOLEAN
    BY WorkerAssumption, EmptySeq DEF Peers
  <1>2. Heard(p) = <<>> /\ <<>> \in Seq(Line) /\ Len(<<>>) = 0 /\ <<>> \in Seq(Replies)
    <2>1. SubSeq(p.script, 1, 0) = <<>>
      BY <1>1, SubSeqEmpty
    <2>2. QED
      BY <2>1, EmptySeq DEF Heard
  <1>3. Consumed(<<>>, 1, <<>>) /\ 1 \in 1..(Len(<<>>) + 1)
    <2>1. PICK s \in Seq(Line) : s = <<>>
      BY <1>2
    <2>2. Consumed(s, 1, <<>>)
      BY NothingConsumed
    <2>3. QED
      BY <1>2, <2>1, <2>2
  <1>4. Dialogue(<<>>, p.closed, <<>>)
    BY <1>2, <1>3 DEF Dialogue
  <1>5. OnWire(<<>>, <<>>)
    BY <1>2 DEF OnWire
  <1>6. SendLane(c, k, <<>>, q, out, <<>>)
    BY <1>2, WorkerAssumption DEF SendLane
  <1>7. Feeds(<<>>, 1, k.input, q, c)
    BY FeedsNothing
  <1>8. ReceiveLane(c, p, k, q, <<>>)
    BY <1>2, <1>3, <1>7 DEF ReceiveLane
  <1>9. QED
    BY <1>2, <1>4, <1>5, <1>6, <1>8 DEF Told

LEMMA RearmAcceptSends ==
    ASSUME NEW d, d.sq \subseteq Operations, d.kernel \subseteq Operations,
           d \in Contexts \/ d = [sq |-> d.sq, kernel |-> d.kernel],
           NEW terminal, NEW stop, RearmAccept(d, terminal, stop), NEW b \in Fds
    PROVE  Send(b) \in sq' \cup kernel' <=> Send(b) \in d.sq \cup d.kernel
  <1>1. Send(b) # AcceptOperation
    BY OperationNames
  <1>2. CASE terminal /\ ~stop /\ Cardinality(d.sq) < QueueDepth
    BY <1>1, <1>2 DEF RearmAccept, GetSqe, Contexts
  <1>3. CASE terminal /\ ~stop /\ ~(Cardinality(d.sq) < QueueDepth)
    BY <1>1, <1>3 DEF RearmAccept, GetSqe, Contexts
  <1>4. CASE ~(terminal /\ ~stop)
    BY <1>4 DEF RearmAccept
  <1>5. QED
    BY <1>2, <1>3, <1>4

\* The listener's completions that leave the connections alone.
LEMMA ListenerTells ==
    ASSUME IInv, WireInv, AcceptedWhileStopping \/ AcceptEnded \/ AcceptCancelCompleted
    PROVE  WireInv'
  <1>1. cq # <<>> /\ cq' = Tail(cq) /\ peer' = peer /\ wire' = wire /\ UNCHANGED <<connections, conn>>
    BY DEF AcceptedWhileStopping, AcceptEnded, AcceptCancelCompleted, Completes
  <1>2. TypeOK /\ cq \in Seq(Cqes) /\ stopping \in BOOLEAN
    BY DEF IInv, TypeOK
  <1>3. stopping => stopping'
    <2>1. CASE AcceptedWhileStopping
      BY <2>1 DEF AcceptedWhileStopping
    <2>2. CASE AcceptEnded
      <3>1. PICK r \in Reads : stopping' = (r[3] \/ Head(cq).res = "error")
        BY <2>2 DEF AcceptEnded
      <3>2. stopping => r[3]
        BY <1>2, ReadsGrow
      <3>3. QED
        BY <3>1, <3>2
    <2>3. CASE AcceptCancelCompleted
      BY <2>3 DEF AcceptCancelCompleted
    <2>4. QED
      BY <2>1, <2>2, <2>3
  <1>4. ASSUME NEW b \in Fds
        PROVE  Send(b) \in sq' \cup kernel' <=> Send(b) \in sq \cup kernel
    <2> DEFINE d == [sq |-> sq, kernel |-> kernel]
    <2>1. /\ d.sq = sq /\ d.kernel = kernel /\ d = [sq |-> d.sq, kernel |-> d.kernel]
          /\ sq \subseteq Operations /\ kernel \subseteq Operations
      BY <1>2 DEF TypeOK
    <2>2. AcceptCancelCompleted \/ \E terminal, stop : RearmAccept(d, terminal, stop)
      BY DEF AcceptedWhileStopping, AcceptEnded
    <2> HIDE DEF d
    <2>3. CASE AcceptCancelCompleted
      BY <2>3 DEF AcceptCancelCompleted
    <2>4. ASSUME NEW terminal, NEW stop, RearmAccept(d, terminal, stop)
          PROVE  Send(b) \in sq' \cup kernel' <=> Send(b) \in sq \cup kernel
      BY <2>1, <2>4, RearmAcceptSends
    <2>5. QED
      BY <2>2, <2>3, <2>4
  <1>5. \A b \in Fds : Head(cq).op # Receive(b)
    <2>1. Head(cq).op[1] \in {"accept", "cancel"}
      BY DEF AcceptedWhileStopping, AcceptEnded, AcceptCancelCompleted, Completes
    <2>2. QED
      BY <2>1, OperationNames
  <1>6. PeersWithin' /\ EofsSeen' /\ NewPeersSilent'
    BY <1>1, TailSilent
  <1>7. DialoguesTold'
    <2>1. ASSUME NEW b \in Fds
          PROVE  Told(b, peer'[b], wire'[b], conn'[b], cq', b \in connections',
                      Send(b) \in sq' \cup kernel', stopping')
      BY <1>1, <1>3, <1>4, <1>5, ToldOthers
    <2>2. QED
      BY <2>1 DEF DialoguesTold
  <1>8. ConnectionsHushed'
    BY <1>1 DEF WireInv, ConnectionsHushed
  <1>9. QED
    BY <1>6, <1>7, <1>8 DEF WireInv

LEMMA AcceptedConnectionTells ==
    ASSUME IInv, WireInv, AcceptedConnection PROVE WireInv'
  <1>1. /\ TypeOK /\ CompletionsAreExclusive /\ ReferencesMatchOperations /\ DescriptorsAccounted
        /\ cq \in Seq(Cqes) /\ stopping \in BOOLEAN /\ CqesWellFormed
    BY DEF IInv, TypeOK
  <1>2. /\ cq # <<>> /\ cq' = Tail(cq) /\ peer' = peer /\ wire' = wire
        /\ Head(cq).op[1] = "accept" /\ Head(cq).res = "ok"
    BY DEF AcceptedConnection, Completes
  <1>3. /\ Head(cq) = cq[1] /\ 1 \in DOMAIN cq /\ Head(cq).op = AcceptOperation
    <2>1. Head(cq) = cq[1] /\ 1 \in DOMAIN cq /\ Head(cq).op \in Operations
      BY <1>1, <1>2, OldestCqe
    <2>2. QED
      BY <1>2, <2>1, OperationNames
  <1>4. Head(cq).fd # NULL /\ Head(cq).fd \in Fds
    BY <1>2, <1>3, ListenerCqe
  <1>5. PICK c \in Fds : c = Head(cq).fd
    BY <1>4
  <1>6. c \notin connections
    BY <1>1, <1>3, <1>5 DEF DescriptorsAccounted
  <1>7. wire[c] = <<>> /\ peer[c].position = 0 /\ ~peer[c].closed
    BY <1>3, <1>5 DEF WireInv, NewPeersSilent
  <1>8. ~Outstanding(Receive(c)) /\ ~Outstanding(Send(c))
    BY <1>1, <1>6 DEF ReferencesMatchOperations
  <1> DEFINE d == Context(c, Zeroed)
             e == SubmitReceive(d)
  <1>9. /\ Zeroed \in Connection /\ ~Zeroed.read_eof /\ ~Zeroed.sending /\ Zeroed.input = <<>>
    BY EmptySeq DEF Zeroed, Connection
  <1>10. d \in Contexts /\ d.fd = c /\ d.k = Zeroed /\ d.sq = sq /\ d.kernel = kernel
    BY <1>1, <1>9, ContextOf DEF Context
  <1>11. PICK r \in Reads :
            /\ stopping' = r[3]
            /\ connections' = connections \cup {c} /\ conn' = [conn EXCEPT ![c] = e.k]
            /\ RearmAccept(e, ~Head(cq).more, r[2])
    BY <1>5 DEF AcceptedConnection
  <1>12. stopping => stopping'
    BY <1>1, <1>11, ReadsGrow
  <1> HIDE DEF d
  <1>13. /\ e \in Contexts /\ e.fd = c /\ SameInput(Zeroed, e.k)
    BY <1>10, PreparedKeeps
  <1>14. ASSUME NEW b \in Fds
         PROVE  Send(b) \in sq' \cup kernel' <=> Send(b) \in sq \cup kernel
    <2>1. Send(b) \in e.sq \cup e.kernel <=> Send(b) \in d.sq \cup d.kernel
      <3>1. Send(b) # Receive(c)
        BY OperationNames
      <3>2. e.sq \cup e.kernel = d.sq \cup d.kernel \cup {Receive(c)}
        <4>1. ASSUME NEW j
              PROVE  LET f == [GetSqe(d, Receive(c)) EXCEPT !.k = j]
                     IN f.sq \cup f.kernel = d.sq \cup d.kernel \cup {Receive(c)}
          <5>1. CASE Cardinality(d.sq) < QueueDepth
            BY <1>10, <5>1 DEF GetSqe, Contexts
          <5>2. CASE ~(Cardinality(d.sq) < QueueDepth)
            BY <1>10, <5>2 DEF GetSqe, Contexts
          <5>3. QED
            BY <5>1, <5>2
        <4>2. QED
          BY <1>10, <4>1 DEF SubmitReceive
      <3>3. QED
        BY <3>1, <3>2
    <2>2. Send(b) \in sq' \cup kernel' <=> Send(b) \in e.sq \cup e.kernel
      <3>1. e.sq \subseteq Operations /\ e.kernel \subseteq Operations
        BY <1>13 DEF Contexts
      <3> HIDE DEF e
      <3>2. QED
        BY <1>11, <1>13, <3>1, RearmAcceptSends
    <2>3. QED
      BY <1>10, <2>1, <2>2
  <1> HIDE DEF e
  <1>15. \A b \in Fds \ {c} : conn'[b] = conn[b] /\ (b \in connections' <=> b \in connections)
    BY <1>1, <1>11 DEF TypeOK
  <1>16. conn'[c] = e.k /\ c \in connections'
    BY <1>1, <1>11 DEF TypeOK
  <1>17. \A b \in Fds : Head(cq).op # Receive(b)
    BY <1>3, OperationNames
  <1>18. PeersWithin' /\ EofsSeen' /\ NewPeersSilent'
    BY <1>2, TailSilent
  <1>19. Told(c, peer'[c], wire'[c], conn'[c], cq', c \in connections',
              Send(c) \in sq' \cup kernel', stopping')
    <2>1. PICK p, q, live, out, stop :
             /\ p = peer'[c] /\ q = cq' /\ live = (c \in connections')
             /\ out = (Send(c) \in sq' \cup kernel') /\ stop = stopping'
      OBVIOUS
    <2>2. wire'[c] = <<>> /\ p \in Peers /\ p.position = 0
      BY <1>1, <1>2, <1>7, <2>1 DEF TypeOK
    <2>3. e.k.input = <<>> /\ ~e.k.sending
      BY <1>9, <1>13 DEF SameInput
    <2>4. ~out
      BY <1>8, <1>14, <2>1 DEF Outstanding
    <2>5. q \in Seq(Cqes)
      BY <1>1, <1>2, <2>1, HeadTailProperties
    <2>6. ASSUME NEW n \in 1..Len(q)
          PROVE  ~IsData(q[n], c) /\ q[n].op # Send(c)
      <3>1. /\ Len(cq) \in Nat /\ DOMAIN cq = 1..Len(cq) /\ Len(q) = Len(cq) - 1
            /\ \A m \in 1..Len(q) : q[m] = cq[m + 1]
        BY <1>1, <1>2, <2>1, HeadTailProperties, LenProperties
      <3>2. n + 1 \in DOMAIN cq /\ q[n] = cq[n + 1]
        BY <3>1
      <3>3. Outstanding(cq[n + 1].op)
        <4>1. cq[n + 1].op \in Operations
          BY <1>1, <3>2, QueuedCqes
        <4>2. QED
          BY <1>1, <3>2 DEF Outstanding, Ended, CompletionsAreExclusive
      <3>4. QED
        BY <1>8, <3>2, <3>3 DEF IsData
    <2>7. Told(c, p, <<>>, e.k, q, live, out, stop)
      BY <2>2, <2>3, <2>4, <2>5, <2>6, ToldNew
    <2>8. QED
      BY <1>16, <2>1, <2>2, <2>7
  <1>20. DialoguesTold'
    <2>1. ASSUME NEW b \in Fds \ {c}
          PROVE  Told(b, peer'[b], wire'[b], conn'[b], cq', b \in connections',
                      Send(b) \in sq' \cup kernel', stopping')
      BY <1>2, <1>12, <1>14, <1>15, <1>17, ToldOthers
    <2>2. QED
      BY <1>19, <2>1 DEF DialoguesTold
  <1>21. ConnectionsHushed'
    <2>1. Hushed(conn'[c], peer'[c])
      BY <1>9, <1>13, <1>16 DEF Hushed, SameInput
    <2>2. \A b \in connections' \ {c} : b \in connections /\ conn'[b] = conn[b]
      BY <1>1, <1>11, <1>15 DEF TypeOK
    <2>3. QED
      BY <1>2, <2>1, <2>2 DEF WireInv, ConnectionsHushed
  <1>22. QED
    BY <1>18, <1>20, <1>21 DEF WireInv

\* main's steps and the signal add no unit, no line and no CQE.
LEMMA MainTells ==
    ASSUME IInv, WireInv, Main \/ SubmitInterrupted \/ OnSignal \/ UNCHANGED vars
    PROVE  WireInv'
  <1>1. TypeOK /\ conn \in [Fds -> Connection] /\ connections \subseteq Fds
    BY DEF IInv, TypeOK
  <1>2. cq' = cq /\ peer' = peer /\ wire' = wire /\ connections' = connections /\ (stopping => stopping')
    <2>1. CASE Main
      <3>1. CASE StartShutdown
        BY <3>1 DEF StartShutdown, network
      <3>2. CASE Submit
        BY <3>2 DEF Submit, network
      <3>3. CASE WaitTimedOut \/ BatchReaped \/ Exit
        BY <3>3 DEF WaitTimedOut, BatchReaped, Exit, network
      <3>4. QED
        BY <2>1, <3>1, <3>2, <3>3 DEF Main
    <2>2. CASE SubmitInterrupted
      BY <2>2 DEF SubmitInterrupted, network
    <2>3. CASE OnSignal
      BY <2>3 DEF OnSignal, network
    <2>4. CASE UNCHANGED vars
      BY <2>4 DEF vars
    <2>5. QED
      BY <2>1, <2>2, <2>3, <2>4
  <1>3. ASSUME NEW b \in Fds
        PROVE  /\ SameInput(conn[b], conn'[b]) /\ conn'[b].receive_active = conn[b].receive_active
               /\ Send(b) \in sq' \cup kernel' <=> Send(b) \in sq \cup kernel
    <2>1. CASE StartShutdown
      <3>1. conn'[b] = conn[b]
            \/ conn'[b] = [conn[b] EXCEPT !.cancel_pending = TRUE, !.references = @ + 1]
        BY <2>1 DEF StartShutdown
      <3>2. conn[b] \in Connection
        BY <1>1
      <3>3. /\ SameInput(conn[b], conn'[b]) /\ conn'[b].receive_active = conn[b].receive_active
        BY <3>1, <3>2, CancellingConnection DEF SameInput
      <3>4. Send(b) # AcceptCancel /\ \A c \in connections : Send(b) # Cancel(c)
        BY <1>1, OperationNames DEF Send, Cancel
      <3>5. Send(b) \in sq' \cup kernel' <=> Send(b) \in sq \cup kernel
        BY <2>1, <3>4 DEF StartShutdown, Cancellable
      <3>6. QED
        BY <3>3, <3>5
    <2>2. CASE ~StartShutdown
      <3>1. conn' = conn /\ sq' \cup kernel' = sq \cup kernel
        BY <2>2 DEF Main, Submit, WaitTimedOut, BatchReaped, Exit, SubmitInterrupted, OnSignal, vars
      <3>2. QED
        BY <3>1 DEF SameInput
    <2>3. QED
      BY <2>1, <2>2
  <1>4. PeersWithin' /\ EofsSeen' /\ NewPeersSilent'
    BY <1>2 DEF WireInv, PeersWithin, EofsSeen, NewPeersSilent
  <1>5. ASSUME NEW b \in Fds
        PROVE  Told(b, peer'[b], wire'[b], conn'[b], cq', b \in connections',
                    Send(b) \in sq' \cup kernel', stopping')
    <2>1. PICK p, w, k, q, live, out, stop :
             /\ p = peer[b] /\ w = wire[b] /\ k = conn[b] /\ q = cq
             /\ live = (b \in connections) /\ out = (Send(b) \in sq \cup kernel) /\ stop = stopping
      OBVIOUS
    <2>2. PICK j, more : j = conn'[b] /\ more = stopping'
      OBVIOUS
    <2>3. Told(b, p, w, k, q, live, out, stop) /\ SameInput(k, j) /\ (stop => more)
      BY <1>2, <1>3, <2>1, <2>2, ToldBefore
    <2>4. Told(b, p, w, j, q, live, out, more)
      BY <2>3, ToldSame
    <2>5. /\ peer'[b] = p /\ wire'[b] = w /\ cq' = q /\ (b \in connections') = live
          /\ (Send(b) \in sq' \cup kernel') = out
      BY <1>2, <1>3, <2>1
    <2>6. QED
      BY <2>2, <2>4, <2>5
  <1>6. DialoguesTold'
    BY <1>5 DEF DialoguesTold
  <1>7. ConnectionsHushed'
    BY <1>1, <1>2, <1>3 DEF WireInv, ConnectionsHushed, Hushed, SameInput
  <1>8. QED
    BY <1>4, <1>6, <1>7 DEF WireInv

\* The next units of the last reply, after the first `sent' of them.
UnitsFollow(w, replies, units, sent) ==
    /\ replies \in Seq(Replies) /\ OnWire(w, replies) /\ Len(replies) > 0
    /\ sent \in Nat /\ Len(w) = ReplyLength * (Len(replies) - 1) + sent
    /\ sent + Len(units) <= ReplyLength
    /\ \A i \in 1..Len(units) : units[i] = <<replies[Len(replies)], sent + i>>

LEMMA UnitsSent ==
    ASSUME NEW S, NEW w \in Seq(S), NEW replies, NEW units \in Seq(S), NEW sent,
           UnitsFollow(w, replies, units, sent)
    PROVE  OnWire(w \o units, replies) /\ Len(w \o units) = Len(w) + Len(units)
  <1> DEFINE output == replies[Len(replies)]
             n == Len(units)
  <1>0. /\ replies \in Seq(Replies) /\ OnWire(w, replies) /\ Len(replies) > 0
        /\ sent \in Nat /\ Len(w) = ReplyLength * (Len(replies) - 1) + sent
        /\ sent + n <= ReplyLength /\ n \in Nat
        /\ \A i \in 1..n : units[i] = <<output, sent + i>>
    BY LenProperties DEF UnitsFollow
  <1> HIDE DEF n
  <1>1. /\ ReplyLength \in Nat \ {0} /\ Len(replies) \in Nat /\ Len(w) \in Nat /\ Len(units) = n
    BY <1>0, WorkerAssumption, LenProperties DEF n
  <1>2. PICK a \in Nat : a = Len(replies) - 1
    <2>1. \A l \in Nat : l > 0 => l - 1 \in Nat
      BY <1>0
    <2>2. Len(replies) - 1 \in Nat
      BY <1>0, <1>1, <2>1
    <2>3. QED
      BY <1>0, <2>2
  <1>3. /\ Len(w \o units) = Len(w) + n
        /\ \A m \in 1..(Len(w) + n) : (w \o units)[m] = IF m <= Len(w) THEN w[m] ELSE units[m - Len(w)]
    BY <1>0, <1>1, ConcatProperties
  <1> DEFINE all == w \o units
  <1> HIDE DEF all
  <1>4. ASSUME NEW m \in 1..(Len(w) + n)
        PROVE  /\ ((m - 1) \div ReplyLength) + 1 \in 1..Len(replies)
               /\ all[m] = <<replies[((m - 1) \div ReplyLength) + 1], ((m - 1) % ReplyLength) + 1>>
    <2>1. CASE m <= Len(w)
      <3>1. m \in 1..Len(w) /\ all[m] = w[m]
        BY <1>0, <1>1, <1>3, <2>1 DEF all
      <3>2. QED
        BY <1>0, <3>1 DEF OnWire
    <2>2. CASE ~(m <= Len(w))
      <3>1. PICK j \in 1..n : j = m - Len(w)
        <4>1. \A l \in Nat : \A i \in 1..(l + n) : ~(i <= l) => i - l \in 1..n
          BY <1>0
        <4>2. m - Len(w) \in 1..n
          BY <1>0, <1>1, <2>2, <4>1
        <4>3. QED
          BY <1>0, <4>2
      <3>2. all[m] = units[j]
        BY <1>0, <1>3, <2>2, <3>1 DEF all
      <3>3. all[m] = <<output, sent + j>>
        BY <1>0, <3>2
      <3>4. PICK r \in 0..(ReplyLength - 1) : r = sent + j - 1
        BY <1>0, <1>1
      <3>5. m - 1 = ReplyLength * a + r
        <4>1. PICK x \in Int : x = ReplyLength * a
          BY <1>0, <1>1, <1>2
        <4>2. Len(w) = x + sent
          BY <1>0, <1>2, <4>1
        <4>3. m - 1 = x + r
          <5>1. \A l, i \in Int : j = i - l /\ l = x + sent => i - 1 = x + (sent + j - 1)
            BY <1>0
          <5>2. Len(w) \in Int /\ m \in Int
            BY <1>0, <1>1
          <5>3. m - 1 = x + (sent + j - 1)
            BY <1>0, <3>1, <4>2, <5>1, <5>2
          <5>4. QED
            BY <1>0, <3>4, <5>3
        <4>4. QED
          BY <1>0, <4>1, <4>3
      <3>6. (m - 1) \div ReplyLength = a /\ (m - 1) % ReplyLength = r
        BY <1>0, <1>1, <3>5, DivisionIsUnique
      <3>7. a + 1 = Len(replies) /\ r + 1 = sent + j
        BY <1>0, <1>1, <1>2, <3>4
      <3>8. QED
        <4>1. ((m - 1) \div ReplyLength) + 1 = Len(replies)
          BY <3>6, <3>7
        <4>2. ((m - 1) % ReplyLength) + 1 = sent + j
          BY <3>6, <3>7
        <4>3. Len(replies) \in 1..Len(replies)
          BY <1>0, <1>1
        <4>4. QED
          BY <3>3, <4>1, <4>2, <4>3
    <2>3. QED
      BY <1>0, <2>1, <2>2
  <1>5. OnWire(all, replies)
    BY <1>0, <1>3, <1>4 DEF OnWire, all
  <1>6. QED
    BY <1>0, <1>3, <1>5 DEF all, n

LEMMA ToldSent ==
    ASSUME NEW c \in Fds, NEW p \in Peers, p.position <= Len(p.script), NEW S, NEW w \in Seq(S),
           NEW k \in Connection, k.sending, NEW q \in Seq(Cqes), NEW stop,
           Told(c, p, w, k, q, TRUE, TRUE, stop),
           \A m \in 1..Len(q) : q[m].op # Send(c),
           NEW n \in Nat, k.sent + n <= ReplyLength,
           NEW cqe \in Cqes, cqe.op = Send(c), cqe.count = n,
           NEW units \in Seq(S), Len(units) = n,
           \A i \in 1..n : units[i] = <<k.output, k.sent + i>>
    PROVE  Told(c, p, w \o units, k, Append(q, cqe), TRUE, FALSE, stop)
  <1>1. PICK replies \in Seq(Replies) :
           /\ Dialogue(Heard(p), p.closed, replies)
           /\ OnWire(w, replies)
           /\ SendLane(c, k, w, q, TRUE, replies)
           /\ ~stop /\ ~k.failed /\ ~k.close_after_send => ReceiveLane(c, p, k, q, replies)
    BY DEF Told
  <1>2. /\ Len(replies) > 0 /\ k.output = replies[Len(replies)]
        /\ Len(w) = ReplyLength * (Len(replies) - 1) + k.sent
    BY <1>1 DEF SendLane
  <1>3. k.sent \in Nat
    BY DEF Connection
  <1>4. OnWire(w \o units, replies) /\ Len(w \o units) = Len(w) + n
    <2>1. UnitsFollow(w, replies, units, k.sent)
      BY <1>1, <1>2, <1>3 DEF UnitsFollow
    <2>2. QED
      BY <2>1, UnitsSent
  <1>5. SendLane(c, k, w \o units, Append(q, cqe), FALSE, replies)
    <2>1. /\ Len(q) \in Nat /\ Len(Append(q, cqe)) = Len(q) + 1
          /\ Append(q, cqe)[Len(q) + 1] = cqe
          /\ \A m \in 1..Len(q) : Append(q, cqe)[m] = q[m]
      BY AppendProperties, LenProperties
    <2>2. \A m \in 1..(Len(q) + 1) : m \in 1..Len(q) \/ m = Len(q) + 1
      BY <2>1
    <2>3. \A m \in 1..Len(Append(q, cqe)) :
              Append(q, cqe)[m].op = Send(c) => Append(q, cqe)[m] = cqe
      BY <2>1, <2>2
    <2>4. Len(w \o units) = ReplyLength * (Len(replies) - 1) + k.sent + n
      BY <1>2, <1>4
    <2>5. QED
      BY <1>2, <2>3, <2>4 DEF SendLane
  <1>6. ReceiveLane(c, p, k, q, replies) => ReceiveLane(c, p, k, Append(q, cqe), replies)
    <2>1. Heard(p) \in Seq(Line) /\ k.input \in Seq(Line)
      BY HeardLines DEF Connection
    <2>2. ~IsData(cqe, c)
      BY OperationNames DEF IsData
    <2>3. QED
      BY <2>1, <2>2, FeedsPosted DEF ReceiveLane
  <1>7. QED
    BY <1>1, <1>4, <1>5, <1>6 DEF Told

\* A CQE is posted: the dialogue of a peer it says nothing about, ...
LEMMA ToldUntouched ==
    ASSUME IInv, WireInv, NEW cqe \in Cqes, Post(cqe), UNCHANGED worker, NEW b \in Fds,
           peer'[b] = peer[b], wire'[b] = wire[b], ~IsData(cqe, b),
           b \in connections /\ cqe.op = Send(b) => Send(b) \in sq \cup kernel /\ cqe.count = 0,
           Send(b) \in sq' \cup kernel' => Send(b) \in sq \cup kernel
    PROVE  Told(b, peer'[b], wire'[b], conn'[b], cq', b \in connections',
                Send(b) \in sq' \cup kernel', stopping')
  <1>1. PICK p, w, k, q, live, out, stop :
           /\ p = peer[b] /\ w = wire[b] /\ k = conn[b] /\ q = cq
           /\ live = (b \in connections) /\ out = (Send(b) \in sq \cup kernel) /\ stop = stopping
    OBVIOUS
  <1>2. PICK now : now = (Send(b) \in sq' \cup kernel')
    OBVIOUS
  <1>3. /\ p \in Peers /\ p.position <= Len(p.script) /\ k \in Connection /\ q \in Seq(Cqes)
        /\ Told(b, p, w, k, q, live, out, stop)
    BY <1>1, ToldBefore
  <1>4. (now => out) /\ (live /\ cqe.op = Send(b) => out /\ cqe.count = 0)
    BY <1>1, <1>2
  <1>5. Told(b, p, w, k, Append(q, cqe), live, now, stop)
    BY <1>3, <1>4, ToldPosted
  <1>6. /\ peer'[b] = p /\ wire'[b] = w /\ conn'[b] = k /\ cq' = Append(q, cqe) /\ stopping' = stop
        /\ (b \in connections') = live
    BY <1>1 DEF Post, worker
  <1>7. QED
    BY <1>2, <1>5, <1>6

\* ... and the invariant, when the dialogues are in order.
LEMMA PostedTells ==
    ASSUME IInv, WireInv, NEW cqe \in Cqes, Post(cqe), UNCHANGED worker,
           DialoguesTold', PeersWithin',
           \A b \in connections : peer[b].closed => peer'[b].closed,
           \A b \in open \ connections : peer'[b] = peer[b] /\ wire'[b] = wire[b],
           cqe.res = "eof" => ~cqe.more /\ \A b \in Fds : cqe.op = Receive(b) => peer'[b].closed,
           \A b \in Fds : cqe.fd = b =>
               wire'[b] = <<>> /\ peer'[b].position = 0 /\ ~peer'[b].closed
    PROVE  WireInv'
  <1>1. /\ TypeOK /\ ReferencesMatchOperations /\ DescriptorsAccounted /\ cq \in Seq(Cqes)
        /\ EofsSeen /\ NewPeersSilent /\ ConnectionsHushed
    BY DEF IInv, TypeOK, WireInv
  <1>2. connections' = connections /\ conn' = conn
    BY DEF worker
  <1>3. /\ DOMAIN cq' = DOMAIN cq \cup {Len(cq) + 1}
        /\ \A i \in DOMAIN cq : cq'[i] = cq[i]
        /\ cq'[Len(cq) + 1] = cqe
    BY <1>1, AppendQueue
  <1>4. EofsSeen'
    <2>1. ASSUME NEW i \in DOMAIN cq, cq[i].res = "eof"
          PROVE  ~cq[i].more /\ \A b \in Fds : cq[i].op = Receive(b) => peer'[b].closed
      <3>1. ~cq[i].more /\ \A b \in Fds : cq[i].op = Receive(b) => peer[b].closed
        BY <1>1, <2>1 DEF EofsSeen
      <3>2. \A b \in Fds : cq[i].op = Receive(b) => b \in connections
        BY <1>1, <3>1 DEF ReferencesMatchOperations, Outstanding, Ended
      <3>3. QED
        BY <3>1, <3>2
    <2>2. QED
      BY <1>3, <2>1 DEF EofsSeen
  <1>5. NewPeersSilent'
    <2>1. ASSUME NEW i \in DOMAIN cq, NEW b \in Fds, cq[i].fd = b
          PROVE  wire'[b] = <<>> /\ peer'[b].position = 0 /\ ~peer'[b].closed
      <3>1. b \in open \ connections
        BY <1>1, <2>1, WorkerAssumption DEF DescriptorsAccounted
      <3>2. QED
        BY <1>1, <2>1, <3>1 DEF NewPeersSilent
    <2>2. QED
      BY <1>3, <2>1 DEF NewPeersSilent
  <1>6. ConnectionsHushed'
    BY <1>1, <1>2 DEF ConnectionsHushed, Hushed
  <1>7. QED
    BY <1>4, <1>5, <1>6 DEF WireInv

\* A last CQE that brings nothing but its result.
LEMMA PlainTells ==
    ASSUME IInv, WireInv, NEW op \in kernel, NEW res \in {"ok", "error", "canceled"},
           Post(Cqe(op, res, FALSE)), Terminate(op), res = "ok" => op \in Cancels,
           UNCHANGED <<worker, sq, free, network>>
    PROVE  WireInv'
  <1> DEFINE cqe == Cqe(op, res, FALSE)
  <1>1. op \in Operations
    BY DEF IInv, TypeOK
  <1>2. cqe \in Cqes /\ cqe.op = op /\ cqe.res = res /\ ~cqe.more /\ cqe.fd = NULL /\ cqe.count = 0
    <2>1. res \in {"ok", "eof", "error", "canceled"}
      OBVIOUS
    <2> HIDE DEF Cqe
    <2>2. QED
      BY <1>1, <2>1, LastPlainCqe
  <1>3. Post(cqe)
    OBVIOUS
  <1> HIDE DEF cqe
  <1>4. /\ UNCHANGED worker /\ sq' = sq /\ peer' = peer /\ wire' = wire
        /\ kernel' \subseteq kernel
    BY DEF network, Terminate
  <1>5. \A b \in Fds : Receive(b) \notin Cancels
    BY OperationNames, Targets
  <1>6. ASSUME NEW b \in Fds
        PROVE  Told(b, peer'[b], wire'[b], conn'[b], cq', b \in connections',
                    Send(b) \in sq' \cup kernel', stopping')
    <2>1. ~IsData(cqe, b)
      BY <1>2, <1>5 DEF IsData
    <2>2. cqe.op = Send(b) => Send(b) \in sq \cup kernel /\ cqe.count = 0
      BY <1>2
    <2>3. QED
      BY <1>2, <1>3, <1>4, <2>1, <2>2, ToldUntouched
  <1>7. DialoguesTold' /\ PeersWithin'
    BY <1>4, <1>6 DEF DialoguesTold, WireInv, PeersWithin
  <1>8. cqe.res # "eof" /\ \A b \in Fds : cqe.fd # b
    BY <1>2, WorkerAssumption
  <1>9. QED
    BY <1>2, <1>3, <1>4, <1>7, <1>8, PostedTells

LEMMA KernelFindsTargetTells ==
    ASSUME WireInv, NEW op, KernelFindsTarget(op) PROVE WireInv'
  <1>1. UNCHANGED <<connections, conn, stopping, sq, kernel, cq, peer, wire>>
    BY DEF KernelFindsTarget, worker, network
  <1>2. QED
    BY <1>1 DEF WireInv, PeersWithin, DialoguesTold, ConnectionsHushed, EofsSeen, NewPeersSilent

LEMMA KernelAcceptsTells ==
    ASSUME IInv, WireInv, NEW c \in Fds, KernelAccepts(c) PROVE WireInv'
  <1>1. /\ TypeOK /\ ReferencesMatchOperations /\ DescriptorsAccounted /\ CompletionsAreExclusive
        /\ cq \in Seq(Cqes) /\ CqesWellFormed
    BY DEF IInv, TypeOK
  <1>2. PICK more \in MayContinue(TRUE), script \in Scripts :
           /\ Post([Cqe(AcceptOperation, "ok", more) EXCEPT !.fd = c])
           /\ EndUnlessMore(AcceptOperation, more)
           /\ peer' = [peer EXCEPT ![c] = [NoPeer EXCEPT !.script = script]]
    BY DEF KernelAccepts
  <1>3. more \in BOOLEAN
    BY DEF MayContinue
  <1> DEFINE plain == Cqe(AcceptOperation, "ok", more)
             cqe == [plain EXCEPT !.fd = c]
             p == [NoPeer EXCEPT !.script = script]
  <1>4. plain \in Cqes /\ plain.op = AcceptOperation /\ plain.res = "ok"
    BY <1>3, PlainCqe, OperationNames
  <1>5. Post(cqe)
    BY <1>2
  <1> HIDE DEF plain
  <1>6. cqe \in Cqes /\ cqe.op = AcceptOperation /\ cqe.res = "ok" /\ cqe.fd = c
    BY <1>4 DEF Cqes
  <1> HIDE DEF cqe
  <1>7. p \in Peers /\ p.position = 0 /\ ~p.closed /\ p.script = script
    BY DEF NoPeer, Peers
  <1>8. peer' = [peer EXCEPT ![c] = p]
    BY <1>2
  <1> HIDE DEF p
  <1>9. /\ c \notin open /\ wire' = [wire EXCEPT ![c] = <<>>] /\ UNCHANGED worker /\ sq' = sq
        /\ kernel' \subseteq kernel
    BY <1>2 DEF KernelAccepts, EndUnlessMore, Terminate
  <1>10. c \notin connections
    BY <1>1, <1>9 DEF DescriptorsAccounted
  <1>11. /\ \A b \in Fds \ {c} : peer'[b] = peer[b] /\ wire'[b] = wire[b]
         /\ peer'[c] = p /\ wire'[c] = <<>>
    BY <1>1, <1>8, <1>9 DEF TypeOK
  <1>12. ~Outstanding(Receive(c)) /\ ~Outstanding(Send(c))
    BY <1>1, <1>10 DEF ReferencesMatchOperations
  <1>13. Told(c, peer'[c], wire'[c], conn'[c], cq', c \in connections',
              Send(c) \in sq' \cup kernel', stopping')
    <2>1. PICK q, out, stop, k, live :
             /\ q = cq' /\ out = (Send(c) \in sq' \cup kernel') /\ stop = stopping' /\ k = conn'[c]
             /\ live = (c \in connections')
      OBVIOUS
    <2>2. ~out /\ ~live
      BY <1>9, <1>10, <1>12, <2>1 DEF Outstanding, worker
    <2>3. /\ q \in Seq(Cqes) /\ DOMAIN q = DOMAIN cq \cup {Len(cq) + 1}
          /\ \A i \in DOMAIN cq : q[i] = cq[i]
          /\ q[Len(cq) + 1] = cqe
      BY <1>1, <1>5, <1>6, <2>1, AppendQueue
    <2>4. ASSUME NEW n \in 1..Len(q)
          PROVE  ~IsData(q[n], c) /\ q[n].op # Send(c)
      <3>1. n \in DOMAIN q
        BY <2>3, LenProperties
      <3>2. CASE n \in DOMAIN cq
        <4>1. Outstanding(cq[n].op)
          BY <1>1, <3>2, QueuedCqes DEF Outstanding, Ended, CompletionsAreExclusive
        <4>2. QED
          BY <1>12, <2>3, <3>2, <4>1 DEF IsData
      <3>3. CASE n = Len(cq) + 1
        BY <1>6, <2>3, <3>3, OperationNames DEF IsData
      <3>4. QED
        BY <2>3, <3>1, <3>2, <3>3
    <2>5. PICK j : j.input = <<>> /\ ~j.sending
      <3>1. Zeroed.input = <<>> /\ ~Zeroed.sending
        BY DEF Zeroed
      <3>2. QED
        BY <3>1
    <2>6. Told(c, p, <<>>, j, q, live, out, stop)
      BY <1>7, <2>2, <2>3, <2>4, <2>5, ToldNew
    <2>7. Told(c, p, <<>>, k, q, FALSE, out, stop)
      BY <2>6, ToldFreed
    <2>8. live = FALSE
      BY <2>1, <2>2
    <2>9. QED
      BY <1>11, <2>1, <2>7, <2>8
  <1>14. ASSUME NEW b \in Fds \ {c}
         PROVE  Told(b, peer'[b], wire'[b], conn'[b], cq', b \in connections',
                     Send(b) \in sq' \cup kernel', stopping')
    <2>1. ~IsData(cqe, b) /\ cqe.op # Send(b)
      BY <1>6, OperationNames DEF IsData
    <2>2. QED
      BY <1>5, <1>6, <1>9, <1>11, <2>1, ToldUntouched
  <1>15. DialoguesTold'
    BY <1>13, <1>14 DEF DialoguesTold
  <1>16. PeersWithin'
    <2>1. p.position <= Len(p.script)
      <3>1. p.script \in Seq(Line)
        BY <1>7, WorkerAssumption
      <3>2. QED
        BY <1>7, <3>1, LenProperties
    <2>2. QED
      BY <1>11, <2>1 DEF WireInv, PeersWithin
  <1>17. /\ cqe.res # "eof"
         /\ \A b \in Fds : cqe.fd = b =>
                wire'[b] = <<>> /\ peer'[b].position = 0 /\ ~peer'[b].closed
    BY <1>6, <1>7, <1>11
  <1>18. /\ \A b \in connections : peer[b].closed => peer'[b].closed
         /\ \A b \in open \ connections : peer'[b] = peer[b] /\ wire'[b] = wire[b]
    BY <1>1, <1>9, <1>10, <1>11 DEF TypeOK
  <1>19. QED
    BY <1>5, <1>6, <1>9, <1>15, <1>16, <1>17, <1>18, PostedTells

LEMMA KernelReceivesTells ==
    ASSUME IInv, WireInv, NEW c \in Fds, KernelReceives(c) PROVE WireInv'
  <1>1. /\ TypeOK /\ ReferencesMatchOperations /\ DescriptorsAccounted /\ cq \in Seq(Cqes)
    BY DEF IInv, TypeOK
  <1>2. PICK p \in Peers : p = peer[c]
    BY <1>1 DEF TypeOK
  <1> DEFINE left == Len(p.script) - p.position
  <1>3. /\ p.script \in Seq(Line) /\ p.position \in Nat /\ p.position <= Len(p.script)
        /\ Len(p.script) \in Nat
    BY <1>2, ToldBefore, HeardLines
  <1>4. PICK n \in Pieces(IF left < BufferSize THEN left ELSE BufferSize),
             buffer \in free, more \in MayContinue(Multishot) :
           /\ Post([Cqe(Receive(c), "ok", more) EXCEPT
                       !.buffer = buffer, !.data = SubSeq(p.script, p.position + 1, p.position + n)])
           /\ EndUnlessMore(Receive(c), more)
           /\ peer' = [peer EXCEPT ![c] = [p EXCEPT !.position = @ + n]]
    BY <1>2 DEF KernelReceives
  <1>5. more \in BOOLEAN /\ buffer \in Buffers
    BY <1>1, WorkerAssumption DEF MayContinue, TypeOK
  <1>6. n \in 0..left
    BY <1>3, WorkerAssumption DEF Pieces
  <1> DEFINE data == SubSeq(p.script, p.position + 1, p.position + n)
             r == [p EXCEPT !.position = @ + n]
             plain == Cqe(Receive(c), "ok", more)
             cqe == [plain EXCEPT !.buffer = buffer, !.data = data]
  <1>7. data \in Seq(Line) /\ r \in Peers /\ r.position <= Len(r.script) /\ r.closed = p.closed
    BY <1>3, <1>6, HeardMore
  <1> HIDE DEF data
  <1>8. /\ plain \in Cqes /\ plain.op = Receive(c) /\ plain.res = "ok" /\ plain.fd = NULL
    BY <1>5, PlainCqe, OperationNames
  <1>9. Post(cqe) /\ peer' = [peer EXCEPT ![c] = r]
    BY <1>4 DEF data
  <1> HIDE DEF plain, r
  <1>10. /\ cqe \in Cqes /\ cqe.op = Receive(c) /\ cqe.res = "ok" /\ cqe.fd = NULL /\ cqe.data = data
    BY <1>5, <1>7, <1>8 DEF Cqes
  <1> HIDE DEF cqe
  <1>11. /\ Receive(c) \in kernel /\ ~p.closed /\ UNCHANGED worker /\ sq' = sq /\ wire' = wire
         /\ kernel' = kernel \/ kernel' = kernel \ {Receive(c)}
    BY <1>2, <1>4 DEF KernelReceives, EndUnlessMore, Terminate
  <1>12. c \in connections
    BY <1>1, <1>11 DEF ReferencesMatchOperations, Outstanding
  <1>13. \A b \in Fds : Send(b) # Receive(c)
    BY OperationNames
  <1>14. peer'[c] = r /\ \A b \in Fds \ {c} : peer'[b] = peer[b]
    BY <1>1, <1>9 DEF TypeOK
  <1>15. Told(c, peer'[c], wire'[c], conn'[c], cq', c \in connections',
              Send(c) \in sq' \cup kernel', stopping')
    <2>1. PICK w, k, q, live, out, stop :
             /\ w = wire[c] /\ k = conn[c] /\ q = cq
             /\ live = (c \in connections) /\ out = (Send(c) \in sq \cup kernel) /\ stop = stopping
      OBVIOUS
    <2>2. k \in Connection /\ q \in Seq(Cqes) /\ Told(c, p, w, k, q, live, out, stop)
      BY <1>2, <2>1, ToldBefore
    <2>3. IsData(cqe, c) /\ cqe.op # Send(c)
      BY <1>10, <1>13 DEF IsData
    <2>4. cqe.data = SubSeq(p.script, p.position + 1, p.position + n)
      BY <1>10 DEF data
    <2>5. Told(c, [p EXCEPT !.position = @ + n], w, k, Append(q, cqe), live, out, stop)
      BY <1>3, <1>6, <1>10, <1>11, <2>2, <2>3, <2>4, ToldReceived
    <2>6. Told(c, r, w, k, Append(q, cqe), live, out, stop)
      BY <2>5 DEF r
    <2>7. /\ wire'[c] = w /\ conn'[c] = k /\ cq' = Append(q, cqe) /\ stopping' = stop
          /\ (c \in connections') = live
      BY <1>9, <1>11, <2>1 DEF Post, worker
    <2>8. (Send(c) \in sq' \cup kernel') = out
      BY <1>11, <1>13, <2>1
    <2>9. QED
      BY <1>14, <2>6, <2>7, <2>8
  <1>16. ASSUME NEW b \in Fds \ {c}
         PROVE  Told(b, peer'[b], wire'[b], conn'[b], cq', b \in connections',
                     Send(b) \in sq' \cup kernel', stopping')
    <2>1. ~IsData(cqe, b) /\ cqe.op # Send(b)
      BY <1>10, OperationNames DEF IsData
    <2>2. Send(b) \in sq' \cup kernel' => Send(b) \in sq \cup kernel
      BY <1>11
    <2>3. QED
      BY <1>9, <1>10, <1>11, <1>14, <2>1, <2>2, ToldUntouched
  <1>17. DialoguesTold' /\ PeersWithin'
    BY <1>7, <1>14, <1>15, <1>16 DEF DialoguesTold, WireInv, PeersWithin, r
  <1>18. /\ cqe.res # "eof" /\ \A b \in Fds : cqe.fd # b
    BY <1>10, WorkerAssumption
  <1>19. /\ \A b \in connections : peer[b].closed => peer'[b].closed
         /\ \A b \in open \ connections : peer'[b] = peer[b] /\ wire'[b] = wire[b]
    BY <1>1, <1>2, <1>11, <1>12, <1>14 DEF TypeOK
  <1>20. QED
    BY <1>9, <1>10, <1>11, <1>17, <1>18, <1>19, PostedTells

LEMMA KernelReceivesEofTells ==
    ASSUME IInv, WireInv, NEW c \in Fds, KernelReceivesEof(c) PROVE WireInv'
  <1>1. /\ TypeOK /\ ReferencesMatchOperations /\ cq \in Seq(Cqes)
    BY DEF IInv, TypeOK
  <1>2. PICK p \in Peers : p = peer[c]
    BY <1>1 DEF TypeOK
  <1>3. PICK buffer \in free \cup {NULL} :
           Post([Cqe(Receive(c), "eof", FALSE) EXCEPT !.buffer = buffer])
    BY DEF KernelReceivesEof
  <1> DEFINE plain == Cqe(Receive(c), "eof", FALSE)
             cqe == [plain EXCEPT !.buffer = buffer]
             r == [p EXCEPT !.closed = TRUE]
  <1>4. /\ plain \in Cqes /\ plain.op = Receive(c) /\ plain.res = "eof" /\ ~plain.more
        /\ plain.fd = NULL /\ plain.count = 0
    <2>1. Receive(c) \in Operations
      BY OperationNames
    <2>2. QED
      BY <2>1, LastPlainCqe
  <1>5. Post(cqe)
    BY <1>3
  <1> HIDE DEF plain
  <1>6. /\ cqe \in Cqes /\ cqe.op = Receive(c) /\ cqe.res = "eof" /\ ~cqe.more /\ cqe.fd = NULL
    BY <1>1, <1>4 DEF Cqes, TypeOK
  <1> HIDE DEF cqe
  <1>7. r.closed /\ r.position = p.position /\ r.script = p.script
    BY DEF Peers
  <1>8. peer' = [peer EXCEPT ![c] = r]
    BY <1>2 DEF KernelReceivesEof
  <1>9. /\ Receive(c) \in kernel /\ UNCHANGED worker /\ sq' = sq /\ wire' = wire
        /\ kernel' = kernel \ {Receive(c)}
    BY DEF KernelReceivesEof, Terminate
  <1> HIDE DEF r
  <1>10. c \in connections
    BY <1>1, <1>9 DEF ReferencesMatchOperations, Outstanding
  <1>11. \A b \in Fds : Send(b) # Receive(c)
    BY OperationNames
  <1>12. peer'[c] = r /\ \A b \in Fds \ {c} : peer'[b] = peer[b]
    BY <1>1, <1>8 DEF TypeOK
  <1>13. Told(c, peer'[c], wire'[c], conn'[c], cq', c \in connections',
              Send(c) \in sq' \cup kernel', stopping')
    <2>1. PICK w, k, q, live, out, stop :
             /\ w = wire[c] /\ k = conn[c] /\ q = cq
             /\ live = (c \in connections) /\ out = (Send(c) \in sq \cup kernel) /\ stop = stopping
      OBVIOUS
    <2>2. /\ k \in Connection /\ q \in Seq(Cqes) /\ p.position <= Len(p.script)
          /\ Told(c, p, w, k, q, live, out, stop)
      BY <1>2, <2>1, ToldBefore
    <2>3. ~IsData(cqe, c) /\ cqe.op # Send(c)
      BY <1>6, <1>11 DEF IsData
    <2>4. Told(c, p, w, k, Append(q, cqe), live, out, stop)
      BY <1>6, <2>2, <2>3, ToldPosted
    <2>5. Told(c, r, w, k, Append(q, cqe), live, out, stop)
      BY <2>4, ToldClosed DEF r
    <2>6. /\ wire'[c] = w /\ conn'[c] = k /\ cq' = Append(q, cqe) /\ stopping' = stop
          /\ (c \in connections') = live
      BY <1>5, <1>9, <2>1 DEF Post, worker
    <2>7. (Send(c) \in sq' \cup kernel') = out
      BY <1>9, <1>11, <2>1
    <2>8. QED
      BY <1>12, <2>5, <2>6, <2>7
  <1>14. ASSUME NEW b \in Fds \ {c}
         PROVE  Told(b, peer'[b], wire'[b], conn'[b], cq', b \in connections',
                     Send(b) \in sq' \cup kernel', stopping')
    <2>1. ~IsData(cqe, b) /\ cqe.op # Send(b)
      BY <1>6, OperationNames DEF IsData
    <2>2. QED
      BY <1>5, <1>6, <1>9, <1>12, <2>1, ToldUntouched
  <1>15. DialoguesTold' /\ PeersWithin'
    BY <1>2, <1>7, <1>12, <1>13, <1>14 DEF DialoguesTold, WireInv, PeersWithin
  <1>16. /\ \A b \in Fds : cqe.op = Receive(b) => peer'[b].closed
         /\ \A b \in Fds : cqe.fd # b
    <2>1. \A b \in Fds : cqe.op = Receive(b) => b = c
      BY <1>6 DEF Receive
    <2>2. QED
      BY <1>6, <1>7, <1>12, <2>1, WorkerAssumption
  <1>17. /\ \A b \in connections : peer[b].closed => peer'[b].closed
         /\ \A b \in open \ connections : peer'[b] = peer[b] /\ wire'[b] = wire[b]
    BY <1>1, <1>7, <1>9, <1>10, <1>12 DEF TypeOK
  <1>18. QED
    BY <1>5, <1>6, <1>9, <1>15, <1>16, <1>17, PostedTells

LEMMA KernelSendsTells ==
    ASSUME IInv, WireInv, NEW c \in Fds, KernelSends(c) PROVE WireInv'
  <1>1. /\ TypeOK /\ ReferencesMatchOperations /\ CompletionsAreExclusive /\ CqesWellFormed
        /\ cq \in Seq(Cqes)
    BY DEF IInv, TypeOK
  <1>2. PICK k \in Connection : k = conn[c]
    BY <1>1 DEF TypeOK
  <1>3. PICK n \in Pieces(ReplyLength - k.sent) :
           /\ Post([Cqe(Send(c), "ok", FALSE) EXCEPT !.count = n])
           /\ wire' = [wire EXCEPT ![c] = @ \o [i \in 1..n |-> <<k.output, k.sent + i>>]]
    BY <1>2 DEF KernelSends
  <1>4. n \in Nat /\ k.sent + n <= ReplyLength /\ k.sent \in Nat /\ k.output \in Replies \cup {NULL}
    BY WorkerAssumption DEF Pieces, Connection
  <1> DEFINE Units == (Replies \cup {NULL}) \X Nat
             units == [i \in 1..n |-> <<k.output, k.sent + i>>]
             plain == Cqe(Send(c), "ok", FALSE)
             cqe == [plain EXCEPT !.count = n]
  <1>5. units \in Seq(Units) /\ Len(units) = n /\ \A i \in 1..n : units[i] = <<k.output, k.sent + i>>
    <2>1. \A i \in 1..n : <<k.output, k.sent + i>> \in Units
      BY <1>4
    <2> HIDE DEF Units
    <2>2. units \in Seq(Units)
      BY <1>4, <2>1, IsASeq
    <2>3. DOMAIN units = 1..n /\ \A i \in 1..n : units[i] = <<k.output, k.sent + i>>
      OBVIOUS
    <2> HIDE DEF units
    <2>4. Len(units) = n
      BY <1>4, <2>2, <2>3, LenProperties
    <2>5. QED
      BY <2>2, <2>3, <2>4
  <1>6. Post(cqe) /\ wire' = [wire EXCEPT ![c] = wire[c] \o units]
    BY <1>3
  <1>7. plain \in Cqes /\ plain.op = Send(c) /\ plain.res = "ok" /\ plain.fd = NULL
    <2>1. Send(c) \in Operations
      BY OperationNames
    <2>2. QED
      BY <2>1, LastPlainCqe
  <1> HIDE DEF plain, units
  <1>8. cqe \in Cqes /\ cqe.op = Send(c) /\ cqe.res = "ok" /\ cqe.fd = NULL /\ cqe.count = n
    BY <1>4, <1>7 DEF Cqes
  <1> HIDE DEF cqe
  <1>9. /\ Send(c) \in kernel /\ UNCHANGED worker /\ sq' = sq /\ peer' = peer
        /\ kernel' = kernel \ {Send(c)}
    BY DEF KernelSends, Terminate
  <1>10. wire \in [Fds -> Seq(Units)]
    BY <1>1 DEF TypeOK
  <1> HIDE DEF Units
  <1>11. wire'[c] = wire[c] \o units /\ \A b \in Fds \ {c} : wire'[b] = wire[b]
    BY <1>6, <1>10
  <1>12. c \in connections /\ k.sending
    BY <1>1, <1>2, <1>9 DEF ReferencesMatchOperations, Outstanding
  <1>13. Told(c, peer'[c], wire'[c], conn'[c], cq', c \in connections',
              Send(c) \in sq' \cup kernel', stopping')
    <2>1. PICK p, w, q, stop : p = peer[c] /\ w = wire[c] /\ q = cq /\ stop = stopping
      OBVIOUS
    <2>2. /\ p \in Peers /\ p.position <= Len(p.script) /\ q \in Seq(Cqes) /\ w \in Seq(Units)
          /\ Told(c, p, w, k, q, TRUE, TRUE, stop)
      <3>1. (c \in connections) = TRUE /\ (Send(c) \in sq \cup kernel) = TRUE
        BY <1>9, <1>12
      <3>2. QED
        BY <1>2, <1>10, <2>1, <3>1, ToldBefore
    <2>3. ASSUME NEW m \in 1..Len(q), q[m].op = Send(c) PROVE FALSE
      <3>1. m \in DOMAIN cq /\ cq[m].op = Send(c)
        BY <1>1, <2>1, <2>3, LenProperties
      <3>2. ~cq[m].more
        BY <1>1, <3>1, OperationNames DEF CqesWellFormed
      <3>3. Ended(Send(c)) /\ Send(c) \in Operations
        BY <3>1, <3>2, OperationNames DEF Ended
      <3>4. QED
        BY <1>1, <1>9, <3>3 DEF CompletionsAreExclusive
    <2>4. Told(c, p, w \o units, k, Append(q, cqe), TRUE, FALSE, stop)
      BY <1>4, <1>5, <1>8, <1>12, <2>2, <2>3, ToldSent
    <2>5. /\ peer'[c] = p /\ wire'[c] = w \o units /\ conn'[c] = k /\ cq' = Append(q, cqe)
          /\ stopping' = stop /\ (c \in connections') = TRUE
      BY <1>2, <1>6, <1>9, <1>11, <1>12, <2>1 DEF Post, worker
    <2>6. (Send(c) \in sq' \cup kernel') = FALSE
      BY <1>1, <1>9 DEF CompletionsAreExclusive
    <2>7. QED
      BY <2>4, <2>5, <2>6
  <1>14. ASSUME NEW b \in Fds \ {c}
         PROVE  Told(b, peer'[b], wire'[b], conn'[b], cq', b \in connections',
                     Send(b) \in sq' \cup kernel', stopping')
    <2>1. ~IsData(cqe, b) /\ cqe.op # Send(b)
      BY <1>8, OperationNames DEF IsData
    <2>2. QED
      BY <1>6, <1>8, <1>9, <1>11, <2>1, ToldUntouched
  <1>15. DialoguesTold' /\ PeersWithin'
    BY <1>9, <1>13, <1>14 DEF DialoguesTold, WireInv, PeersWithin
  <1>16. cqe.res # "eof" /\ \A b \in Fds : cqe.fd # b
    BY <1>8, WorkerAssumption
  <1>17. /\ \A b \in connections : peer[b].closed => peer'[b].closed
         /\ \A b \in open \ connections : peer'[b] = peer[b] /\ wire'[b] = wire[b]
    BY <1>1, <1>9, <1>11, <1>12 DEF TypeOK
  <1>18. QED
    BY <1>6, <1>8, <1>9, <1>15, <1>16, <1>17, PostedTells

LEMMA KernelTells ==
    ASSUME IInv, WireInv, Kernel PROVE WireInv'
  <1>1. TypeOK /\ DoomedInKernel
    BY DEF IInv
  <1>2. CASE KernelAcceptFails
    BY <1>2, PlainTells DEF KernelAcceptFails
  <1>3. ASSUME NEW c \in Fds, KernelReceiveFails(c) \/ KernelSendFails(c)
        PROVE  WireInv'
    BY <1>3, PlainTells DEF KernelReceiveFails, KernelSendFails
  <1>4. ASSUME NEW op, KernelEndsTarget(op)
        PROVE  WireInv'
    BY <1>1, <1>4, PlainTells DEF KernelEndsTarget, DoomedInKernel
  <1>5. ASSUME NEW op, KernelCancels(op)
        PROVE  WireInv'
    BY <1>5, PlainTells DEF KernelCancels
  <1>6. QED
    BY <1>2, <1>3, <1>4, <1>5, KernelAcceptsTells, KernelReceivesTells, KernelReceivesEofTells,
       KernelSendsTells, KernelFindsTargetTells DEF Kernel

LEMMA NextTells ==
    ASSUME IInv, WireInv, [Next]_vars PROVE WireInv'
  <1>1. CASE Complete
    BY <1>1, AcceptedConnectionTells, ListenerTells, CancelCompletedTells, ReceiveCompletedTells,
       SendCompletedTells DEF Complete
  <1>2. CASE Main \/ SubmitInterrupted \/ OnSignal \/ UNCHANGED vars
    BY <1>2, MainTells
  <1>3. CASE Kernel
    BY <1>3, KernelTells
  <1>4. QED
    BY <1>1, <1>2, <1>3 DEF Next, Terminated

LEMMA InitTells ==
    ASSUME Init PROVE WireInv
  <1>1. TypeOK /\ cq = <<>> /\ connections = {}
    BY InitIInv DEF IInv, Init
  <1>2. DOMAIN cq = {} /\ Len(cq) = 0
    BY <1>1, EmptySeq, LenProperties
  <1>3. \A c \in Fds : peer[c] \in Peers /\ peer[c].position = 0 /\ peer[c].script = <<>> /\ wire[c] = <<>>
    BY <1>1 DEF Init, NoPeer, TypeOK
  <1>4. ASSUME NEW c \in Fds
        PROVE  Told(c, peer[c], wire[c], conn[c], cq, c \in connections,
                    Send(c) \in sq \cup kernel, stopping)
    <2>1. PICK p, k, q, live, out, stop :
             /\ p = peer[c] /\ k = conn[c] /\ q = cq
             /\ live = (c \in connections) /\ out = (Send(c) \in sq \cup kernel) /\ stop = stopping
      OBVIOUS
    <2>2. /\ p \in Peers /\ p.position = 0 /\ k.input = <<>> /\ ~k.sending
          /\ q \in Seq(Cqes) /\ 1..Len(q) = {} /\ ~out
      BY <1>1, <1>2, <1>3, <2>1, OperationNames DEF Init, Zeroed, TypeOK
    <2>3. Told(c, p, <<>>, k, q, live, out, stop)
      BY <2>2, ToldNew
    <2>4. QED
      BY <1>3, <2>1, <2>3
  <1>5. DialoguesTold
    BY <1>4 DEF DialoguesTold
  <1>6. PeersWithin
    BY <1>3, EmptySeq DEF PeersWithin
  <1>7. QED
    BY <1>1, <1>2, <1>5, <1>6 DEF WireInv, ConnectionsHushed, EofsSeen, NewPeersSilent

\* What is on a wire are the replies to the requests that the worker heard: the
\* ones their grammar calls for, in the order of the requests, each whole and
\* once, over fragmented and pipelined input, paused receives and partial sends.
THEOREM RepliesFollowRequests == Spec => []WireCarriesReplies
  <1>1. Init => WireInv
    BY InitTells
  <1>2. IInv /\ WireInv /\ [Next]_vars => WireInv'
    BY NextTells
  <1>3. IInv /\ WireInv => WireCarriesReplies
    <2> SUFFICES ASSUME IInv, WireInv, NEW c \in Fds, NEW i \in DOMAIN wire[c]
                 PROVE  /\ ReplyAllowed(c, ((i - 1) \div ReplyLength) + 1, wire[c][i][1])
                        /\ wire[c][i][2] = ((i - 1) % ReplyLength) + 1
      BY DEF WireCarriesReplies
    <2>1. PICK p, w : p = peer[c] /\ w = wire[c]
      OBVIOUS
    <2>2. p \in Peers /\ p.position <= Len(p.script)
      BY <2>1, ToldBefore
    <2>3. PICK replies \in Seq(Replies) : Dialogue(Heard(p), p.closed, replies) /\ OnWire(w, replies)
      BY <2>1, ToldBefore DEF Told
    <2>4. Heard(p) \in Seq(Line) /\ Len(Heard(p)) = p.position /\ p.closed \in BOOLEAN
      BY <2>2, HeardLines
    <2>5. \A n \in 1..Len(replies) : Allowed(Answered(Heard(p)), Len(Heard(p)), p.closed, n, replies[n])
      BY <2>3, <2>4, DialogueAllowed
    <2>6. i \in 1..Len(w)
      BY <2>1, LenProperties DEF IInv, TypeOK
    <2>7. PICK n \in 1..Len(replies) :
             n = ((i - 1) \div ReplyLength) + 1 /\ w[i] = <<replies[n], ((i - 1) % ReplyLength) + 1>>
      BY <2>3, <2>6 DEF OnWire
    <2>8. Allowed(Answered(Heard(p)), p.position, p.closed, n, w[i][1])
      BY <2>4, <2>5, <2>7
    <2>9. ReplyAllowed(c, n, w[i][1])
      BY <2>1, <2>8 DEF ReplyAllowed, Heard
    <2>10. QED
      BY <2>1, <2>7, <2>9
  <1>4. QED
    BY <1>1, <1>2, <1>3, BookkeepingAgrees, PTL DEF Spec
=============================================================================
