----------------------------- MODULE TlsBioProofs -----------------------------
(***************************************************************************)
(* The worker over memory BIOs, for every number of descriptors and queue  *)
(* entries, every script, handshake, capacity and environment: references  *)
(* and flags agree with the operations outstanding, main leaves nothing    *)
(* behind, ciphertext reaches the socket in order, each unit once, what is *)
(* queued is bounded, no wakeup is lost, and each peer is told its         *)
(* handshake, its replies and close_notify in their order.                 *)
(***************************************************************************)
EXTENDS TlsBio, TlsWorkerProofs

-----------------------------------------------------------------------------
(* The inductive invariant.                                                *)

\* The write BIO takes everything: no write is left to be repeated.
Whole(s) ==
    /\ s.writing = NULL /\ Unwritten(s) = 0
    /\ s.steps <= Len(HandshakeSteps)

\* What is staged was produced, and not much more was.
Bounded(k, s) ==
    /\ k.staged <= s.written
    /\ s.written - k.staged <= WireCapacity + RecordUnits * RecordsPerCall

\* The results of an operation that are queued (one at most).
CqesOf(op) == {cq[i] : i \in {j \in DOMAIN cq : cq[j].op = op}}

\* OpenSSL takes what was fed, of what has arrived; a queued result is fed next.
Feeding(k, s, arrived, received) ==
    /\ s.fetched <= k.fed /\ k.fed <= arrived
    /\ \A cqe \in received : k.fed + cqe.count <= arrived

\* The units the worker knows to be sent.
Sendable(k) == k.staged - k.wire_length + k.wire_offset

\* The wire holds the units that were sent, and those of a result that is
\* queued; what is left of wire_output belongs to a send.
Staging(k, w, sent) ==
    /\ k.wire_offset <= k.wire_length /\ k.wire_length <= k.staged
    /\ ~k.output_active => k.wire_offset = k.wire_length
    /\ sent = {} => Len(w) = Sendable(k)
    /\ \A cqe \in sent :
          Len(w) = Sendable(k) + cqe.count /\ k.wire_offset + cqe.count <= k.wire_length

Flows(k, s, arrived, w, received, sent) ==
    /\ Bounded(k, s)
    /\ ~k.dead => Whole(s) /\ Feeding(k, s, arrived, received) /\ Staging(k, w, sent)

\* A connection that is not driven waits for its send, or for input.
Parked(k, s) ==
    IF s.written - k.staged > WireCapacity \/ k.phase = "draining"
    THEN k.output_active
    ELSE /\ k.input_active /\ NeedsInput(k, s) /\ s.fetched = k.fed /\ ~s.eof
         /\ s.written > k.staged => k.output_active

FlowsOk ==
    \A c \in connections :
        Flows(conn[c], ssl[c], socket[c].arrived, wire[c], CqesOf(Input(c)), CqesOf(Output(c)))

ParkedOk ==
    \A c \in connections : ~conn[c].dead /\ ~Driving(c) => Parked(conn[c], ssl[c])

InOrder(w) == \A i \in 1..Len(w) : w[i] = i

WiresOk ==
    /\ wire \in [Fds -> Seq(Nat)]
    /\ \A c \in connections : InOrder(wire[c])
    /\ \A c \in CqFds : wire[c] = <<>>

TasksOk == task.then \in {"none", "release", "accept"}

NoEpoll == EpollOp \notin Pending /\ CancelEpoll \notin Pending

ExitOk == pc = "exited" => ~Draining

BioInv == CoreInv /\ TasksOk /\ NoEpoll /\ ExitOk /\ FlowsOk /\ ParkedOk /\ WiresOk

-----------------------------------------------------------------------------
(* OpenSSL over memory BIOs.                                               *)

\* A call that produces nothing leaves this alone.
SameOutput(s, t) ==
    t.out = s.out /\ t.written = s.written /\ t.writing = s.writing /\ t.eof = s.eof

\* A record fits, and is written at once.
LEMMA ProduceWhole ==
    ASSUME NEW s \in Ssl, Whole(s), NEW bios, BiosOk(bios), NEW what \in Produced,
           s.written + RecordUnits <= bios.limit, bios.behind # "reset"
    PROVE  LET r == Produce(s, bios, what)
           IN /\ r.verdict = "ok" /\ Whole(r.s)
              /\ r.s.written = s.written + RecordUnits
              /\ r.s.steps = s.steps /\ r.s.eof = s.eof
<1> DEFINE out == Append(s.out, what)
           t == [s EXCEPT !.out = out, !.writing = what]
           n == s.written + RecordUnits
           u == [t EXCEPT !.written = n]
           v == [u EXCEPT !.writing = NULL]
           total == RecordUnits * Len(s.out)
<1>1. /\ s.out \in Seq(Produced) /\ s.written \in Nat /\ s.steps \in Nat
      /\ RecordUnits \in Nat /\ bios.limit \in Nat
  BY EngineAssumption DEF Ssl, BiosOk
<1>2. Len(s.out) \in Nat /\ out \in Seq(Produced) /\ Len(out) = Len(s.out) + 1
  BY <1>1, LenProperties, AppendProperties
<1>3. total \in Nat /\ RecordUnits * Len(out) = total + RecordUnits
  BY <1>2, UnitsProduced
<1>4. s.written = total
  <2>1. total - s.written = 0
    BY DEF Whole, Unwritten
  <2> HIDE DEF total
  <2>. QED  BY <2>1, <1>1, <1>3
<1> HIDE DEF out, total
<1>5. t \in Ssl /\ t.out = out /\ t.written = s.written /\ t.steps = s.steps /\ t.eof = s.eof
  BY <1>2 DEF Ssl
<1>6. Unwritten(t) = RecordUnits
  BY <1>1, <1>3, <1>4, <1>5 DEF Unwritten
<1>7. Min({Unwritten(t), bios.limit - t.written}) = RecordUnits
  <2>1. /\ RecordUnits \in Int /\ bios.limit - s.written \in Int
        /\ RecordUnits <= bios.limit - s.written
    BY <1>1
  <2>. QED  BY <2>1, <1>5, <1>6, MinOfTwo
<1> HIDE DEF t
<1>8. n \in Nat
  BY <1>1
<1>9. u = [t EXCEPT !.written = @ + Min({Unwritten(t), bios.limit - t.written})]
  BY <1>5, <1>7
<1> HIDE DEF n
<1>10. u \in Ssl /\ u.out = out /\ u.written = n /\ u.steps = s.steps /\ u.eof = s.eof
  BY <1>5, <1>8 DEF Ssl
<1>11. Unwritten(u) = 0
  BY <1>1, <1>3, <1>4, <1>10 DEF Unwritten, n
<1>12. Flush(t, bios) = Return("ok", v)
  BY <1>9, <1>11 DEF Flush
<1> HIDE DEF u
<1>13. /\ v.out = out /\ v.written = n /\ v.steps = s.steps /\ v.eof = s.eof /\ v.writing = NULL
  BY <1>10 DEF Ssl
<1>14. Unwritten(v) = 0
  BY <1>10, <1>11, <1>13 DEF Unwritten
<1> HIDE DEF v
<1>15. Whole(v)
  BY <1>13, <1>14 DEF Whole
<1>16. Produce(s, bios, what) = Return("ok", v)
  BY <1>12 DEF Produce, Whole, t, out
<1>. QED  BY <1>13, <1>15, <1>16 DEF Return, n

LEMMA WholeKept ==
    ASSUME NEW s, NEW t, Whole(s), SameOutput(s, t), t.steps <= Len(HandshakeSteps)
    PROVE  Whole(t)
  BY DEF Whole, SameOutput, Unwritten

LEMMA FetchOutput ==
    ASSUME NEW s \in Ssl, NEW bios, BiosOk(bios), s.fetched <= bios.available
    PROVE  SameOutput(s, Fetch(s, bios)) /\ Fetch(s, bios).steps = s.steps
<1> DEFINE f == Fetch(s, bios)
<1>1. f = [s EXCEPT !.fetched = f.fetched]
  BY FetchResult
<1> HIDE DEF f
<1>2. SameOutput(s, f) /\ f.steps = s.steps
  BY <1>1 DEF Ssl, SameOutput
<1>. QED  BY <1>2 DEF f

LEMMA ConsumeOutput ==
    ASSUME NEW s \in Ssl
    PROVE  /\ SameOutput(s, Consume(s)) /\ Consume(s).steps = s.steps
           /\ LET t == [Consume(s) EXCEPT !.steps = @ + 1]
              IN SameOutput(s, t) /\ t.steps = s.steps + 1
           /\ \A lines : LET t == [Consume(s) EXCEPT !.plain = lines]
                         IN SameOutput(s, t) /\ t.steps = s.steps
  BY DEF Consume, SameOutput, Ssl

LEMMA DeliverOutput ==
    ASSUME NEW s \in Ssl, NEW room
    PROVE  SameOutput(s, Deliver(s, room).s) /\ Deliver(s, room).s.steps = s.steps
<1> DEFINE rest == SubSeq(s.plain, Min({room, Len(s.plain)}) + 1, Len(s.plain))
           t == [s EXCEPT !.plain = rest]
<1>1. Deliver(s, room).s = t
  BY DEF Deliver
<1> HIDE DEF rest
<1>2. SameOutput(s, t) /\ t.steps = s.steps
  BY DEF SameOutput, Ssl
<1>. QED  BY <1>1, <1>2

LEMMA SslReadOutput ==
    ASSUME NEW s \in Ssl, NEW bios, BiosOk(bios), s.fetched <= bios.available, NEW room
    PROVE  LET r == SslRead(s, bios, room)
           IN SameOutput(s, r.s) /\ r.s.steps = s.steps
<1>1. CASE s.plain # <<>>
  BY <1>1, DeliverOutput DEF SslRead
<1>2. CASE s.plain = <<>>
  <2> DEFINE f == Fetch(s, bios)
             r == ReadRecord(f, bios, room)
             record == NextRecord(f, bios)
             t == [Consume(f) EXCEPT !.plain = record.lines]
  <2>1. /\ f \in Ssl /\ f.fetched <= bios.available /\ SameOutput(s, f) /\ f.steps = s.steps
    BY FetchResult, FetchOutput
  <2>2. SslRead(s, bios, room) = r
    BY <1>2 DEF SslRead
  <2> HIDE DEF f
  <2>3. SameOutput(f, f)
    BY DEF SameOutput
  <2>4. SameOutput(f, r.s) /\ r.s.steps = f.steps
    <3>1. CASE ~HasRecord(f)
      <4>1. r.s = f
        BY <3>1 DEF ReadRecord, Starved, Return
      <4>. QED  BY <4>1, <2>3
    <3>2. CASE HasRecord(f)
      <4>1. record \in PeerRecord
        BY <3>2, <2>1, RecordOfScript
      <4>2. record.kind \in {"flight", "data", "close_notify"} /\ record.lines \in Seq(Line)
        BY <4>1, EmptySeq DEF PeerRecord
      <4>3. r.s \in {Deliver(t, room).s, Consume(f), f}
        BY <3>2, <4>2 DEF ReadRecord, Return
      <4>4. /\ SameOutput(f, t) /\ t.steps = f.steps /\ t \in Ssl
            /\ SameOutput(f, Consume(f)) /\ Consume(f).steps = f.steps
        BY <2>1, <4>2, ConsumeOutput, ConsumeType
      <4> HIDE DEF t, r
      <4>5. SameOutput(t, Deliver(t, room).s) /\ Deliver(t, room).s.steps = t.steps
        BY <4>4, DeliverOutput
      <4>. QED  BY <2>3, <4>3, <4>4, <4>5 DEF SameOutput
    <3>. QED  BY <3>1, <3>2
  <2> HIDE DEF r
  <2>. QED  BY <2>1, <2>2, <2>4 DEF SameOutput
<1>. QED  BY <1>1, <1>2

-----------------------------------------------------------------------------
(* A handshake produces no more flights than it has.                       *)

\* The flights that are still to be written after the first n steps.
WritesAfter(n) == {i \in DOMAIN HandshakeSteps : i > n /\ HandshakeSteps[i] = "write"}
Left(n) == Cardinality(WritesAfter(n))

LEMMA StepsCounted == Len(HandshakeSteps) \in Nat
  BY LenProperties, EngineAssumption

LEMMA LeftCounts ==
    /\ Len(HandshakeSteps) \in Nat /\ Flights \in Nat
    /\ \A n \in Nat : Left(n) \in Nat /\ Left(n) <= Flights /\ Left(n) <= Len(HandshakeSteps)
    /\ \A n \in Nat : n < Len(HandshakeSteps) =>
          Left(n) = Left(n + 1) + (IF HandshakeSteps[n + 1] = "read" THEN 0 ELSE 1)
<1> DEFINE all == {i \in DOMAIN HandshakeSteps : HandshakeSteps[i] = "write"}
<1>1. /\ HandshakeSteps \in Seq({"read", "write"}) /\ Len(HandshakeSteps) \in Nat
      /\ DOMAIN HandshakeSteps = 1..Len(HandshakeSteps)
      /\ \A i \in DOMAIN HandshakeSteps : HandshakeSteps[i] \in {"read", "write"}
  BY EngineAssumption, LenProperties, ElementOfSeq
<1> DEFINE steps == DOMAIN HandshakeSteps
<1>2. IsFiniteSet(steps) /\ Cardinality(steps) = Len(HandshakeSteps)
  <2>1. IsFiniteSet(1..Len(HandshakeSteps))
    BY <1>1, FS_Interval
  <2>2. Cardinality(1..Len(HandshakeSteps)) = Len(HandshakeSteps)
    <3>1. ASSUME NEW n \in Nat PROVE Cardinality(1..n) = n
      BY FS_Interval
    <3>. QED  BY <1>1, <3>1
  <2>. QED  BY <1>1, <2>1, <2>2
<1>3. IsFiniteSet(all) /\ Cardinality(all) \in Nat /\ Flights = Cardinality(all)
  BY <1>2, FS_Subset, FS_CardinalityType DEF Flights
<1>4. ASSUME NEW n \in Nat
      PROVE  IsFiniteSet(WritesAfter(n)) /\ Left(n) \in Nat /\ Left(n) <= Flights
             /\ Left(n) <= Len(HandshakeSteps)
  <2>1. WritesAfter(n) \in SUBSET all /\ WritesAfter(n) \in SUBSET steps
    BY DEF WritesAfter
  <2> HIDE DEF all, steps
  <2>. QED  BY <1>2, <1>3, <2>1, FS_Subset, FS_CardinalityType DEF Left
<1>5. ASSUME NEW n \in Nat, n < Len(HandshakeSteps)
      PROVE  Left(n) = Left(n + 1) + (IF HandshakeSteps[n + 1] = "read" THEN 0 ELSE 1)
  <2>1. n + 1 \in DOMAIN HandshakeSteps /\ n + 1 \in Nat
    BY <1>1, <1>5
  <2>2. IsFiniteSet(WritesAfter(n + 1)) /\ Left(n + 1) \in Nat
    BY <1>4, <2>1
  <2>3. n + 1 \notin WritesAfter(n + 1)
    BY DEF WritesAfter
  <2>4. CASE HandshakeSteps[n + 1] = "read"
    <3>1. WritesAfter(n) = WritesAfter(n + 1)
      BY <1>1, <2>1, <2>4 DEF WritesAfter
    <3>. QED  BY <2>2, <2>4, <3>1 DEF Left
  <2>5. CASE HandshakeSteps[n + 1] # "read"
    <3>1. HandshakeSteps[n + 1] = "write"
      BY <1>1, <2>1, <2>5
    <3>2. WritesAfter(n) = WritesAfter(n + 1) \cup {n + 1}
      BY <1>1, <2>1, <3>1 DEF WritesAfter
    <3>. QED  BY <2>2, <2>3, <2>5, <3>2, FS_AddElement DEF Left
  <2>. QED  BY <2>4, <2>5
<1>. QED  BY <1>1, <1>3, <1>4, <1>5

\* From s to t flights were written, no more than were left.
Progress(s, t) ==
    /\ Whole(t) /\ t.eof = s.eof /\ s.written <= t.written
    /\ t.written + RecordUnits * Left(t.steps) <= s.written + RecordUnits * Left(s.steps)

\* As many units as a call of OpenSSL may produce at most can be written.
Fits(s, bios) ==
    /\ Whole(s) /\ bios.behind # "reset"
    /\ s.written + RecordUnits * Left(s.steps) <= bios.limit

LEMMA UnitsOrdered ==
    ASSUME NEW m \in Nat, NEW n \in Nat, m <= n
    PROVE  RecordUnits * m <= RecordUnits * n
<1>1. RecordUnits \in Nat
  BY EngineAssumption
<1>2. n - m \in Nat /\ n = m + (n - m)
  OBVIOUS
<1>3. RecordUnits * (n - m) \in Nat /\ RecordUnits * n = RecordUnits * m + RecordUnits * (n - m)
  BY <1>1, <1>2
<1>4. RecordUnits * m \in Nat
  BY <1>1
<1> DEFINE x == RecordUnits * m
           y == RecordUnits * (n - m)
           z == RecordUnits * n
<1>5. x \in Nat /\ y \in Nat /\ z = x + y
  BY <1>3, <1>4
<1> HIDE DEF x, y, z
<1>6. x <= z
  BY <1>5
<1>. QED  BY <1>6 DEF x, z

LEMMA ProgressTransitive ==
    ASSUME NEW s \in Ssl, NEW t \in Ssl, NEW u \in Ssl, Progress(s, t), Progress(t, u)
    PROVE  Progress(s, u)
<1>1. /\ s.written \in Nat /\ t.written \in Nat /\ u.written \in Nat
      /\ s.steps \in Nat /\ t.steps \in Nat /\ u.steps \in Nat
  BY DEF Ssl
<1> DEFINE a == RecordUnits * Left(s.steps)
           b == RecordUnits * Left(t.steps)
           c == RecordUnits * Left(u.steps)
<1>2. a \in Nat /\ b \in Nat /\ c \in Nat
  BY <1>1, LeftCounts, UnitsProduced
<1>3. /\ s.written <= t.written /\ t.written <= u.written
      /\ t.written + b <= s.written + a /\ u.written + c <= t.written + b
      /\ Whole(u) /\ u.eof = s.eof
  BY DEF Progress
<1> HIDE DEF a, b, c
<1>4. s.written <= u.written /\ u.written + c <= s.written + a
  BY <1>1, <1>2, <1>3
<1>. QED  BY <1>3, <1>4 DEF Progress, a, c

LEMMA ProgressNone ==
    ASSUME NEW s \in Ssl, NEW t, Whole(t), SameOutput(s, t), t.steps = s.steps
    PROVE  Progress(s, t)
<1>1. s.written \in Nat /\ s.steps \in Nat
  BY DEF Ssl
<1> DEFINE a == RecordUnits * Left(s.steps)
<1>2. a \in Nat
  BY <1>1, LeftCounts, UnitsProduced
<1>3. t.written + RecordUnits * Left(t.steps) = s.written + a
  BY DEF SameOutput
<1> HIDE DEF a
<1>4. s.written <= t.written /\ s.written + a <= s.written + a
  BY <1>1, <1>2 DEF SameOutput
<1>. QED  BY <1>3, <1>4 DEF Progress, SameOutput, a

LEMMA ReadFlightProgress ==
    ASSUME NEW s \in Ssl, NEW bios, BiosOk(bios), s.fetched <= bios.available,
           ReadsNext(s), Whole(s)
    PROVE  Progress(s, ReadFlight(Fetch(s, bios), bios).s)
<1> DEFINE f == Fetch(s, bios)
           r == ReadFlight(f, bios)
           n == s.steps
<1>1. f \in Ssl /\ f.fetched <= bios.available /\ SameOutput(s, f) /\ f.steps = n
  BY FetchResult, FetchOutput
<1>2. /\ n \in Nat /\ n < Len(HandshakeSteps) /\ HandshakeSteps[n + 1] = "read"
      /\ s.written \in Nat
  <2>1. n \in Nat /\ n <= Len(HandshakeSteps) /\ n # Len(HandshakeSteps) /\ s.written \in Nat
    BY DEF Ssl, Whole, ReadsNext, Handshaken
  <2>2. HandshakeSteps[n + 1] = "read"
    BY DEF ReadsNext
  <2>3. n < Len(HandshakeSteps)
    BY <2>1, StepsCounted
  <2>. QED  BY <2>1, <2>2, <2>3
<1>3. Left(n + 1) \in Nat /\ Left(n) = Left(n + 1)
  <2> HIDE DEF n
  <2>1. n + 1 \in Nat
    BY <1>2
  <2>2. Left(n + 1) \in Nat /\ Left(n) = Left(n + 1) + 0
    BY <1>2, <2>1, LeftCounts
  <2>. QED  BY <2>2
<1>4. SameOutput(s, s)
  BY DEF SameOutput
<1> HIDE DEF f
<1> DEFINE t == [Consume(f) EXCEPT !.steps = @ + 1]
<1>5. /\ SameOutput(f, t) /\ t.steps = n + 1
      /\ SameOutput(f, Consume(f)) /\ Consume(f).steps = n
  BY <1>1, ConsumeOutput
<1>6. r.s \in {f, Consume(f), t}
  <2>1. CASE ~HasRecord(f)
    BY <2>1 DEF ReadFlight, Starved, Return
  <2>2. CASE HasRecord(f)
    <3>1. NextRecord(f, bios) \in PeerRecord
      BY <1>1, <2>2, RecordOfScript
    <3>2. NextRecord(f, bios).kind \in {"flight", "data", "close_notify"}
      BY <3>1 DEF PeerRecord
    <3>. QED  BY <2>2, <3>2 DEF ReadFlight, Return
  <2>. QED  BY <2>1, <2>2
<1> HIDE DEF r, t
<1>7. CASE r.s \in {f, Consume(f)}
  <2>1. SameOutput(s, r.s) /\ r.s.steps = n
    BY <1>1, <1>5, <1>7 DEF SameOutput
  <2>2. Whole(r.s)
    BY <2>1, WholeKept DEF Whole
  <2>3. Progress(s, r.s)
    BY <2>1, <2>2, ProgressNone
  <2>. QED  BY <2>3 DEF r, f
<1>8. CASE r.s = t
  <2>1. SameOutput(s, t) /\ t.steps = n + 1
    BY <1>1, <1>5 DEF SameOutput
  <2>2. t.steps <= Len(HandshakeSteps)
    BY <1>2, <2>1, LeftCounts
  <2>3. Whole(t)
    BY <2>1, <2>2, WholeKept
  <2>4. Left(t.steps) = Left(s.steps)
    BY <1>3, <2>1
  <2> DEFINE a == RecordUnits * Left(s.steps)
  <2>5. a \in Nat
    BY <1>2, LeftCounts, UnitsProduced
  <2>6. t.written + RecordUnits * Left(t.steps) = s.written + a
    BY <2>1, <2>4 DEF SameOutput
  <2> HIDE DEF a
  <2>7. s.written <= t.written /\ s.written + a <= s.written + a
    BY <1>2, <2>1, <2>5 DEF SameOutput
  <2>8. Progress(s, t)
    BY <2>1, <2>3, <2>6, <2>7 DEF Progress, SameOutput, a
  <2>. QED  BY <1>8, <2>8 DEF r, f
<1>. QED  BY <1>6, <1>7, <1>8

LEMMA WriteFlightProgress ==
    ASSUME NEW s \in Ssl, NEW bios, BiosOk(bios), s.fetched <= bios.available,
           WritesNext(s), Fits(s, bios)
    PROVE  Progress(s, WriteFlight(Produce(s, bios, "flight")).s)
<1> DEFINE p == Produce(s, bios, "flight")
           n == s.steps
<1>1. /\ n \in Nat /\ n < Len(HandshakeSteps) /\ HandshakeSteps[n + 1] # "read"
      /\ s.written \in Nat
  <2>1. n \in Nat /\ n <= Len(HandshakeSteps) /\ n # Len(HandshakeSteps) /\ s.written \in Nat
    BY DEF Ssl, Whole, WritesNext, Handshaken, Fits
  <2>2. HandshakeSteps[n + 1] # "read"
    BY DEF WritesNext
  <2>3. n < Len(HandshakeSteps)
    BY <2>1, StepsCounted
  <2>. QED  BY <2>1, <2>2, <2>3
<1> DEFINE m == Left(n + 1)
           a == RecordUnits * m
<1>2. m \in Nat /\ Left(n) = m + 1
  <2> HIDE DEF n
  <2>1. n + 1 \in Nat
    BY <1>1
  <2>. QED  BY <1>1, <2>1, LeftCounts
<1>3. RecordUnits \in Nat /\ a \in Nat /\ RecordUnits * Left(n) = a + RecordUnits
  BY <1>2, UnitsProduced
<1>4. bios.limit \in Nat /\ s.written + (a + RecordUnits) <= bios.limit
  BY <1>3 DEF Fits, BiosOk
<1> HIDE DEF m, a
<1>5. s.written + RecordUnits <= bios.limit
  BY <1>1, <1>3, <1>4
<1>6. "flight" \in Produced
  BY DEF Produced
<1>7. /\ p.verdict = "ok" /\ Whole(p.s) /\ p.s.written = s.written + RecordUnits
      /\ p.s.steps = n /\ p.s.eof = s.eof
  BY <1>5, <1>6, ProduceWhole DEF Fits
<1>8. p \in CallResults
  BY <1>6, ProduceResult
<1> HIDE DEF p
<1>9. p.s \in Ssl
  BY <1>8 DEF CallResults
<1> DEFINE q == [p EXCEPT !.s.steps = @ + 1]
           t == [p.s EXCEPT !.steps = n + 1]
<1>10. WriteFlight(p) = q
  BY <1>7 DEF WriteFlight
<1>11. q.s = t
  BY <1>7, <1>8 DEF CallResults
<1> HIDE DEF q
<1>12. /\ t.steps = n + 1 /\ t.written = s.written + RecordUnits /\ t.eof = s.eof
       /\ SameOutput(p.s, t)
  BY <1>7, <1>9 DEF Ssl, SameOutput
<1> HIDE DEF t
<1>13. Whole(t)
  <2>1. t.steps <= Len(HandshakeSteps)
    BY <1>1, <1>12, StepsCounted
  <2>. QED  BY <1>7, <1>12, <2>1, WholeKept
<1>14. RecordUnits * Left(t.steps) = a
  BY <1>12 DEF a, m
<1>15. s.written <= t.written /\ t.written + a <= s.written + (a + RecordUnits)
  BY <1>1, <1>3, <1>12
<1>16. Progress(s, t)
  BY <1>3, <1>12, <1>13, <1>14, <1>15 DEF Progress
<1>. QED  BY <1>10, <1>11, <1>16 DEF p

LEMMA AdvanceProgress ==
    ASSUME NEW r, NEW bios, BiosOk(bios), HandshakeResult(r, bios), Fits(r.s, bios)
    PROVE  LET q == Advance(r, bios)
           IN HandshakeResult(q, bios) /\ Progress(r.s, q.s) /\ Fits(q.s, bios)
<1> DEFINE q == Advance(r, bios)
<1>1. HandshakeResult(q, bios)
  BY AdvanceResult
<1>2. r.s \in Ssl /\ r.s.fetched <= bios.available /\ q.s \in Ssl /\ Whole(r.s)
  BY <1>1 DEF HandshakeResult, CallResults, Fits
<1>3. Progress(r.s, q.s)
  <2>1. CASE r.verdict # "ok" \/ Handshaken(r.s)
    <3>1. q = r
      BY <2>1 DEF Advance
    <3>2. SameOutput(r.s, r.s)
      BY DEF SameOutput
    <3>. QED  BY <1>2, <3>1, <3>2, ProgressNone
  <2>2. CASE r.verdict = "ok" /\ ~Handshaken(r.s)
    <3>1. CASE HandshakeSteps[r.s.steps + 1] = "read"
      <4>1. q = ReadFlight(Fetch(r.s, bios), bios)
        BY <2>2, <3>1 DEF Advance
      <4>2. ReadsNext(r.s)
        BY <2>2, <3>1 DEF ReadsNext
      <4>. QED  BY <1>2, <4>1, <4>2, ReadFlightProgress
    <3>2. CASE HandshakeSteps[r.s.steps + 1] # "read"
      <4>1. q = WriteFlight(Produce(r.s, bios, "flight"))
        BY <2>2, <3>2 DEF Advance
      <4>2. WritesNext(r.s)
        BY <2>2, <3>2 DEF WritesNext
      <4>. QED  BY <1>2, <4>1, <4>2, WriteFlightProgress
    <3>. QED  BY <3>1, <3>2
  <2>. QED  BY <2>1, <2>2
<1> HIDE DEF q
<1>4. Fits(q.s, bios)
  <2> DEFINE a == RecordUnits * Left(r.s.steps)
             b == RecordUnits * Left(q.s.steps)
  <2>1. /\ r.s.written \in Nat /\ q.s.written \in Nat /\ r.s.steps \in Nat /\ q.s.steps \in Nat
        /\ bios.limit \in Nat
    BY <1>2 DEF Ssl, BiosOk
  <2>2. a \in Nat /\ b \in Nat
    BY <2>1, LeftCounts, UnitsProduced
  <2>3. q.s.written + b <= r.s.written + a /\ r.s.written + a <= bios.limit
    BY <1>3 DEF Progress, Fits
  <2> HIDE DEF a, b
  <2>4. q.s.written + b <= bios.limit
    BY <2>1, <2>2, <2>3
  <2>. QED  BY <1>3, <2>4 DEF Progress, Fits, b
<1>. QED  BY <1>1, <1>3, <1>4 DEF q

LEMMA DoHandshakeProgress ==
    ASSUME NEW s \in Ssl, NEW bios, BiosOk(bios), s.fetched <= bios.available, Fits(s, bios)
    PROVE  DoHandshake(s, bios).s \in Ssl /\ Progress(s, DoHandshake(s, bios).s)
<1> DEFINE r0 == Return("ok", s)
           r1 == Advance(r0, bios)
           r2 == Advance(r1, bios)
           r3 == Advance(r2, bios)
           r4 == Advance(r3, bios)
           r5 == Advance(r4, bios)
<1>1. HandshakeResult(r0, bios) /\ r0.s = s
  BY ReturnType DEF HandshakeResult
<1>2. DoHandshake(s, bios) = r5
  BY DEF DoHandshake
<1> HIDE DEF r5
<1>3. ASSUME NEW r, HandshakeResult(r, bios) PROVE r.s \in Ssl
  BY <1>3 DEF HandshakeResult, CallResults
<1>4. HandshakeResult(r5, bios) /\ Progress(s, r5.s)
  <2> HIDE DEF r4
  <2>1. HandshakeResult(r4, bios) /\ Progress(s, r4.s) /\ Fits(r4.s, bios)
    <3> USE DEF r4
    <3> HIDE DEF r3
    <3>1. HandshakeResult(r3, bios) /\ Progress(s, r3.s) /\ Fits(r3.s, bios)
      <4> USE DEF r3
      <4> HIDE DEF r2
      <4>1. HandshakeResult(r2, bios) /\ Progress(s, r2.s) /\ Fits(r2.s, bios)
        <5> USE DEF r2
        <5> HIDE DEF r1
        <5>1. HandshakeResult(r1, bios) /\ Progress(s, r1.s) /\ Fits(r1.s, bios)
          <6> USE DEF r1
          <6> HIDE DEF r0
          <6>. QED  BY <1>1, AdvanceProgress
        <5>. QED  BY <1>3, <5>1, AdvanceProgress, ProgressTransitive
      <4>. QED  BY <1>3, <4>1, AdvanceProgress, ProgressTransitive
    <3>. QED  BY <1>3, <3>1, AdvanceProgress, ProgressTransitive
  <2>. QED  BY <1>3, <2>1, AdvanceProgress, ProgressTransitive DEF r5
<1>. QED  BY <1>2, <1>3, <1>4

-----------------------------------------------------------------------------
(* One iteration of drive() over memory BIOs.                              *)

\* What a call of OpenSSL may produce.
Produces(s, t) ==
    /\ Whole(t) /\ t.eof = s.eof /\ s.written <= t.written
    /\ t.written <= s.written + RecordUnits * RecordsPerCall

LEMMA RecordsCounted ==
    /\ RecordsPerCall \in Nat /\ RecordUnits * RecordsPerCall \in Nat
    /\ RecordUnits * Flights <= RecordUnits * RecordsPerCall
    /\ RecordUnits <= RecordUnits * RecordsPerCall
<1>1. /\ RecordsPerCall \in Nat /\ Flights <= RecordsPerCall /\ 1 <= RecordsPerCall
  BY LeftCounts DEF RecordsPerCall
<1>2. RecordUnits * 1 <= RecordUnits * RecordsPerCall
  BY <1>1, UnitsOrdered
<1>3. RecordUnits * 1 = RecordUnits
  BY EngineAssumption
<1>. QED  BY <1>1, <1>2, <1>3, LeftCounts, UnitsProduced, UnitsOrdered

LEMMA ProgressProduces ==
    ASSUME NEW s \in Ssl, NEW t \in Ssl, Progress(s, t)
    PROVE  Produces(s, t)
<1> DEFINE a == RecordUnits * Left(s.steps)
           b == RecordUnits * Left(t.steps)
           f == RecordUnits * Flights
           n == RecordUnits * RecordsPerCall
<1>1. s.written \in Nat /\ t.written \in Nat /\ s.steps \in Nat /\ t.steps \in Nat
  BY DEF Ssl
<1>2. a \in Nat /\ b \in Nat /\ a <= f /\ f \in Nat
  BY <1>1, LeftCounts, UnitsProduced, UnitsOrdered
<1>3. n \in Nat /\ f <= n
  BY RecordsCounted
<1>4. t.written + b <= s.written + a
  BY DEF Progress
<1> HIDE DEF a, b, f, n
<1>5. t.written <= s.written + n
  BY <1>1, <1>2, <1>3, <1>4
<1>. QED  BY <1>5 DEF Progress, Produces, n

LEMMA SameProduces ==
    ASSUME NEW s \in Ssl, Whole(s), NEW t, SameOutput(s, t), t.steps = s.steps
    PROVE  Produces(s, t)
<1> DEFINE n == RecordUnits * RecordsPerCall
<1>1. s.written \in Nat /\ n \in Nat
  BY RecordsCounted DEF Ssl
<1>2. Whole(t)
  BY WholeKept DEF Whole
<1> HIDE DEF n
<1>3. s.written <= t.written /\ t.written <= s.written + n
  BY <1>1 DEF SameOutput
<1>. QED  BY <1>2, <1>3 DEF Produces, SameOutput, n

LEMMA RecordProduces ==
    ASSUME NEW s \in Ssl, Whole(s), NEW bios, BiosOk(bios), NEW what \in Produced,
           s.written + RecordUnits <= bios.limit, bios.behind # "reset"
    PROVE  Produces(s, Produce(s, bios, what).s)
<1> DEFINE r == Produce(s, bios, what)
           n == RecordUnits * RecordsPerCall
<1>1. Whole(r.s) /\ r.s.written = s.written + RecordUnits /\ r.s.eof = s.eof
  BY ProduceWhole
<1> HIDE DEF r
<1>2. s.written \in Nat /\ n \in Nat /\ RecordUnits \in Nat /\ RecordUnits <= n
  BY RecordsCounted, EngineAssumption DEF Ssl
<1> HIDE DEF n
<1>3. s.written <= r.s.written /\ r.s.written <= s.written + n
  BY <1>1, <1>2
<1>. QED  BY <1>1, <1>3 DEF Produces, n, r

\* Room for all that a call may produce.
Roomy(s, bios) ==
    /\ Whole(s) /\ bios.behind # "reset"
    /\ s.written + RecordUnits * (Len(HandshakeSteps) + 1) <= bios.limit

LEMMA PerformProduces ==
    ASSUME NEW k, InBounds(k), k.phase # "draining",
           NEW s \in Ssl, NEW bios, BiosOk(bios), s.fetched <= bios.available, Roomy(s, bios)
    PROVE  Produces(s, Perform(k, s, bios).s)
<1>1. k \in Connection /\ k.phase \in Phases
  BY DEF InBounds, Connection
<1> DEFINE l == Len(HandshakeSteps)
           all == RecordUnits * (l + 1)
           most == RecordUnits * l
           left == RecordUnits * Left(s.steps)
<1>2. s.steps \in Nat /\ s.written \in Nat /\ bios.limit \in Nat /\ s.written + all <= bios.limit
  BY DEF Ssl, BiosOk, Roomy
<1>3. /\ l \in Nat /\ Left(s.steps) \in Nat /\ Left(s.steps) <= l
  BY <1>2, LeftCounts
<1>4. RecordUnits \in Nat /\ most \in Nat /\ all = most + RecordUnits
  <2> HIDE DEF l
  <2>. QED  BY <1>3, UnitsProduced
<1>5. left \in Nat /\ left <= most
  <2> HIDE DEF l
  <2>. QED  BY <1>3, UnitsProduced, UnitsOrdered
<1> HIDE DEF all, most, left, l
<1>6. s.written + left <= bios.limit /\ s.written + RecordUnits <= bios.limit
  BY <1>2, <1>4, <1>5
<1>7. SameOutput(s, s) /\ Whole(s)
  BY DEF SameOutput, Roomy
<1>8. Fits(s, bios)
  BY <1>6 DEF Fits, Roomy, left
<1>9. CASE k.phase = "handshake"
  <2>1. Perform(k, s, bios) = DoHandshake(s, bios)
    BY <1>9 DEF Perform
  <2>. QED  BY <1>8, <2>1, DoHandshakeProgress, ProgressProduces
<1>10. CASE k.phase = "reading"
  <2>1. Perform(k, s, bios) = SslRead(s, bios, InputCapacity - Len(k.input))
    BY <1>10 DEF Perform
  <2>. QED  BY <1>7, <2>1, SslReadOutput, SameProduces
<1>11. CASE k.phase = "writing"
  <2>1. Perform(k, s, bios) = Produce(s, bios, k.reply)
    BY <1>11 DEF Perform, SslWrite
  <2>2. k.reply \in Produced
    BY <1>1, <1>11 DEF InBounds, Connection, Produced
  <2>. QED  BY <1>6, <1>7, <2>1, <2>2, RecordProduces DEF Roomy
<1>12. CASE k.phase = "shutting_down"
  <2>1. CASE Handshaken(s)
    <3>1. Perform(k, s, bios) = Produce(s, bios, "close_notify")
      BY <1>12, <2>1 DEF Perform, SslShutdown
    <3>. QED  BY <1>6, <1>7, <3>1, RecordProduces DEF Roomy, Produced
  <2>2. CASE ~Handshaken(s)
    <3>1. Perform(k, s, bios).s = s
      BY <1>12, <2>2 DEF Perform, SslShutdown, Return
    <3>. QED  BY <1>7, <3>1, SameProduces
  <2>. QED  BY <2>1, <2>2
<1>. QED  BY <1>1, <1>9, <1>10, <1>11, <1>12 DEF Phases

\* The memory BIOs of a connection that was fed what has arrived.
LEMMA BiosAreOk ==
    ASSUME CoreInv, NEW d \in Contexts, d.s.fetched <= d.k.fed,
           d.k.fed <= socket[d.fd].arrived
    PROVE  /\ BiosOk(Bios(d)) /\ d.s.fetched <= Bios(d).available
           /\ Bios(d).available = d.k.fed
           /\ Bios(d).behind = (IF d.s.eof THEN "eof" ELSE "more")
           /\ Whole(d.s) => Roomy(d.s, Bios(d))
<1> DEFINE c == d.fd
           l == Len(HandshakeSteps)
           n == RecordUnits * (l + 1)
           limit == d.s.written + n
<1>1. /\ c \in Fds /\ d.s.written \in Nat /\ d.k.fed \in Nat /\ d.s.eof \in BOOLEAN
  BY DEF Contexts, Ssl, Connection
<1>2. socket[c] \in Socket
  BY <1>1 DEF CoreInv, TypeOK
<1>3. socket[c].script \in Seq(PeerRecord) /\ socket[c].arrived \in Nat
  <2>1. socket[c].script \in Scripts \cup {<<>>} /\ socket[c].arrived \in Nat
    BY <1>2 DEF Socket
  <2>2. Scripts \cup {<<>>} \subseteq Seq(PeerRecord)
    BY WorkerAssumption, EmptySeq
  <2>. QED  BY <2>1, <2>2
<1>4. /\ socket[c].arrived <= RecordPieces * Len(socket[c].script)
      /\ Len(socket[c].script) \in Nat
  BY <1>1, <1>3, LenProperties DEF CoreInv, SocketsOk
<1>5. d.k.fed <= RecordPieces * Len(socket[c].script)
  BY <1>1, <1>3, <1>4 DEF RecordPieces
<1>6. n \in Nat
  <2> HIDE DEF l
  <2>1. l \in Nat
    BY LeftCounts DEF l
  <2>2. l + 1 \in Nat
    BY <2>1
  <2>. QED  BY <2>2, UnitsProduced
<1> HIDE DEF n
<1>7. limit \in Nat /\ limit <= limit
  BY <1>1, <1>6
<1> HIDE DEF limit
<1>8. Bios(d) = [script |-> socket[c].script, available |-> d.k.fed,
                 behind |-> IF d.s.eof THEN "eof" ELSE "more", limit |-> limit]
  BY DEF Bios, limit, n
<1>9. BiosOk(Bios(d))
  BY <1>1, <1>3, <1>5, <1>7, <1>8 DEF BiosOk
<1>10. Whole(d.s) => Roomy(d.s, Bios(d))
  BY <1>7, <1>8 DEF Roomy, limit, n
<1>. QED  BY <1>8, <1>9, <1>10

\* OpenSSL never lacks room, and produces what one call may.
LEMMA TurnProduces ==
    ASSUME CoreInv, NEW d, NEW ended, NEW held \in Nat, Good(d, ended, held),
           d.k.phase # "draining", Whole(d.s), d.s.fetched <= d.k.fed,
           d.k.fed <= socket[d.fd].arrived, NEW i, i = Turn(d)
    PROVE  /\ TurnResult(d, Bios(d), i) /\ Good(i.d, ended, held)
           /\ i.d.fd = d.fd /\ i.d.sq = d.sq /\ i.d.kernel = d.kernel
           /\ SameAccounts(d.k, i.d.k) /\ i.d.s.fetched <= d.k.fed
           /\ Produces(d.s, i.d.s)
           /\ i.verdict = "want_read" =>
                 NeedsInput(i.d.k, i.d.s) /\ i.d.s.fetched = d.k.fed /\ ~d.s.eof
           /\ i.verdict # "want_write"
<1>1. d \in Contexts /\ InBounds(d.k) /\ d.s \in Ssl
  BY DEF Good, Queues, Contexts, Accounts
<1> DEFINE bios == Bios(d)
           k == ParseInput(d.k)
<1>2. /\ BiosOk(bios) /\ d.s.fetched <= bios.available /\ bios.available = d.k.fed
      /\ bios.behind = (IF d.s.eof THEN "eof" ELSE "more") /\ Roomy(d.s, bios)
  BY <1>1, BiosAreOk
<1> HIDE DEF bios
<1>3. i = Iteration(d, bios)
  BY DEF Turn, bios
<1>4. /\ TurnResult(d, bios, i) /\ Good(i.d, ended, held)
      /\ i.d.fd = d.fd /\ i.d.sq = d.sq /\ i.d.kernel = d.kernel
  BY <1>2, <1>3, TurnFrom
<1>5. InBounds(k) /\ k.phase # "draining"
  BY <1>1, ParseInputResult
<1> HIDE DEF k
<1>6. Produces(d.s, Perform(k, d.s, bios).s)
  BY <1>1, <1>2, <1>5, PerformProduces
<1>7. i.d.s = Perform(k, d.s, bios).s
  <2> DEFINE r == Perform(k, d.s, bios)
             l == CASE r.verdict = "ok" -> Succeeded(k, r.lines)
                    [] r.verdict = "zero_return" -> StreamEnded(k)
                    [] OTHER -> k
  <2>1. i.d = [d EXCEPT !.s = r.s, !.k = l]
    BY <1>3 DEF Iteration, CallOpenSsl, Applied, k
  <2> HIDE DEF r, l
  <2>2. i.d.s = r.s
    BY <1>1, <2>1 DEF Contexts
  <2>. QED  BY <2>2 DEF r
<1>8. Produces(d.s, i.d.s)
  BY <1>6, <1>7
<1>9. i.verdict # "want_write"
  <2>1. Unwritten(i.d.s) = 0
    BY <1>8 DEF Produces, Whole
  <2>2. i.verdict = "want_write" => Unwritten(i.d.s) > 0
    BY <1>4 DEF TurnResult, NeedsOutput
  <2>. QED  BY <2>1, <2>2
<1>10. i.verdict = "want_read" =>
          NeedsInput(i.d.k, i.d.s) /\ i.d.s.fetched = d.k.fed /\ ~d.s.eof
  BY <1>2, <1>4 DEF TurnResult
<1>11. SameAccounts(d.k, i.d.k) /\ i.d.s.fetched <= d.k.fed
  BY <1>2, <1>4 DEF TurnResult
<1>. QED  BY <1>4, <1>8, <1>9, <1>10, <1>11 DEF bios

-----------------------------------------------------------------------------
(* Sends.                                                                  *)

Sending(k)       == [k EXCEPT !.references = k.references + 1, !.output_active = TRUE]
Staged(k, count) == [k EXCEPT !.staged = k.staged + count, !.wire_length = count,
                              !.wire_offset = 0]

\* The fields that say how a connection goes on.
SameDialogue(k, l) ==
    /\ l.dead = k.dead /\ l.phase = k.phase /\ l.input = k.input /\ l.reply = k.reply
    /\ l.read_eof = k.read_eof /\ l.close_after = k.close_after

LEMMA SendingConnection ==
    ASSUME NEW k, InBounds(k)
    PROVE  LET l == Sending(k)
           IN /\ InBounds(l) /\ l.references = k.references + 1 /\ l.output_active
              /\ l.input_active = k.input_active
              /\ l.input_cancelled = k.input_cancelled
              /\ l.output_cancelled = k.output_cancelled
              /\ SameDialogue(k, l) /\ SameWire(k, l)
<1> DEFINE l == Sending(k)
<1>1. k \in Connection /\ k.references + 1 \in Nat
  BY DEF InBounds, Connection
<1>2. ASSUME NEW n \in Nat
      PROVE  LET m == [k EXCEPT !.references = n, !.output_active = TRUE]
             IN /\ m \in Connection /\ m.references = n /\ m.output_active
                /\ m.input_active = k.input_active
                /\ m.input_cancelled = k.input_cancelled
                /\ m.output_cancelled = k.output_cancelled
                /\ SameDialogue(k, m) /\ SameWire(k, m)
  BY <1>1 DEF Connection, SameDialogue, SameWire
<1>3. /\ l \in Connection /\ l.references = k.references + 1 /\ l.output_active
      /\ l.input_active = k.input_active
      /\ l.input_cancelled = k.input_cancelled
      /\ l.output_cancelled = k.output_cancelled
      /\ SameDialogue(k, l) /\ SameWire(k, l)
  BY <1>1, <1>2 DEF Sending
<1> HIDE DEF l
<1>4. InBounds(l)
  BY <1>3 DEF InBounds, SameDialogue
<1>. QED  BY <1>3, <1>4 DEF l

LEMMA SubmitOutputGood ==
    ASSUME NEW d, NEW ended, NEW held \in Nat, Good(d, ended, held), ~d.k.output_active
    PROVE  LET e == SubmitOutput(d)
           IN /\ Good(e, ended, held) /\ Grows(d, e, ended, ConnectionOps(d.fd))
              /\ e.k = Sending(d.k)
<1> DEFINE op == Output(d.fd)
           g == GetSqe(d, op)
           l == Sending(d.k)
<1>1. d \in Contexts /\ d.fd \in Fds /\ d.k \in Connection /\ InBounds(d.k)
  BY DEF Good, Queues, Contexts, Accounts
<1>2. op \in ConnectionOps(d.fd) /\ op \in Operations /\ op \notin Live(d, ended)
  BY <1>1, OperationNames DEF Good, Accounts, ConnectionOps
<1>3. g \in Contexts /\ g.k = d.k
  BY <1>2, GetSqeAdds DEF Good, Queues
<1>4. SubmitOutput(d) = With(g, l)
  <2>1. Prepare(d, op) = [g EXCEPT !.k = [g.k EXCEPT !.references = g.k.references + 1]]
    BY <1>3 DEF Prepare, Contexts, Connection
  <2>2. SubmitOutput(d)
            = [Prepare(d, op) EXCEPT !.k = [Prepare(d, op).k EXCEPT !.output_active = TRUE]]
    BY DEF SubmitOutput
  <2>. QED  BY <2>1, <2>2, <1>1, <1>3 DEF Contexts, Connection, With, Sending
<1>5. /\ op = Output(d.fd)
      /\ op # Input(d.fd) /\ op # CancelInput(d.fd) /\ op # CancelOutput(d.fd)
  BY <1>1, OperationNames
<1> HIDE DEF op
<1>6. /\ InBounds(l) /\ l.references = d.k.references + 1 /\ l.output_active
      /\ l.input_active = d.k.input_active
      /\ l.input_cancelled = d.k.input_cancelled /\ l.output_cancelled = d.k.output_cancelled
      /\ l.dead = d.k.dead
  BY <1>1, SendingConnection DEF SameDialogue
<1> HIDE DEF l
<1>7. Arms(d.fd, d.k, op, l)
  BY <1>5, <1>6 DEF Arms
<1>8. LET e == With(g, l)
      IN Good(e, ended, held) /\ Grows(d, e, ended, ConnectionOps(d.fd)) /\ e.k = l
  BY <1>2, <1>7, ArmedContext
<1>. QED  BY <1>4, <1>8 DEF l

LEMMA StagedConnection ==
    ASSUME NEW k, InBounds(k), NEW count \in Nat
    PROVE  LET l == Staged(k, count)
           IN /\ InBounds(l) /\ l.references = k.references
              /\ l.input_active = k.input_active /\ l.output_active = k.output_active
              /\ l.input_cancelled = k.input_cancelled
              /\ l.output_cancelled = k.output_cancelled
              /\ SameDialogue(k, l) /\ l.fed = k.fed
              /\ l.staged = k.staged + count /\ l.wire_length = count /\ l.wire_offset = 0
<1> DEFINE l == Staged(k, count)
<1>1. k \in Connection /\ k.staged + count \in Nat
  BY DEF InBounds, Connection
<1>2. ASSUME NEW n \in Nat
      PROVE  LET m == [k EXCEPT !.staged = n, !.wire_length = count, !.wire_offset = 0]
             IN /\ m \in Connection /\ m.references = k.references
                /\ m.input_active = k.input_active /\ m.output_active = k.output_active
                /\ m.input_cancelled = k.input_cancelled
                /\ m.output_cancelled = k.output_cancelled
                /\ SameDialogue(k, m) /\ m.fed = k.fed
                /\ m.staged = n /\ m.wire_length = count /\ m.wire_offset = 0
  BY <1>1 DEF Connection, SameDialogue
<1>3. /\ l \in Connection /\ l.references = k.references
      /\ l.input_active = k.input_active /\ l.output_active = k.output_active
      /\ l.input_cancelled = k.input_cancelled
      /\ l.output_cancelled = k.output_cancelled
      /\ SameDialogue(k, l) /\ l.fed = k.fed
      /\ l.staged = k.staged + count /\ l.wire_length = count /\ l.wire_offset = 0
  BY <1>1, <1>2 DEF Staged
<1> HIDE DEF l
<1>4. InBounds(l)
  BY <1>3 DEF InBounds, SameDialogue
<1>. QED  BY <1>3, <1>4 DEF l

\* A context that holds another connection with the same references and flags.
LEMMA WithGood ==
    ASSUME NEW d, NEW ended, NEW held \in Nat, Good(d, ended, held), NEW l, InBounds(l),
           l.dead = d.k.dead, l.references = d.k.references,
           l.input_active = d.k.input_active, l.output_active = d.k.output_active,
           l.input_cancelled = d.k.input_cancelled, l.output_cancelled = d.k.output_cancelled
    PROVE  LET e == With(d, l)
           IN /\ Good(e, ended, held) /\ e.k = l /\ e.fd = d.fd /\ e.s = d.s
              /\ e.sq = d.sq /\ e.kernel = d.kernel
<1> DEFINE e == With(d, l)
<1>1. d \in Contexts /\ l \in Connection /\ Queues(d, ended)
      /\ Accounts(d.fd, d.k, Live(d, ended), held)
  BY DEF Good, Queues, InBounds
<1>2. /\ e \in Contexts /\ e.k = l /\ e.fd = d.fd /\ e.s = d.s
      /\ e.sq = d.sq /\ e.kernel = d.kernel
  BY <1>1, WithConnection
<1> HIDE DEF e
<1>3. Queues(e, ended) /\ Live(e, ended) = Live(d, ended)
  BY <1>1, <1>2 DEF Queues, Live
<1>4. Accounts(d.fd, l, Live(d, ended), held)
  BY <1>1 DEF Accounts
<1>. QED  BY <1>2, <1>3, <1>4 DEF Good, e

\* What is sent to w next is what flush_output stages.
LEMMA FlushGood ==
    ASSUME NEW d, NEW ended, NEW held \in Nat, Good(d, ended, held), d.k.staged <= d.s.written
    PROVE  LET e == FlushOutput(d)
           IN /\ Good(e, ended, held) /\ Grows(d, e, ended, ConnectionOps(d.fd))
              /\ e.fd = d.fd /\ e.s = d.s /\ SameDialogue(d.k, e.k)
              /\ e.k.input_active = d.k.input_active /\ e.k.fed = d.k.fed
              /\ d.k.staged <= e.k.staged /\ e.k.staged <= e.s.written
              /\ e.k.output_active \/ Queued(e) = 0
              /\ d.k.output_active => e.k.output_active
              /\ \A w, sent : Staging(d.k, w, sent) /\ (~d.k.output_active => sent = {})
                                 => Staging(e.k, w, sent)
<1> DEFINE e == FlushOutput(d)
<1>1. /\ d \in Contexts /\ InBounds(d.k) /\ d.k \in Connection /\ d.s \in Ssl
      /\ Queues(d, ended)
  BY DEF Good, Queues, Contexts, Accounts
<1>2. d.k.staged \in Nat /\ d.s.written \in Nat /\ WireCapacity \in Nat \ {0}
  BY <1>1, WireAssumption DEF Connection, Ssl
<1>3. CASE d.k.output_active \/ Queued(d) = 0
  <2>1. e = d
    BY <1>3 DEF FlushOutput
  <2> HIDE DEF e
  <2>2. Grows(d, d, ended, ConnectionOps(d.fd))
    BY <1>1 DEF Grows
  <2>3. SameDialogue(d.k, d.k) /\ d.k.staged <= d.k.staged
    BY <1>2 DEF SameDialogue
  <2>4. e.k.output_active \/ Queued(e) = 0
    BY <1>3, <2>1
  <2>5. \A w, sent : Staging(d.k, w, sent) => Staging(e.k, w, sent)
    BY <2>1
  <2>6. /\ Good(e, ended, held) /\ Grows(d, e, ended, ConnectionOps(d.fd))
        /\ e.fd = d.fd /\ e.s = d.s /\ SameDialogue(d.k, e.k)
        /\ e.k.input_active = d.k.input_active /\ e.k.fed = d.k.fed
        /\ d.k.staged <= e.k.staged /\ e.k.staged <= e.s.written
        /\ d.k.output_active => e.k.output_active
    BY <2>1, <2>2, <2>3
  <2>. QED  BY <2>4, <2>5, <2>6 DEF e
<1>4. CASE ~(d.k.output_active \/ Queued(d) = 0)
  <2> DEFINE count == Min({Queued(d), WireCapacity})
             f == SubmitOutput(d)
             l == Staged(f.k, count)
  <2>1. count \in Nat /\ count <= Queued(d)
    <3>1. Queued(d) \in Nat
      BY <1>2 DEF Queued
    <3>. QED  BY <1>2, <3>1, MinOfTwo
  <2> HIDE DEF count
  <2>2. /\ Good(f, ended, held) /\ Grows(d, f, ended, ConnectionOps(d.fd))
        /\ f.k = Sending(d.k)
    BY <1>4, SubmitOutputGood
  <2>3. e = [f EXCEPT !.k.staged = @ + count, !.k.wire_length = count, !.k.wire_offset = 0]
    BY <1>4 DEF FlushOutput, count
  <2> HIDE DEF f, e
  <2>4. f \in Contexts /\ InBounds(f.k) /\ f.fd = d.fd /\ f.s = d.s /\ f.k \in Connection
    BY <2>2 DEF Good, Queues, Accounts, Grows, InBounds
  <2>5. /\ f.k.output_active /\ f.k.input_active = d.k.input_active
        /\ SameDialogue(d.k, f.k) /\ SameWire(d.k, f.k)
    BY <1>1, <2>2, SendingConnection
  <2>6. /\ InBounds(l) /\ l.references = f.k.references
        /\ l.input_active = f.k.input_active /\ l.output_active = f.k.output_active
        /\ l.input_cancelled = f.k.input_cancelled /\ l.output_cancelled = f.k.output_cancelled
        /\ SameDialogue(f.k, l) /\ l.fed = f.k.fed
        /\ l.staged = f.k.staged + count /\ l.wire_length = count /\ l.wire_offset = 0
    BY <2>1, <2>4, StagedConnection
  <2>7. e = With(f, l)
    BY <2>3, <2>4 DEF With, Staged, Contexts, Connection
  <2> HIDE DEF l
  <2>8. /\ Good(e, ended, held) /\ e.k = l /\ e.fd = f.fd /\ e.s = f.s
        /\ e.sq = f.sq /\ e.kernel = f.kernel
    BY <2>2, <2>6, <2>7, WithGood DEF SameDialogue
  <2>9. Grows(d, e, ended, ConnectionOps(d.fd))
    BY <2>2, <2>8 DEF Grows, Good
  <2>10. /\ SameDialogue(d.k, e.k) /\ e.k.input_active = d.k.input_active
         /\ e.k.fed = d.k.fed /\ e.k.output_active /\ e.s = d.s /\ e.fd = d.fd
    BY <2>4, <2>5, <2>6, <2>8 DEF SameDialogue, SameWire
  <2>11. /\ e.k.staged = d.k.staged + count /\ e.k.wire_length = count /\ e.k.wire_offset = 0
    BY <2>5, <2>6, <2>8 DEF SameWire
  <2>12. d.k.staged <= e.k.staged /\ e.k.staged <= e.s.written
    BY <1>2, <2>1, <2>10, <2>11 DEF Queued
  <2>13. ASSUME NEW w, NEW sent, Staging(d.k, w, sent), ~d.k.output_active => sent = {}
         PROVE  Staging(e.k, w, sent)
    <3>1. sent = {} /\ d.k.wire_offset = d.k.wire_length /\ Len(w) = Sendable(d.k)
          /\ d.k.wire_length \in Nat
      BY <1>1, <1>4, <2>13 DEF Staging, Connection
    <3>2. Sendable(d.k) = d.k.staged /\ Sendable(e.k) = d.k.staged
      BY <1>2, <2>1, <2>11, <3>1 DEF Sendable
    <3>3. e.k.wire_offset <= e.k.wire_length /\ e.k.wire_length <= e.k.staged
      BY <1>2, <2>1, <2>11
    <3>. QED  BY <2>10, <3>1, <3>2, <3>3 DEF Staging
  <2>. QED  BY <2>8, <2>9, <2>10, <2>12, <2>13 DEF e
<1>. QED  BY <1>3, <1>4

-----------------------------------------------------------------------------
(* The results that are queued.                                            *)

LEMMA CqesEnded ==
    ASSUME CoreInv, NEW op \in Operations, op # AcceptOp
    PROVE  op \in EndedOps <=> CqesOf(op) # {}
<1>1. \A i \in DOMAIN cq : cq[i].more => cq[i].op = AcceptOp
  BY DEF CoreInv, CqWellFormed
<1>. QED  BY <1>1 DEF EndedOps, Ended, CqesOf

LEMMA CqesTaken ==
    ASSUME CoreInv, cq # <<>>, cq' = Tail(cq), Head(cq).op # AcceptOp
    PROVE  /\ Head(cq) \in CqesOf(Head(cq).op)
           /\ \A op : op # Head(cq).op => CqesOf(op)' = CqesOf(op)
           /\ \A op : op = Head(cq).op => CqesOf(op)' = {}
<1>1. /\ Len(cq) \in Nat /\ Len(cq) >= 1 /\ DOMAIN cq = 1..Len(cq)
      /\ Len(cq') = Len(cq) - 1 /\ DOMAIN cq' = 1..Len(cq')
      /\ Head(cq) = cq[1] /\ 1 \in DOMAIN cq
  <2>1. cq \in Seq(Cqes)
    BY DEF CoreInv, TypeOK
  <2>. QED  BY <2>1, HeadTailProperties, LenProperties, EmptySeq, OldestCqe
<1>2. \A i \in 1..Len(cq') : cq'[i] = cq[i + 1]
  <2>1. cq \in Seq(Cqes)
    BY DEF CoreInv, TypeOK
  <2>. QED  BY <2>1, HeadTailProperties
<1>3. \A i \in DOMAIN cq' : i + 1 \in DOMAIN cq /\ 1 < i + 1 /\ cq'[i] = cq[i + 1]
  BY <1>1, <1>2
<1>4. ASSUME NEW i \in DOMAIN cq, i # 1
      PROVE  i - 1 \in DOMAIN cq' /\ cq'[i - 1] = cq[i]
  <2>1. i - 1 \in 1..Len(cq') /\ (i - 1) + 1 = i
    BY <1>1, <1>4
  <2>. QED  BY <1>1, <1>2, <2>1
<1>5. ASSUME NEW op, op # cq[1].op
      PROVE  CqesOf(op)' = CqesOf(op)
  <2>1. ASSUME NEW i \in DOMAIN cq, cq[i].op = op
        PROVE  \E j \in DOMAIN cq' : cq'[j].op = op /\ cq'[j] = cq[i]
    BY <1>4, <1>5, <2>1
  <2>2. ASSUME NEW j \in DOMAIN cq', cq'[j].op = op
        PROVE  \E i \in DOMAIN cq : cq[i].op = op /\ cq[i] = cq'[j]
    BY <1>3, <2>2
  <2>. QED  BY <2>1, <2>2 DEF CqesOf
<1>6. ASSUME NEW op, op = cq[1].op
      PROVE  CqesOf(op)' = {}
  <2>1. ASSUME NEW j \in DOMAIN cq', cq'[j].op = op
        PROVE  FALSE
    <3>1. j + 1 \in DOMAIN cq /\ 1 < j + 1 /\ cq[j + 1].op = cq[1].op
      BY <1>3, <1>6, <2>1
    <3>2. cq[1].more
      BY <1>1, <3>1 DEF CoreInv, CqWellFormed
    <3>. QED  BY <1>1, <3>2 DEF CoreInv, CqWellFormed
  <2>. QED  BY <2>1 DEF CqesOf
<1>. QED  BY <1>1, <1>5, <1>6 DEF CqesOf

\* Completions of the listener say nothing of the connections' operations.
LEMMA CqesOfOthers ==
    ASSUME CoreInv, cq # <<>>, cq' = Tail(cq), NEW op, op # Head(cq).op
    PROVE  CqesOf(op)' = CqesOf(op)
<1>1. cq \in Seq(Cqes)
  BY DEF CoreInv, TypeOK
<1>2. /\ Len(cq) \in Nat /\ Len(cq) >= 1 /\ DOMAIN cq = 1..Len(cq)
      /\ Len(cq') = Len(cq) - 1 /\ DOMAIN cq' = 1..Len(cq')
      /\ Head(cq) = cq[1]
  BY <1>1, HeadTailProperties, LenProperties, EmptySeq, OldestCqe
<1>3. \A i \in 1..Len(cq') : cq'[i] = cq[i + 1]
  BY <1>1, HeadTailProperties
<1>4. ASSUME NEW i \in DOMAIN cq, cq[i].op = op
      PROVE  \E j \in DOMAIN cq' : cq'[j].op = op /\ cq'[j] = cq[i]
  <2>1. i # 1
    BY <1>2, <1>4
  <2>2. i - 1 \in 1..Len(cq') /\ (i - 1) + 1 = i
    BY <1>2, <1>4, <2>1
  <2>. QED  BY <1>2, <1>3, <1>4, <2>2
<1>5. ASSUME NEW j \in DOMAIN cq', cq'[j].op = op
      PROVE  \E i \in DOMAIN cq : cq[i].op = op /\ cq[i] = cq'[j]
  <2>1. j + 1 \in DOMAIN cq
    BY <1>2, <1>5
  <2>. QED  BY <1>2, <1>3, <1>5, <2>1
<1>. QED  BY <1>4, <1>5 DEF CqesOf

LEMMA CqesPosted ==
    ASSUME CoreInv, NEW cqe, Post(cqe), cqe.op \in kernel
    PROVE  /\ \A op : op # cqe.op => CqesOf(op)' = CqesOf(op)
           /\ cqe.op # AcceptOp =>
                 CqesOf(cqe.op) = {} /\ \A op : op = cqe.op => CqesOf(op)' = {cqe}
<1>1. /\ Len(cq) \in Nat /\ DOMAIN cq = 1..Len(cq) /\ cq \in Seq(Cqes)
      /\ cq' = Append(cq, cqe)
  BY LenProperties DEF CoreInv, TypeOK, Post
<1> DEFINE n == Len(cq) + 1
<1>2. /\ DOMAIN cq' = 1..n /\ cq'[n] = cqe
      /\ \A i \in 1..Len(cq) : cq'[i] = cq[i]
  BY <1>1
<1>3. /\ DOMAIN cq' = DOMAIN cq \cup {n} /\ n \notin DOMAIN cq
      /\ \A i \in DOMAIN cq : cq'[i] = cq[i]
  BY <1>1, <1>2
<1> HIDE DEF n
<1>4. ASSUME NEW op, op # cqe.op
      PROVE  CqesOf(op)' = CqesOf(op)
  <2>1. ASSUME NEW i \in DOMAIN cq, cq[i].op = op
        PROVE  i \in DOMAIN cq' /\ cq'[i].op = op /\ cq'[i] = cq[i]
    BY <1>3, <2>1
  <2>2. ASSUME NEW j \in DOMAIN cq', cq'[j].op = op
        PROVE  j \in DOMAIN cq /\ cq[j].op = op /\ cq[j] = cq'[j]
    BY <1>2, <1>3, <1>4, <2>2
  <2>. QED  BY <2>1, <2>2 DEF CqesOf
<1>5. ASSUME cqe.op # AcceptOp
      PROVE  CqesOf(cqe.op) = {} /\ \A op : op = cqe.op => CqesOf(op)' = {cqe}
  <2>1. cqe.op \in Operations /\ cqe.op \notin EndedOps
    BY DEF CoreInv, TypeOK, QueuesOk
  <2>2. CqesOf(cqe.op) = {}
    BY <1>5, <2>1, CqesEnded
  <2>3. \A i \in DOMAIN cq : cq[i].op # cqe.op
    BY <2>2 DEF CqesOf
  <2>4. ASSUME NEW op, op = cqe.op
        PROVE  CqesOf(op)' = {cqe}
    BY <1>2, <1>3, <2>3, <2>4 DEF CqesOf
  <2>. QED  BY <2>2, <2>4
<1>. QED  BY <1>4, <1>5

\* Only an operation whose flag is set has a result.
LEMMA ActiveCqes ==
    ASSUME CoreInv, NEW c \in connections
    PROVE  /\ c \in Fds
           /\ Input(c) \in Operations /\ Output(c) \in Operations
           /\ ~conn[c].input_active => CqesOf(Input(c)) = {}
           /\ ~conn[c].output_active => CqesOf(Output(c)) = {}
<1>1. c \in Fds
  BY DEF CoreInv, TypeOK
<1>2. /\ Input(c) \in Operations /\ Output(c) \in Operations
      /\ Input(c) # AcceptOp /\ Output(c) # AcceptOp
  <2>1. /\ Input(c) \in ConnectionOps(c) /\ Output(c) \in ConnectionOps(c)
        /\ AcceptOp \in WorkerOps
    BY DEF ConnectionOps, WorkerOps
  <2>. QED  BY <1>1, <2>1, OperationNames
<1>3. Accounts(c, conn[c], Pending, Held(c))
  BY DEF CoreInv, ConnectionsOk
<1>4. /\ conn[c].input_active <=> Input(c) \in Pending
      /\ conn[c].output_active <=> Output(c) \in Pending
  BY <1>3 DEF Accounts
<1>. QED  BY <1>1, <1>2, <1>4, CqesEnded DEF Pending

-----------------------------------------------------------------------------
(* Steps that leave the connections alone.                                 *)

LEMMA RestKept ==
    ASSUME BioInv, EpollKept, UNCHANGED <<task, connections, conn, ssl>>,
           pc' = "drive" <=> pc = "drive",
           pc' = "exited" => ~Draining'
    PROVE  TasksOk' /\ NoEpoll' /\ ExitOk' /\ ParkedOk'
<1>1. \A c : Driving(c)' <=> Driving(c)
  BY DEF Driving
<1>2. ParkedOk'
  BY <1>1 DEF BioInv, ParkedOk
<1>. QED  BY <1>2 DEF BioInv, TasksOk, NoEpoll, EpollKept, ExitOk

\* More may have arrived.
LEMMA FlowsKept ==
    ASSUME BioInv, UNCHANGED <<connections, conn, ssl>>, socket' \in [Fds -> Socket],
           \A c \in connections :
              /\ socket[c].arrived <= socket'[c].arrived /\ wire'[c] = wire[c]
              /\ CqesOf(Input(c))' = CqesOf(Input(c)) /\ CqesOf(Output(c))' = CqesOf(Output(c))
    PROVE  FlowsOk'
<1>1. cq \in Seq(Cqes) /\ connections \subseteq Fds /\ conn \in [Fds -> Connection]
      /\ socket \in [Fds -> Socket]
  BY DEF BioInv, CoreInv, TypeOK
<1>2. ASSUME NEW c \in connections
      PROVE  Flows(conn[c], ssl[c], socket'[c].arrived, wire'[c], CqesOf(Input(c))',
                   CqesOf(Output(c))')
  <2>1. Flows(conn[c], ssl[c], socket[c].arrived, wire[c], CqesOf(Input(c)),
              CqesOf(Output(c)))
    BY DEF BioInv, FlowsOk
  <2>2. conn[c] \in Connection /\ socket[c] \in Socket /\ socket'[c] \in Socket
    BY <1>1
  <2>3. conn[c].fed \in Nat /\ socket[c].arrived \in Nat /\ socket'[c].arrived \in Nat
    BY <2>2 DEF Connection, Socket
  <2>4. \A cqe \in CqesOf(Input(c)) : cqe.count \in Nat
    <3>1. \A i \in DOMAIN cq : cq[i].count \in Nat
      BY <1>1, QueuedCqes DEF Cqes
    <3>. QED  BY <3>1 DEF CqesOf
  <2> DEFINE received == CqesOf(Input(c))
  <2>5. Feeding(conn[c], ssl[c], socket[c].arrived, received)
           => Feeding(conn[c], ssl[c], socket'[c].arrived, received)
    <3> DEFINE old == socket[c].arrived
               new == socket'[c].arrived
               k == conn[c]
    <3>1. old \in Nat /\ new \in Nat /\ old <= new /\ k.fed \in Nat
          /\ \A cqe \in received : cqe.count \in Nat
      BY <2>3, <2>4
    <3> HIDE DEF old, new, k, received
    <3>2. Feeding(k, ssl[c], old, received) => Feeding(k, ssl[c], new, received)
      BY <3>1 DEF Feeding
    <3>. QED  BY <3>2 DEF old, new, k
  <2>. QED  BY <2>1, <2>5 DEF Flows
<1>. QED  BY <1>2 DEF FlowsOk

LEMMA WiresKept ==
    ASSUME BioInv, UNCHANGED <<connections, wire>>, CqFds' \subseteq CqFds
    PROVE  WiresOk'
  BY DEF BioInv, WiresOk

\* A result that hands nothing over.
LEMMA EmptyCqeFlows ==
    ASSUME BioInv, UNCHANGED <<connections, conn, ssl, socket, wire>>,
           NEW cqe \in Cqes, Post(cqe), cqe.op \in kernel, cqe.count = 0
    PROVE  FlowsOk'
<1>1. ASSUME NEW c \in connections
      PROVE  Flows(conn[c], ssl[c], socket[c].arrived, wire[c], CqesOf(Input(c))',
                   CqesOf(Output(c))')
  <2>1. Flows(conn[c], ssl[c], socket[c].arrived, wire[c], CqesOf(Input(c)),
              CqesOf(Output(c)))
    BY DEF BioInv, FlowsOk
  <2>2. c \in Fds /\ conn[c] \in Connection
    BY DEF BioInv, CoreInv, TypeOK
  <2>3. Input(c) # AcceptOp /\ Output(c) # AcceptOp
    <3>1. /\ Input(c) \in ConnectionOps(c) /\ Output(c) \in ConnectionOps(c)
          /\ AcceptOp \in WorkerOps
      BY DEF ConnectionOps, WorkerOps
    <3>. QED  BY <2>2, <3>1, OperationNames
  <2>4. /\ CqesOf(Input(c))' \in {CqesOf(Input(c)), {cqe}}
        /\ CqesOf(Output(c))' = CqesOf(Output(c))
              \/ (CqesOf(Output(c)) = {} /\ CqesOf(Output(c))' = {cqe})
    <3> DEFINE in == Input(c)
               out == Output(c)
    <3>1. in # AcceptOp /\ out # AcceptOp /\ CoreInv
      BY <2>3 DEF BioInv
    <3> HIDE DEF in, out
    <3>2. /\ \A op : op # cqe.op => CqesOf(op)' = CqesOf(op)
          /\ cqe.op # AcceptOp =>
                CqesOf(cqe.op) = {} /\ \A op : op = cqe.op => CqesOf(op)' = {cqe}
      BY <3>1, CqesPosted
    <3>3. CqesOf(in)' \in {CqesOf(in), {cqe}}
      BY <3>1, <3>2
    <3>4. CqesOf(out)' = CqesOf(out) \/ (CqesOf(out) = {} /\ CqesOf(out)' = {cqe})
      BY <3>1, <3>2
    <3>. QED  BY <3>3, <3>4 DEF in, out
  <2> DEFINE k == conn[c]
             received == CqesOf(Input(c))
             sent == CqesOf(Output(c))
             received2 == CqesOf(Input(c))'
             sent2 == CqesOf(Output(c))'
             arrived == socket[c].arrived
             w == wire[c]
  <2>5. /\ k.fed \in Nat /\ k.staged \in Nat /\ k.wire_length \in Nat /\ k.wire_offset \in Nat
    BY <2>2 DEF Connection
  <2>6. received2 \in {received, {cqe}} /\ (sent2 = sent \/ (sent = {} /\ sent2 = {cqe}))
    BY <2>4
  <2>7. Flows(k, ssl[c], arrived, w, received, sent)
    BY <2>1
  <2> HIDE DEF k, received, sent, received2, sent2, arrived, w
  <2>8. Feeding(k, ssl[c], arrived, received) => Feeding(k, ssl[c], arrived, received2)
    BY <2>5, <2>6 DEF Feeding
  <2>9. Staging(k, w, sent) => Staging(k, w, sent2)
    <3>1. CASE sent2 = sent
      BY <3>1
    <3>2. CASE sent = {} /\ sent2 = {cqe}
      <4>1. Sendable(k) + 0 = Sendable(k) /\ k.wire_offset + 0 = k.wire_offset
        BY <2>5 DEF Sendable
      <4>. QED  BY <3>2, <4>1 DEF Staging
    <3>. QED  BY <2>6, <3>1, <3>2
  <2>10. Flows(k, ssl[c], arrived, w, received2, sent2)
    BY <2>7, <2>8, <2>9 DEF Flows
  <2>. QED  BY <2>10 DEF k, received2, sent2, arrived, w
<1>. QED  BY <1>1 DEF FlowsOk

LEMMA FdsPosted ==
    ASSUME CoreInv, NEW cqe, Post(cqe)
    PROVE  /\ CqFds' \subseteq CqFds \cup {cqe.fd}
           /\ cqe.fd = NULL => CqFds' \subseteq CqFds
<1>1. cq \in Seq(Cqes) /\ Len(cq) \in Nat /\ cq' = Append(cq, cqe)
  BY LenProperties DEF CoreInv, TypeOK, Post
<1>2. \A i \in DOMAIN cq' : (i \in DOMAIN cq /\ cq'[i] = cq[i]) \/ cq'[i] = cqe
  BY <1>1
<1>. QED  BY <1>2 DEF CqFds

\* A new connection has produced nothing and was sent nothing.
LEMMA FreshFlows ==
    ASSUME NEW arrived \in Nat
    PROVE  Flows(NewConnection, NewSsl, arrived, <<>>, {}, {})
<1>1. Len(HandshakeSteps) \in Nat /\ RecordUnits \in Nat
  BY LeftCounts, EngineAssumption
<1>2. Len(<<>>) = 0
  BY EmptySeq
<1> DEFINE n == RecordUnits * RecordsPerCall
<1>3. n \in Nat /\ WireCapacity \in Nat
  BY RecordsCounted, WireAssumption
<1>4. Bounded(NewConnection, NewSsl)
  <2> HIDE DEF n
  <2>1. 0 - 0 <= WireCapacity + n
    BY <1>3
  <2>. QED  BY <2>1 DEF Bounded, NewConnection, NewSsl, n
<1>5. Whole(NewSsl)
  <2>1. NewSsl.out = <<>> /\ NewSsl.written = 0 /\ NewSsl.writing = NULL /\ NewSsl.steps = 0
    BY DEF NewSsl
  <2>2. RecordUnits * 0 - 0 = 0
    BY <1>1
  <2>3. Unwritten(NewSsl) = 0
    BY <1>2, <2>1, <2>2 DEF Unwritten
  <2>. QED  BY <1>1, <2>1, <2>3 DEF Whole
<1>6. Feeding(NewConnection, NewSsl, arrived, {})
  BY DEF Feeding, NewConnection, NewSsl
<1>7. Staging(NewConnection, <<>>, {})
  BY <1>2 DEF Staging, Sendable, NewConnection
<1>. QED  BY <1>4, <1>5, <1>6, <1>7 DEF Flows

LEMMA ListenStep ==
    ASSUME BioInv, Listen, UNCHANGED wire
    PROVE  BioInv'
<1>1. CoreInv' /\ EpollKept
  BY ListenKeeps DEF BioInv
<1>2. /\ pc \in {"wait", "reap"} /\ cq # <<>> /\ cq' = Tail(cq) /\ socket' = socket
      /\ Head(cq).op[1] = "accept" \/ Head(cq).op = CancelAccept
  BY DEF Listen, AcceptedConnection, AcceptedWhileStopping, AcceptEnded,
         CancelAcceptCompleted, Completes
<1>3. /\ cq \in Seq(Cqes) /\ CqWellFormed /\ connections \subseteq Fds
      /\ socket \in [Fds -> Socket]
  BY DEF BioInv, CoreInv, TypeOK
<1>4. /\ CqFds' = CqFds \ {Head(cq).fd}
      /\ Head(cq).fd # NULL => Head(cq).fd \in CqFds
  BY <1>2, <1>3, TailQueue
<1>5. ASSUME NEW c \in Fds
      PROVE  /\ CqesOf(Input(c))' = CqesOf(Input(c))
             /\ CqesOf(Output(c))' = CqesOf(Output(c))
  <2>1. Input(c) # Head(cq).op /\ Output(c) # Head(cq).op
    BY <1>2, OperationKinds
  <2>. QED  BY <1>2, <2>1, CqesOfOthers DEF BioInv
<1>6. CASE AcceptedConnection
  <2>0. PICK c : c = Head(cq).fd
    OBVIOUS
  <2>1. /\ pc' = "drive" /\ task' = Task(c, "accept")
        /\ connections' = connections \cup {c}
        /\ conn' = [conn EXCEPT ![c] = NewConnection]
        /\ ssl' = [ssl EXCEPT ![c] = NewSsl]
    BY <1>6, <2>0 DEF AcceptedConnection, Completes
  <2>2. c \in Fds \ connections /\ c # NULL /\ c \in CqFds
    <3>1. c \in Fds \ connections
      BY <1>6, <2>0, AcceptedConnectionKeeps DEF BioInv
    <3>. QED  BY <1>4, <2>0, <3>1, WorkerAssumption
  <2>3. CqFds' \subseteq CqFds \ {c}
    BY <1>4, <2>0
  <2>4. /\ conn \in [Fds -> Connection] /\ ssl \in [Fds -> Ssl] /\ wire[c] = <<>>
    BY <2>2 DEF BioInv, CoreInv, TypeOK, WiresOk
  <2>5. task'.fd = c /\ task'.then = "accept"
    BY <2>1 DEF Task
  <2>6. CqesOf(Input(c)) = {} /\ CqesOf(Output(c)) = {}
    <3>1. Input(c) \in ConnectionOps(c) /\ Output(c) \in ConnectionOps(c)
      BY DEF ConnectionOps
    <3>2. Input(c) \notin EndedOps /\ Output(c) \notin EndedOps
      BY <2>2, <3>1 DEF BioInv, CoreInv, OthersOk, Pending
    <3>3. /\ Input(c) \in Operations /\ Output(c) \in Operations
          /\ Input(c) # AcceptOp /\ Output(c) # AcceptOp
      BY <2>2, <3>1, OperationNames DEF WorkerOps
    <3>. QED  BY <3>2, <3>3, CqesEnded DEF BioInv
  <2>7. FlowsOk'
    <3>1. ASSUME NEW b \in connections'
          PROVE  Flows(conn'[b], ssl'[b], socket'[b].arrived, wire'[b], CqesOf(Input(b))',
                       CqesOf(Output(b))')
      <4>1. CASE b = c
        <5>1. socket[c].arrived \in Nat
          BY <1>3, <2>2 DEF Socket
        <5>2. conn'[c] = NewConnection /\ ssl'[c] = NewSsl
          BY <2>1, <2>2, <2>4
        <5>3. CqesOf(Input(c))' = {} /\ CqesOf(Output(c))' = {}
          BY <1>5, <2>2, <2>6
        <5>. QED  BY <1>2, <2>4, <4>1, <5>1, <5>2, <5>3, FreshFlows
      <4>2. CASE b # c
        <5>1. b \in connections /\ b \in Fds /\ conn'[b] = conn[b] /\ ssl'[b] = ssl[b]
          BY <1>3, <2>1, <2>4, <4>2
        <5>2. Flows(conn[b], ssl[b], socket[b].arrived, wire[b], CqesOf(Input(b)),
                    CqesOf(Output(b)))
          BY <5>1 DEF BioInv, FlowsOk
        <5>3. /\ CqesOf(Input(b))' = CqesOf(Input(b))
              /\ CqesOf(Output(b))' = CqesOf(Output(b))
          BY <1>5, <5>1
        <5>. QED  BY <1>2, <5>1, <5>2, <5>3
      <4>. QED  BY <4>1, <4>2
    <3>. QED  BY <3>1 DEF FlowsOk
  <2>8. ParkedOk'
    <3>1. ASSUME NEW b \in connections', ~conn'[b].dead, ~Driving(b)'
          PROVE  Parked(conn'[b], ssl'[b])
      <4>1. b # c
        BY <2>1, <2>5, <3>1 DEF Driving
      <4>2. b \in connections /\ conn'[b] = conn[b] /\ ssl'[b] = ssl[b]
        BY <2>1, <2>4, <4>1
      <4>3. ~Driving(b)
        BY <1>2 DEF Driving
      <4>. QED  BY <3>1, <4>2, <4>3 DEF BioInv, ParkedOk
    <3>. QED  BY <3>1 DEF ParkedOk
  <2>9. WiresOk'
    <3>1. InOrder(<<>>)
      BY EmptySeq DEF InOrder
    <3>2. \A b \in connections' : InOrder(wire[b])
      BY <2>1, <2>4, <3>1 DEF BioInv, WiresOk
    <3>. QED  BY <2>3, <3>2 DEF BioInv, WiresOk
  <2>10. TasksOk' /\ NoEpoll' /\ ExitOk'
    BY <1>1, <2>1, <2>5 DEF BioInv, TasksOk, NoEpoll, EpollKept, ExitOk
  <2>. QED  BY <1>1, <2>7, <2>8, <2>9, <2>10 DEF BioInv
<1>7. CASE AcceptedWhileStopping \/ AcceptEnded \/ CancelAcceptCompleted
  <2>1. pc' = "reap" /\ UNCHANGED <<task, connections, conn, ssl>>
    BY <1>7 DEF AcceptedWhileStopping, AcceptEnded, CancelAcceptCompleted, Completes
  <2>2. TasksOk' /\ NoEpoll' /\ ExitOk' /\ ParkedOk'
    BY <1>1, <1>2, <2>1, RestKept
  <2>3. \A c \in Fds : socket[c].arrived <= socket'[c].arrived
    BY <1>2, <1>3 DEF Socket
  <2>4. FlowsOk'
    BY <1>2, <1>3, <1>5, <2>1, <2>3, FlowsKept
  <2>5. WiresOk'
    BY <1>4, <2>1, WiresKept
  <2>. QED  BY <1>1, <2>2, <2>4, <2>5 DEF BioInv
<1>. QED  BY <1>6, <1>7 DEF Listen

\* Nothing is taken from the queue or added, and nothing moves.
LEMMA StillKept ==
    ASSUME BioInv, UNCHANGED <<connections, conn, ssl, socket, wire, cq>>
    PROVE  FlowsOk' /\ WiresOk'
<1>1. socket \in [Fds -> Socket] /\ connections \subseteq Fds
  BY DEF BioInv, CoreInv, TypeOK
<1>2. \A c \in connections : socket[c].arrived <= socket'[c].arrived
  BY <1>1 DEF Socket
<1>3. \A op : CqesOf(op)' = CqesOf(op)
  BY DEF CqesOf
<1>4. FlowsOk'
  BY <1>1, <1>2, <1>3, FlowsKept
<1>5. CqFds' \subseteq CqFds
  BY DEF CqFds
<1>. QED  BY <1>4, <1>5, WiresKept

LEMMA MainStep ==
    ASSUME BioInv, Main
    PROVE  BioInv'
<1>1. CASE StartShutdown(Draining, {})
  <2>1. /\ CoreInv'
        /\ EpollOp \in Pending' <=> EpollOp \in Pending
        /\ CancelEpoll \in Pending' <=> CancelEpoll \in Pending
        /\ \A c \in connections' :
              /\ c \in connections /\ conn'[c].dead
              /\ conn'[c].staged = conn[c].staged /\ ssl'[c] = ssl[c]
    BY <1>1, StartShutdownKeeps DEF BioInv
  <2>2. pc' = "wait" /\ task' = task /\ cq' = cq /\ wire' = wire
    BY <1>1 DEF StartShutdown, Main
  <2>3. FlowsOk'
    <3>1. \A c \in connections : Bounded(conn[c], ssl[c])
      BY DEF BioInv, FlowsOk, Flows
    <3>2. \A c \in connections' : Bounded(conn'[c], ssl'[c])
      BY <2>1, <3>1 DEF Bounded
    <3>. QED  BY <2>1, <3>2 DEF FlowsOk, Flows
  <2>4. WiresOk'
    BY <2>1, <2>2 DEF BioInv, WiresOk, CqFds
  <2>. QED  BY <2>1, <2>2, <2>3, <2>4 DEF BioInv, TasksOk, NoEpoll, ParkedOk, ExitOk
<1>2. CASE Submit(Draining) \/ NoCqeLeft \/ Exit(Draining)
  <2>1. CoreInv' /\ EpollKept
    BY <1>2, MainKeeps DEF BioInv
  <2>2. /\ UNCHANGED <<task, connections, conn, ssl, cq, socket>>
        /\ pc # "drive" /\ pc' # "drive"
        /\ pc' = "exited" => ~Draining'
    BY <1>2 DEF Submit, NoCqeLeft, Exit, Draining, listening
  <2>3. UNCHANGED wire
    BY DEF Main
  <2>. QED  BY <2>1, <2>2, <2>3, RestKept, StillKept DEF BioInv
<1>. QED  BY <1>1, <1>2 DEF Main

LEMMA SignalStep ==
    ASSUME BioInv, Signal
    PROVE  BioInv'
<1>1. CoreInv' /\ EpollKept
  BY SignalStopKeeps, MainKeeps DEF BioInv, Signal
<1>2. /\ UNCHANGED <<task, connections, conn, ssl, cq, socket, wire>>
      /\ pc' = "drive" <=> pc = "drive"
      /\ pc' = "exited" => ~Draining'
  BY DEF Signal, SignalStop, SubmitInterrupted
<1>. QED  BY <1>1, <1>2, RestKept, StillKept DEF BioInv

-----------------------------------------------------------------------------
(* The kernel and the peers.                                               *)

\* An operation of c posts its CQE.
LEMMA FlowsBut ==
    ASSUME BioInv, UNCHANGED <<connections, conn, ssl, socket>>, NEW c \in Fds,
           NEW cqe, Post(cqe), cqe.op \in kernel, cqe.op \in ConnectionOps(c),
           \A b \in Fds : b # c => wire'[b] = wire[b],
           c \in connections => Flows(conn[c], ssl[c], socket[c].arrived, wire'[c],
                                      CqesOf(Input(c))', CqesOf(Output(c))')
    PROVE  FlowsOk'
<1>1. ASSUME NEW b \in connections, b # c
      PROVE  Flows(conn[b], ssl[b], socket[b].arrived, wire'[b], CqesOf(Input(b))',
                   CqesOf(Output(b))')
  <2>1. b \in Fds
    BY DEF BioInv, CoreInv, TypeOK
  <2>2. Input(b) \in ConnectionOps(b) /\ Output(b) \in ConnectionOps(b)
    BY DEF ConnectionOps
  <2>3. Input(b) # cqe.op /\ Output(b) # cqe.op
    BY <1>1, <2>1, <2>2, OperationNames
  <2>4. CqesOf(Input(b))' = CqesOf(Input(b)) /\ CqesOf(Output(b))' = CqesOf(Output(b))
    BY <2>3, CqesPosted DEF BioInv
  <2>5. Flows(conn[b], ssl[b], socket[b].arrived, wire[b], CqesOf(Input(b)),
              CqesOf(Output(b)))
    BY DEF BioInv, FlowsOk
  <2>. QED  BY <1>1, <2>1, <2>4, <2>5
<1>. QED  BY <1>1 DEF FlowsOk

\* The results of a receive and of a send: the other is as it was.
LEMMA ConnectionPosts ==
    ASSUME BioInv, NEW c \in Fds, NEW cqe, Post(cqe), cqe.op \in kernel
    PROVE  /\ cqe.op = Input(c) =>
                 CqesOf(Input(c))' = {cqe} /\ CqesOf(Output(c))' = CqesOf(Output(c))
           /\ cqe.op = Output(c) =>
                 /\ CqesOf(Output(c)) = {} /\ CqesOf(Output(c))' = {cqe}
                 /\ CqesOf(Input(c))' = CqesOf(Input(c))
<1> DEFINE in == Input(c)
           out == Output(c)
<1>1. in # AcceptOp /\ out # AcceptOp /\ in # out
  <2>1. in \in ConnectionOps(c) /\ out \in ConnectionOps(c) /\ AcceptOp \in WorkerOps
    BY DEF ConnectionOps, WorkerOps
  <2>. QED  BY <2>1, OperationNames
<1> HIDE DEF in, out
<1>2. /\ \A op : op # cqe.op => CqesOf(op)' = CqesOf(op)
      /\ cqe.op # AcceptOp =>
            CqesOf(cqe.op) = {} /\ \A op : op = cqe.op => CqesOf(op)' = {cqe}
  BY CqesPosted DEF BioInv
<1>3. ASSUME cqe.op = in
      PROVE  CqesOf(in)' = {cqe} /\ CqesOf(out)' = CqesOf(out)
  BY <1>1, <1>2, <1>3
<1>4. ASSUME cqe.op = out
      PROVE  CqesOf(out) = {} /\ CqesOf(out)' = {cqe} /\ CqesOf(in)' = CqesOf(in)
  BY <1>1, <1>2, <1>4
<1>. QED  BY <1>3, <1>4 DEF in, out

\* A CQE that says how much was received or sent.
Counted(op, count) == [Cqe(op, "ok", FALSE) EXCEPT !.count = count]

LEMMA CountedCqePosted ==
    ASSUME CoreInv, NEW c \in Fds, NEW op \in {Input(c), Output(c)}, op \in kernel,
           NEW count \in Nat, Completed(Counted(op, count)), UNCHANGED socket
    PROVE  /\ CoreInv' /\ EpollKept /\ c \in connections
           /\ Post(Counted(op, count)) /\ Counted(op, count).op = op
           /\ Counted(op, count).count = count /\ CqFds' \subseteq CqFds
<1> DEFINE cqe == Counted(op, count)
<1>1. op \in Operations /\ op # AcceptOp /\ op \in ConnectionOps(c)
  <2>1. op \in ConnectionOps(c) /\ AcceptOp \in WorkerOps
    BY DEF ConnectionOps, WorkerOps
  <2>. QED  BY <2>1, OperationNames
<1>2. /\ cqe \in Cqes /\ cqe.op = op /\ cqe.res = "ok" /\ ~cqe.more /\ cqe.fd = NULL
      /\ cqe.count = count
  BY <1>1 DEF Counted, Cqe, Cqes
<1>3. Completed(cqe)
  OBVIOUS
<1> HIDE DEF cqe
<1>4. /\ UNCHANGED <<worker, sq, open, arrivals>> /\ Post(cqe) /\ EndUnlessMore(cqe.op, cqe.more)
  BY <1>3 DEF Completed
<1>5. /\ NULL \notin open /\ arrivals' \in 0..MaxArrivals /\ open' = open \cup ({cqe.fd} \ {NULL})
  BY <1>2, <1>4, WorkerAssumption DEF CoreInv, TypeOK
<1>6. socket' \in [Fds -> Socket] /\ SocketsOk'
  BY <1>4, QuietFacts DEF worker
<1>7. CoreInv' /\ EpollKept
  BY <1>1, <1>2, <1>4, <1>5, <1>6, CqePosted
<1>8. c \in connections
  BY <1>1 DEF CoreInv, OthersOk, Pending
<1>9. CqFds' \subseteq CqFds
  BY <1>2, <1>4, FdsPosted
<1>. QED  BY <1>2, <1>4, <1>7, <1>8, <1>9 DEF cqe

\* What has arrived is received, as much as wire_input holds.
LEMMA ReceiveStep ==
    ASSUME BioInv, NEW c \in Fds, KernelReceives(c)
    PROVE  CoreInv' /\ EpollKept /\ FlowsOk' /\ WiresOk'
<1> DEFINE count == Min({Arrived(c), WireCapacity})
           cqe == Counted(Input(c), count)
<1>1. /\ Input(c) \in kernel /\ Arrived(c) > 0 /\ Completed(cqe)
      /\ UNCHANGED <<socket, wire>>
  BY DEF KernelReceives, Counted
<1>2. /\ conn[c] \in Connection /\ socket[c] \in Socket
  BY DEF BioInv, CoreInv, TypeOK
<1>3. conn[c].fed \in Nat /\ socket[c].arrived \in Nat
  BY <1>2 DEF Connection, Socket
<1>4. count \in Nat /\ conn[c].fed + count <= socket[c].arrived
  <2>1. /\ Arrived(c) \in Int /\ WireCapacity \in Nat
        /\ Arrived(c) = socket[c].arrived - conn[c].fed
    BY <1>3, WireAssumption DEF Arrived
  <2>2. count \in Nat /\ count <= Arrived(c)
    <3>1. ASSUME NEW a \in Int, NEW b \in Nat, a > 0
          PROVE  Min({a, b}) \in Nat /\ Min({a, b}) <= a
      BY <3>1, MinOfTwo
    <3>. QED  BY <1>1, <2>1, <3>1
  <2> HIDE DEF count
  <2>. QED  BY <1>3, <2>1, <2>2
<1>5. PICK n \in Nat : n = count
  BY <1>4
<1>6. PICK e : e = Counted(Input(c), n)
  OBVIOUS
<1> HIDE DEF count
<1>7. e = cqe
  BY <1>5, <1>6
<1> HIDE DEF cqe
<1>8. Completed(Counted(Input(c), n))
  BY <1>1, <1>6, <1>7
<1>9. /\ CoreInv' /\ EpollKept /\ c \in connections /\ Post(e) /\ e.op = Input(c)
      /\ e.count = n /\ CqFds' \subseteq CqFds
  BY <1>1, <1>6, <1>8, CountedCqePosted DEF BioInv
<1>10. /\ CqesOf(Input(c))' = {e} /\ CqesOf(Output(c))' = CqesOf(Output(c))
  BY <1>1, <1>9, ConnectionPosts
<1>11. UNCHANGED <<connections, conn, ssl>>
  BY <1>1 DEF Completed, worker
<1>12. Flows(conn[c], ssl[c], socket[c].arrived, wire[c], {e}, CqesOf(Output(c)))
  <2>1. Flows(conn[c], ssl[c], socket[c].arrived, wire[c], CqesOf(Input(c)),
              CqesOf(Output(c)))
    BY <1>9 DEF BioInv, FlowsOk
  <2>. QED  BY <1>4, <1>5, <1>9, <2>1 DEF Flows, Feeding
<1>13. FlowsOk'
  <2>1. e.op \in ConnectionOps(c) /\ e.op \in kernel
    BY <1>1, <1>9 DEF ConnectionOps
  <2>. QED  BY <1>1, <1>9, <1>10, <1>11, <1>12, <2>1, FlowsBut
<1>14. WiresOk'
  BY <1>1, <1>9, <1>11, WiresKept
<1>. QED  BY <1>9, <1>13, <1>14

\* The units that follow those on the wire are appended.
LEMMA WireExtended ==
    ASSUME NEW w \in Seq(Nat), InOrder(w), NEW n \in Nat, NEW from, from = Len(w)
    PROVE  LET v == w \o [i \in 1..n |-> from + i]
           IN v \in Seq(Nat) /\ InOrder(v) /\ Len(v) = Len(w) + n
<1> DEFINE u == [i \in 1..n |-> from + i]
           v == w \o u
<1>1. Len(w) \in Nat /\ from \in Nat
  BY LenProperties
<1>2. u \in Seq(Nat) /\ Len(u) = n /\ \A i \in 1..n : u[i] = from + i
  BY <1>1
<1> HIDE DEF u
<1>3. /\ v \in Seq(Nat) /\ Len(v) = Len(w) + n
      /\ \A i \in 1..Len(w) + n : v[i] = IF i <= Len(w) THEN w[i] ELSE u[i - Len(w)]
  BY <1>2, ConcatProperties
<1>4. ASSUME NEW i \in 1..Len(w) + n
      PROVE  v[i] = i
  <2>0. i \in Nat /\ 1 <= i /\ i <= Len(w) + n
    BY <1>1
  <2> HIDE DEF v
  <2>1. CASE i <= Len(w)
    <3>1. i \in 1..Len(w)
      BY <1>1, <2>0, <2>1
    <3>2. w[i] = i
      BY <3>1 DEF InOrder
    <3>. QED  BY <1>3, <2>1, <3>2
  <2>2. CASE ~(i <= Len(w))
    <3>1. i - Len(w) \in 1..n /\ from + (i - Len(w)) = i
      BY <1>1, <2>0, <2>2
    <3>. QED  BY <1>2, <1>3, <2>2, <3>1
  <2>. QED  BY <2>1, <2>2
<1>. QED  BY <1>3, <1>4 DEF InOrder, u

\* The kernel takes what is next of wire_output, if the socket has room.
LEMMA SendStep ==
    ASSUME BioInv, NEW c \in Fds, KernelSends(c)
    PROVE  CoreInv' /\ EpollKept /\ FlowsOk' /\ WiresOk'
<1> DEFINE k == conn[c]
           count == Min({Room(c), k.wire_length - k.wire_offset})
           from == k.staged - k.wire_length + k.wire_offset
           cqe == Counted(Output(c), count)
           w == wire[c]
<1>1. /\ Output(c) \in kernel /\ Room(c) > 0 /\ ~k.dead /\ Completed(cqe)
      /\ wire' = [wire EXCEPT ![c] = w \o [i \in 1..count |-> from + i]]
      /\ UNCHANGED socket
  BY DEF KernelSends, Counted
<1>2. /\ k \in Connection /\ socket[c] \in Socket /\ wire \in [Fds -> Seq(Nat)]
  BY DEF BioInv, CoreInv, TypeOK, WiresOk
<1>3. /\ k.staged \in Nat /\ k.wire_length \in Nat /\ k.wire_offset \in Nat
      /\ socket[c].read \in Nat /\ w \in Seq(Nat) /\ Len(w) \in Nat
  BY <1>2, LenProperties DEF Connection, Socket
<1>4. c \in connections
  <2>1. Output(c) \in ConnectionOps(c)
    BY DEF ConnectionOps
  <2>. QED  BY <1>1, <2>1 DEF BioInv, CoreInv, OthersOk, Pending
<1>5. Flows(k, ssl[c], socket[c].arrived, w, CqesOf(Input(c)), CqesOf(Output(c)))
  BY <1>4 DEF BioInv, FlowsOk
<1>6. CqesOf(Output(c)) = {}
  <2>1. Output(c) # AcceptOp
    <3>1. Output(c) \in ConnectionOps(c) /\ AcceptOp \in WorkerOps
      BY DEF ConnectionOps, WorkerOps
    <3>. QED  BY <3>1, OperationNames
  <2>2. Output(c) \in Operations /\ Output(c) \notin EndedOps
    BY <1>1 DEF BioInv, CoreInv, TypeOK, QueuesOk
  <2>. QED  BY <2>1, <2>2, CqesEnded DEF BioInv
<1>7. /\ k.wire_offset <= k.wire_length /\ Len(w) = Sendable(k)
      /\ Whole(ssl[c]) /\ Bounded(k, ssl[c])
      /\ Feeding(k, ssl[c], socket[c].arrived, CqesOf(Input(c)))
      /\ Staging(k, w, {})
  BY <1>1, <1>5, <1>6 DEF Flows, Staging
<1>8. count \in Nat /\ k.wire_offset + count <= k.wire_length /\ from = Len(w)
  <2> DEFINE left == k.wire_length - k.wire_offset
  <2>1. left \in Nat /\ k.wire_offset + left = k.wire_length
    BY <1>3, <1>7
  <2>2. Room(c) \in Int
    BY <1>3, WorkerAssumption DEF Room
  <2> HIDE DEF left, k
  <2>3. count \in Nat /\ count <= left
    BY <1>1, <2>1, <2>2, MinOfTwo DEF left
  <2> HIDE DEF count
  <2>. QED  BY <1>3, <1>7, <2>1, <2>3 DEF Sendable
<1>9. PICK n \in Nat : n = count
  BY <1>8
<1>10. PICK e : e = Counted(Output(c), n)
  OBVIOUS
<1> HIDE DEF count, from, k, w
<1>11. e = cqe
  BY <1>9, <1>10
<1> HIDE DEF cqe
<1>12. Completed(Counted(Output(c), n))
  BY <1>1, <1>10, <1>11
<1>13. /\ CoreInv' /\ EpollKept /\ Post(e) /\ e.op = Output(c)
       /\ e.count = n /\ CqFds' \subseteq CqFds
  BY <1>1, <1>10, <1>12, CountedCqePosted DEF BioInv
<1>14. CqesOf(Output(c))' = {e} /\ CqesOf(Input(c))' = CqesOf(Input(c))
  BY <1>1, <1>13, ConnectionPosts
<1>15. UNCHANGED <<connections, conn, ssl>>
  BY <1>1 DEF Completed, worker
<1> DEFINE v == w \o [i \in 1..n |-> from + i]
<1>16. wire' = [wire EXCEPT ![c] = v]
  BY <1>1, <1>9
<1>17. v \in Seq(Nat) /\ InOrder(v) /\ Len(v) = Len(w) + n
  <2>1. InOrder(w)
    BY <1>4 DEF BioInv, WiresOk, w
  <2>. QED  BY <1>3, <1>8, <2>1, WireExtended
<1> HIDE DEF v
<1>18. wire'[c] = v /\ wire' \in [Fds -> Seq(Nat)] /\ \A b \in Fds : b # c => wire'[b] = wire[b]
  BY <1>2, <1>16, <1>17
<1>19. Staging(k, v, {e})
  BY <1>7, <1>8, <1>9, <1>13, <1>17 DEF Staging
<1>20. Flows(conn[c], ssl[c], socket[c].arrived, wire'[c], CqesOf(Input(c)), {e})
  BY <1>7, <1>18, <1>19 DEF Flows, k
<1>21. FlowsOk'
  <2>1. e.op \in ConnectionOps(c) /\ e.op \in kernel
    BY <1>1, <1>13 DEF ConnectionOps
  <2>. QED  BY <1>1, <1>13, <1>14, <1>15, <1>18, <1>20, <2>1, FlowsBut
<1>22. WiresOk'
  <2>1. \A b \in connections : b # c => InOrder(wire'[b])
    <3>1. \A b \in connections : b \in Fds /\ InOrder(wire[b])
      BY DEF BioInv, WiresOk, CoreInv, TypeOK
    <3>. QED  BY <1>18, <3>1
  <2>2. c \notin CqFds
    BY <1>4 DEF BioInv, CoreInv, DescriptorsOk
  <2>3. \A b \in CqFds' : wire'[b] = <<>>
    <3>1. \A b \in CqFds : b \in Fds /\ wire[b] = <<>>
      BY DEF BioInv, WiresOk, CoreInv, TypeOK, DescriptorsOk
    <3>. QED  BY <1>13, <1>18, <2>2, <3>1
  <2>. QED  BY <1>15, <1>17, <1>18, <2>1, <2>3 DEF WiresOk
<1>. QED  BY <1>13, <1>21, <1>22

\* A result that hands nothing over, of whichever operation.
LEMMA EmptyPosted ==
    ASSUME BioInv, UNCHANGED <<socket, wire>>, NEW op \in Operations, op \in kernel,
           NEW res \in {"ok", "eof", "error", "canceled"}, Completed(Cqe(op, res, FALSE))
    PROVE  FlowsOk' /\ WiresOk'
<1> DEFINE cqe == Cqe(op, res, FALSE)
<1>1. cqe \in Cqes /\ cqe.op = op /\ cqe.count = 0 /\ cqe.fd = NULL
  BY DEF Cqe, Cqes
<1>2. Post(cqe) /\ UNCHANGED <<connections, conn, ssl>>
  BY DEF Completed, worker
<1> HIDE DEF cqe
<1>3. FlowsOk'
  BY <1>1, <1>2, EmptyCqeFlows
<1>4. CqFds' \subseteq CqFds
  BY <1>1, <1>2, FdsPosted DEF BioInv
<1>. QED  BY <1>2, <1>3, <1>4, WiresKept

\* The descriptor of a new connection is nobody's, and its wire is empty.
LEMMA AcceptPosted ==
    ASSUME BioInv, CoreInv', NEW c \in Fds, KernelAccepts(c), wire' = [wire EXCEPT ![c] = <<>>]
    PROVE  FlowsOk' /\ WiresOk'
<1>1. PICK more \in MayContinue, script \in Scripts :
          /\ Post([Cqe(AcceptOp, "ok", more) EXCEPT !.fd = c])
          /\ socket' = [socket EXCEPT ![c] = [NoSocket EXCEPT !.script = script]]
  BY DEF KernelAccepts
<1> DEFINE cqe == [Cqe(AcceptOp, "ok", more) EXCEPT !.fd = c]
<1>2. cqe.op = AcceptOp /\ cqe.fd = c /\ Post(cqe)
  BY <1>1 DEF Cqe
<1> HIDE DEF cqe
<1>3. /\ AcceptOp \in kernel /\ c \notin open /\ UNCHANGED <<connections, conn, ssl>>
      /\ socket' \in [Fds -> Socket] /\ socket \in [Fds -> Socket]
      /\ connections \subseteq Fds /\ wire \in [Fds -> Seq(Nat)]
  BY DEF KernelAccepts, worker, BioInv, CoreInv, TypeOK, WiresOk
<1>4. c \notin connections /\ c \notin CqFds
  BY <1>3 DEF BioInv, CoreInv, DescriptorsOk
<1>5. ASSUME NEW b \in connections
      PROVE  /\ socket[b].arrived <= socket'[b].arrived /\ wire'[b] = wire[b]
             /\ CqesOf(Input(b))' = CqesOf(Input(b)) /\ CqesOf(Output(b))' = CqesOf(Output(b))
  <2>1. b # c /\ b \in Fds
    BY <1>3, <1>4
  <2>2. Input(b) # cqe.op /\ Output(b) # cqe.op
    <3>1. Input(b) \in ConnectionOps(b) /\ Output(b) \in ConnectionOps(b) /\ AcceptOp \in WorkerOps
      BY DEF ConnectionOps, WorkerOps
    <3>. QED  BY <1>2, <2>1, <3>1, OperationNames
  <2>3. CqesOf(Input(b))' = CqesOf(Input(b)) /\ CqesOf(Output(b))' = CqesOf(Output(b))
    BY <1>2, <1>3, <2>2, CqesPosted DEF BioInv
  <2>4. socket'[b] = socket[b] /\ wire'[b] = wire[b] /\ socket[b] \in Socket
    BY <1>1, <1>3, <2>1
  <2>5. socket[b].arrived \in Nat
    BY <2>4 DEF Socket
  <2>. QED  BY <2>3, <2>4, <2>5
<1>6. FlowsOk'
  BY <1>3, <1>5, FlowsKept
<1>7. wire' \in [Fds -> Seq(Nat)]
  <2>1. <<>> \in Seq(Nat)
    BY EmptySeq
  <2>. QED  BY <1>3, <2>1
<1>8. \A b \in connections' : InOrder(wire'[b])
  BY <1>3, <1>5 DEF BioInv, WiresOk
<1>9. \A b \in CqFds' : wire'[b] = <<>>
  <2>1. CqFds' \subseteq CqFds \cup {c}
    BY <1>2, FdsPosted DEF BioInv
  <2>2. \A b \in CqFds : b \in Fds /\ wire[b] = <<>>
    BY DEF BioInv, WiresOk, CoreInv, DescriptorsOk, TypeOK
  <2>. QED  BY <1>3, <2>1, <2>2
<1>. QED  BY <1>6, <1>7, <1>8, <1>9 DEF WiresOk

\* More arrives, or the peer leaves or reads: no CQE is posted.
LEMMA PeerStep ==
    ASSUME BioInv, NEW c \in Fds, UNCHANGED wire,
           PeerSends(c) \/ PeerLeaves(c) \/ PeerReads(c, Len(wire[c]))
    PROVE  CoreInv' /\ EpollKept /\ FlowsOk' /\ WiresOk'
<1>1. Len(wire[c]) \in Nat
  BY LenProperties DEF BioInv, WiresOk
<1>2. CoreInv' /\ EpollKept
  BY <1>1, PeerSendsKeeps, PeerLeavesKeeps, PeerReadsKeeps DEF BioInv
<1>3. UNCHANGED <<connections, conn, ssl, cq>>
  BY DEF PeerSends, PeerLeaves, PeerReads, worker
<1>4. socket' \in [Fds -> Socket] /\ socket \in [Fds -> Socket] /\ connections \subseteq Fds
  BY <1>2 DEF BioInv, CoreInv, TypeOK
<1>5. \A b \in Fds : socket[b].arrived <= socket'[b].arrived
  <2>1. \A b \in Fds : socket[b] \in Socket /\ socket[b].arrived \in Nat
    BY <1>4 DEF Socket
  <2>2. CASE PeerSends(c)
    <3>1. PICK n \in {1, RecordPieces} : socket' = [socket EXCEPT ![c].arrived = @ + n]
      BY <2>2 DEF PeerSends
    <3>2. n \in Nat
      BY <3>1 DEF RecordPieces
    <3>3. ASSUME NEW b \in Fds PROVE socket[b].arrived <= socket'[b].arrived
      <4>1. CASE b = c
        <5>1. socket'[b].arrived = socket[b].arrived + n
          BY <1>4, <2>1, <3>1, <4>1 DEF Socket
        <5>. QED  BY <2>1, <3>2, <5>1
      <4>2. CASE b # c
        BY <1>4, <2>1, <3>1, <4>2
      <4>. QED  BY <4>1, <4>2
    <3>. QED  BY <3>3
  <2>3. CASE PeerLeaves(c)
    <3>1. PICK how : socket' = [socket EXCEPT ![c].behind = how]
      BY <2>3 DEF PeerLeaves
    <3>2. \A b \in Fds : socket'[b].arrived = socket[b].arrived
      BY <1>4, <3>1 DEF Socket
    <3>. QED  BY <2>1, <3>2
  <2>4. CASE PeerReads(c, Len(wire[c]))
    <3>1. PICK n : socket' = [socket EXCEPT ![c].read = n]
      BY <2>4 DEF PeerReads
    <3>2. \A b \in Fds : socket'[b].arrived = socket[b].arrived
      BY <1>4, <3>1 DEF Socket
    <3>. QED  BY <2>1, <3>2
  <2>. QED  BY <2>2, <2>3, <2>4
<1>6. \A op : CqesOf(op)' = CqesOf(op)
  BY <1>3 DEF CqesOf
<1>7. \A b \in connections : wire'[b] = wire[b] /\ socket[b].arrived <= socket'[b].arrived
  BY <1>4, <1>5
<1>8. FlowsOk'
  BY <1>3, <1>4, <1>6, <1>7, FlowsKept
<1>9. CqFds' \subseteq CqFds
  BY <1>3 DEF CqFds
<1>. QED  BY <1>2, <1>3, <1>8, <1>9, WiresKept

LEMMA KernelStep ==
    ASSUME BioInv, Kernel
    PROVE  BioInv'
<1>1. UNCHANGED worker
  BY DEF Kernel, KernelAcceptFails, CancelSteps, KernelFindsTarget, KernelEndsTarget,
         KernelCancels, KernelAccepts, KernelFails, KernelReceives, KernelReceivesEnd,
         KernelSends, KernelSendFails, Completed, PeerSends, PeerLeaves, PeerReads
<1>2. CoreInv' /\ EpollKept /\ FlowsOk' /\ WiresOk'
  <2>1. CASE (KernelAcceptFails \/ CancelSteps) /\ UNCHANGED wire
    <3>1. CoreInv' /\ EpollKept
      BY <2>1, KernelFailsKeeps, CancelStepsKeep DEF BioInv
    <3>2. CASE KernelAcceptFails
      <4>1. AcceptOp \in Operations
        BY OperationNames DEF WorkerOps
      <4>2. /\ AcceptOp \in kernel /\ Completed(Cqe(AcceptOp, "error", FALSE))
            /\ UNCHANGED <<socket, wire>>
        BY <2>1, <3>2 DEF KernelAcceptFails
      <4>. QED  BY <3>1, <4>1, <4>2, EmptyPosted
    <3>3. CASE CancelSteps
      <4>1. PICK op \in Operations :
                KernelFindsTarget(op) \/ KernelEndsTarget(op) \/ KernelCancels(op)
        BY <3>3 DEF CancelSteps
      <4>2. CASE KernelFindsTarget(op)
        <5>1. UNCHANGED <<connections, conn, ssl, socket, wire, cq>>
          BY <2>1, <4>2 DEF KernelFindsTarget, worker
        <5>. QED  BY <3>1, <5>1, StillKept
      <4>3. CASE KernelEndsTarget(op)
        <5>1. op \in kernel
          BY <4>3 DEF KernelEndsTarget, BioInv, CoreInv, QueuesOk
        <5>2. Completed(Cqe(op, "canceled", FALSE)) /\ UNCHANGED <<socket, wire>>
          BY <2>1, <4>3 DEF KernelEndsTarget
        <5>. QED  BY <3>1, <5>1, <5>2, EmptyPosted
      <4>4. CASE KernelCancels(op)
        <5>1. op \in kernel /\ Completed(Cqe(op, "ok", FALSE)) /\ UNCHANGED <<socket, wire>>
          BY <2>1, <4>4 DEF KernelCancels
        <5>. QED  BY <3>1, <5>1, EmptyPosted
      <4>. QED  BY <4>1, <4>2, <4>3, <4>4
    <3>. QED  BY <2>1, <3>2, <3>3
  <2>2. ASSUME NEW c \in Fds, KernelAccepts(c), wire' = [wire EXCEPT ![c] = <<>>]
        PROVE  CoreInv' /\ EpollKept /\ FlowsOk' /\ WiresOk'
    <3>1. CoreInv' /\ EpollKept
      BY <2>2, KernelAcceptsKeeps DEF BioInv
    <3>. QED  BY <2>2, <3>1, AcceptPosted
  <2>3. ASSUME NEW c \in Fds, NEW op \in {Input(c), Output(c)}, op \in kernel,
               NEW res \in {"eof", "error"}, Completed(Cqe(op, res, FALSE)),
               UNCHANGED <<socket, wire>>
        PROVE  CoreInv' /\ EpollKept /\ FlowsOk' /\ WiresOk'
    <3>1. op \in Operations /\ op # AcceptOp
      <4>1. op \in ConnectionOps(c) /\ AcceptOp \in WorkerOps
        BY DEF ConnectionOps, WorkerOps
      <4>. QED  BY <4>1, OperationNames
    <3>2. CoreInv' /\ EpollKept
      BY <2>3, <3>1, LastCqePosted DEF BioInv
    <3>3. FlowsOk' /\ WiresOk'
      BY <2>3, <3>1, EmptyPosted
    <3>. QED  BY <3>2, <3>3
  <2>4. ASSUME NEW c \in Fds,
               \/ (KernelFails(Input(c)) \/ KernelFails(Output(c))) /\ UNCHANGED wire
               \/ KernelReceivesEnd(c) \/ KernelSendFails(c)
        PROVE  CoreInv' /\ EpollKept /\ FlowsOk' /\ WiresOk'
    <3>1. \E op \in {Input(c), Output(c)}, res \in {"eof", "error"} :
              op \in kernel /\ Completed(Cqe(op, res, FALSE)) /\ UNCHANGED <<socket, wire>>
      BY <2>4 DEF KernelFails, KernelReceivesEnd, KernelSendFails
    <3>. QED  BY <2>3, <3>1
  <2>5. ASSUME NEW c \in Fds, KernelReceives(c) \/ KernelSends(c)
        PROVE  CoreInv' /\ EpollKept /\ FlowsOk' /\ WiresOk'
    BY <2>5, ReceiveStep, SendStep
  <2>6. ASSUME NEW c \in Fds, UNCHANGED wire,
               PeerSends(c) \/ PeerLeaves(c) \/ PeerReads(c, Len(wire[c]))
        PROVE  CoreInv' /\ EpollKept /\ FlowsOk' /\ WiresOk'
    BY <2>6, PeerStep
  <2>. QED  BY <2>1, <2>2, <2>4, <2>5, <2>6 DEF Kernel
<1>3. pc' = "exited" => ~Draining'
  BY <1>1 DEF BioInv, ExitOk, Draining, worker
<1>4. TasksOk' /\ NoEpoll' /\ ExitOk' /\ ParkedOk'
  BY <1>1, <1>2, <1>3, RestKept DEF worker
<1>. QED  BY <1>2, <1>4 DEF BioInv

-----------------------------------------------------------------------------
(* Steps that store a connection.                                          *)

\* What flows depends on these fields only, ...
SameFlow(k, l) == l.dead = k.dead /\ l.output_active = k.output_active /\ SameWire(k, l)

LEMMA FlowsSame ==
    ASSUME NEW k, NEW l, SameFlow(k, l), NEW s, NEW arrived, NEW w, NEW received, NEW sent,
           Flows(k, s, arrived, w, received, sent)
    PROVE  Flows(l, s, arrived, w, received, sent)
  BY DEF SameFlow, SameWire, Flows, Bounded, Feeding, Staging, Sendable

\* ... and how a connection is parked on these.
LEMMA ParkedSame ==
    ASSUME NEW k \in Connection, NEW l, SameFlow(k, l), l.input_active = k.input_active,
           l.phase = k.phase, l.input = k.input, l.reply = k.reply, l.read_eof = k.read_eof,
           NEW s, Parked(k, s)
    PROVE  Parked(l, s)
<1>1. NeedsInput(k, s) => NeedsInput(l, s)
  BY NeedsKept
<1>. QED  BY <1>1 DEF SameFlow, SameWire, Parked

LEMMA ReleasedSame ==
    ASSUME NEW k \in Connection
    PROVE  /\ SameFlow(k, Released(k)) /\ Released(k).input_active = k.input_active
           /\ Released(k).phase = k.phase /\ Released(k).input = k.input
           /\ Released(k).reply = k.reply /\ Released(k).read_eof = k.read_eof
<1> DEFINE l == Released(k)
<1>1. /\ l.dead = k.dead /\ l.input_active = k.input_active
      /\ l.phase = k.phase /\ l.input = k.input /\ l.reply = k.reply
      /\ l.read_eof = k.read_eof /\ l.output_active = k.output_active
      /\ l.fed = k.fed /\ l.staged = k.staged
      /\ l.wire_length = k.wire_length /\ l.wire_offset = k.wire_offset
  BY ReleasedFields
<1> HIDE DEF l
<1>2. SameFlow(k, l)
  BY <1>1 DEF SameFlow, SameWire
<1>. QED  BY <1>1, <1>2 DEF l

\* The results of other connections' operations are as they were.
CqesKept(c) ==
    \A b \in connections : b # c =>
        CqesOf(Input(b))' = CqesOf(Input(b)) /\ CqesOf(Output(b))' = CqesOf(Output(b))

LEMMA StoredKept ==
    ASSUME BioInv, EpollKept, NEW c \in connections, NEW e, e.fd = c, Store(e),
           UNCHANGED <<socket, wire>>, CqFds' \subseteq CqFds, CqesKept(c),
           task.fd \in {NULL, c}, task'.fd \in {NULL, c}, pc' # "exited",
           task'.then \in {"none", "release", "accept"},
           Flows(e.k, e.s, socket[c].arrived, wire[c], CqesOf(Input(c))', CqesOf(Output(c))'),
           ~e.k.dead => Driving(c)' \/ Parked(e.k, e.s)
    PROVE  TasksOk' /\ NoEpoll' /\ ExitOk' /\ FlowsOk' /\ ParkedOk' /\ WiresOk'
<1>1. /\ connections' \subseteq connections
      /\ \A b \in connections' : b # c => conn'[b] = conn[b] /\ ssl'[b] = ssl[b]
      /\ c \in connections' => conn'[c] = e.k /\ ssl'[c] = e.s
  BY StoredConnections DEF BioInv
<1>2. connections \subseteq Fds /\ NULL \notin Fds
  BY WorkerAssumption DEF BioInv, CoreInv, TypeOK
<1>3. FlowsOk'
  <2>1. ASSUME NEW b \in connections'
        PROVE  Flows(conn'[b], ssl'[b], socket'[b].arrived, wire'[b], CqesOf(Input(b))',
                     CqesOf(Output(b))')
    <3>1. CASE b = c
      BY <1>1, <2>1, <3>1
    <3>2. CASE b # c
      <4>1. b \in connections /\ conn'[b] = conn[b] /\ ssl'[b] = ssl[b]
        BY <1>1, <3>2
      <4>2. Flows(conn[b], ssl[b], socket[b].arrived, wire[b], CqesOf(Input(b)),
                  CqesOf(Output(b)))
        BY <4>1 DEF BioInv, FlowsOk
      <4>3. CqesOf(Input(b))' = CqesOf(Input(b)) /\ CqesOf(Output(b))' = CqesOf(Output(b))
        BY <3>2, <4>1 DEF CqesKept
      <4>. QED  BY <4>1, <4>2, <4>3
    <3>. QED  BY <3>1, <3>2
  <2>. QED  BY <2>1 DEF FlowsOk
<1>4. ParkedOk'
  <2>1. ASSUME NEW b \in connections', ~conn'[b].dead, ~Driving(b)'
        PROVE  Parked(conn'[b], ssl'[b])
    <3>1. CASE b = c
      BY <1>1, <2>1, <3>1
    <3>2. CASE b # c
      <4>1. b \in connections /\ conn'[b] = conn[b] /\ ssl'[b] = ssl[b]
        BY <1>1, <3>2
      <4>2. ~Driving(b)
        BY <1>2, <3>2, <4>1 DEF Driving
      <4>. QED  BY <2>1, <4>1, <4>2 DEF BioInv, ParkedOk
    <3>. QED  BY <3>1, <3>2
  <2>. QED  BY <2>1 DEF ParkedOk
<1>5. WiresOk'
  BY <1>1 DEF BioInv, WiresOk
<1>. QED  BY <1>3, <1>4, <1>5 DEF BioInv, TasksOk, NoEpoll, EpollKept, ExitOk

\* A dead connection only has to be bounded.
LEMMA DeadFlows ==
    ASSUME NEW k, k.dead, NEW s, Bounded(k, s), NEW arrived, NEW w, NEW received, NEW sent
    PROVE  Flows(k, s, arrived, w, received, sent)
  BY DEF Flows

LEMMA CancelStep ==
    ASSUME BioInv, NEW c \in Fds, CancelCompleted(c), UNCHANGED wire
    PROVE  BioInv'
<1>1. CoreInv' /\ EpollKept /\ c \in connections /\ conn[c].dead /\ Store(Release(Context(c)))
  BY CancelCompletedKeeps DEF BioInv
<1>2. /\ pc \in {"wait", "reap"} /\ pc' = "reap" /\ task' = task
      /\ cq # <<>> /\ cq' = Tail(cq) /\ socket' = socket
      /\ Head(cq).op[1] \in {"cancel_input", "cancel_output"}
  BY DEF CancelCompleted, Completes, Concludes
<1>3. task = NoTask
  BY <1>2 DEF BioInv, CoreInv, TaskOk
<1> DEFINE e == Release(Context(c))
<1>4. conn[c] \in Connection /\ ssl[c] \in Ssl
  BY DEF BioInv, CoreInv, TypeOK
<1>5. e.fd = c /\ e.k = Released(conn[c]) /\ e.s = ssl[c]
  BY <1>4 DEF Release, Context, Connection, Released
<1>6. Store(e)
  BY <1>1
<1> HIDE DEF e
<1>7. SameFlow(conn[c], e.k) /\ e.k.dead
  BY <1>1, <1>4, <1>5, ReleasedSame DEF SameFlow
<1>8. Flows(e.k, e.s, socket[c].arrived, wire[c], CqesOf(Input(c))', CqesOf(Output(c))')
  <2>1. Bounded(conn[c], ssl[c])
    BY <1>1 DEF BioInv, FlowsOk, Flows
  <2>2. Bounded(e.k, e.s)
    BY <1>5, <1>7, <2>1 DEF Bounded, SameFlow, SameWire
  <2>. QED  BY <1>7, <2>2, DeadFlows
<1>9. CqFds' \subseteq CqFds
  BY <1>2, TailQueue DEF BioInv, CoreInv, TypeOK
<1>10. CqesKept(c)
  <2>1. ASSUME NEW b \in connections
        PROVE  CqesOf(Input(b))' = CqesOf(Input(b)) /\ CqesOf(Output(b))' = CqesOf(Output(b))
    <3>1. b \in Fds
      BY DEF BioInv, CoreInv, TypeOK
    <3>2. Input(b) # Head(cq).op /\ Output(b) # Head(cq).op
      BY <1>2, <3>1, OperationKinds
    <3>. QED  BY <1>2, <3>2, CqesOfOthers DEF BioInv
  <2>. QED  BY <2>1 DEF CqesKept
<1>11. TasksOk' /\ NoEpoll' /\ ExitOk' /\ FlowsOk' /\ ParkedOk' /\ WiresOk'
  <2>1. task.fd \in {NULL, c} /\ task'.fd \in {NULL, c} /\ task'.then = "none"
    BY <1>2, <1>3 DEF NoTask, Task
  <2>. QED  BY <1>1, <1>2, <1>5, <1>6, <1>7, <1>8, <1>9, <1>10, <2>1, StoredKept
<1>. QED  BY <1>1, <1>11 DEF BioInv

-----------------------------------------------------------------------------
(* A receive or a send of c has completed.                                 *)

\* The CQE that complete() handles ends the operation; no other is disturbed.
LEMMA EndedCqe ==
    ASSUME BioInv, pc \in {"wait", "reap"}, cq # <<>>, cq' = Tail(cq), NEW c \in Fds,
           NEW op \in {Input(c), Output(c)}, Head(cq).op = op
    PROVE  /\ c \in connections /\ task = NoTask /\ QueueKept(c) /\ CqFds' \subseteq CqFds
           /\ CqesKept(c) /\ Head(cq) \in CqesOf(op) /\ Head(cq).count \in Nat
           /\ op = Input(c) =>
                 CqesOf(Input(c))' = {} /\ CqesOf(Output(c))' = CqesOf(Output(c))
           /\ op = Output(c) =>
                 CqesOf(Output(c))' = {} /\ CqesOf(Input(c))' = CqesOf(Input(c))
           /\ Flows(conn[c], ssl[c], socket[c].arrived, wire[c], CqesOf(Input(c)),
                    CqesOf(Output(c)))
           /\ ~conn[c].dead => Parked(conn[c], ssl[c])
<1>1. /\ op \in ConnectionOps(c) /\ Input(c) \in ConnectionOps(c) /\ Output(c) \in ConnectionOps(c)
      /\ Input(c) # Output(c) /\ op # AcceptOp
  <2>1. /\ op \in ConnectionOps(c) /\ Input(c) \in ConnectionOps(c)
        /\ Output(c) \in ConnectionOps(c) /\ AcceptOp \in WorkerOps
    BY DEF ConnectionOps, WorkerOps
  <2>. QED  BY <2>1, OperationNames
<1>2. c \in connections /\ task = NoTask /\ QueueKept(c)
  BY <1>1, ConnectionCqe DEF BioInv
<1>3. /\ Head(cq) \in CqesOf(op)
      /\ \A other : other # op => CqesOf(other)' = CqesOf(other)
      /\ \A other : other = op => CqesOf(other)' = {}
  BY <1>1, CqesTaken DEF BioInv
<1>4. Head(cq).count \in Nat
  <2>1. Head(cq) \in Cqes
    BY OldestCqe DEF BioInv, CoreInv, TypeOK
  <2>. QED  BY <2>1 DEF Cqes
<1>5. CqesKept(c)
  <2>1. ASSUME NEW b \in connections, b # c
        PROVE  CqesOf(Input(b))' = CqesOf(Input(b)) /\ CqesOf(Output(b))' = CqesOf(Output(b))
    <3>1. b \in Fds
      BY DEF BioInv, CoreInv, TypeOK
    <3>2. Input(b) \in ConnectionOps(b) /\ Output(b) \in ConnectionOps(b)
      BY DEF ConnectionOps
    <3>3. Input(b) # op /\ Output(b) # op
      BY <1>1, <2>1, <3>1, <3>2, OperationNames
    <3>. QED  BY <1>3, <3>3
  <2>. QED  BY <2>1 DEF CqesKept
<1>6. /\ op = Input(c) => CqesOf(Input(c))' = {} /\ CqesOf(Output(c))' = CqesOf(Output(c))
      /\ op = Output(c) => CqesOf(Output(c))' = {} /\ CqesOf(Input(c))' = CqesOf(Input(c))
  <2> DEFINE in == Input(c)
             out == Output(c)
  <2>1. in # out
    BY <1>1
  <2> HIDE DEF in, out
  <2>2. op = in => CqesOf(in)' = {} /\ CqesOf(out)' = CqesOf(out)
    BY <1>3, <2>1
  <2>3. op = out => CqesOf(out)' = {} /\ CqesOf(in)' = CqesOf(in)
    BY <1>3, <2>1
  <2>. QED  BY <2>2, <2>3 DEF in, out
<1>7. /\ Flows(conn[c], ssl[c], socket[c].arrived, wire[c], CqesOf(Input(c)), CqesOf(Output(c)))
      /\ ~conn[c].dead => Parked(conn[c], ssl[c])
  BY <1>2 DEF BioInv, FlowsOk, ParkedOk, Driving
<1>. QED  BY <1>2, <1>3, <1>4, <1>5, <1>6, <1>7 DEF QueueKept

\* A context without the operation that ended: its reference is still held.
LEMMA EndedGood ==
    ASSUME CoreInv, pc \in {"wait", "reap"}, cq # <<>>, cq' = Tail(cq), NEW c \in Fds,
           NEW op \in {Input(c), Output(c)}, Head(cq).op = op,
           NEW e \in Contexts, e.fd = c, e.sq = sq, e.kernel = kernel, InBounds(e.k),
           e.k.references = conn[c].references, e.k.dead = conn[c].dead,
           e.k.input_active <=> conn[c].input_active /\ op # Input(c),
           e.k.output_active <=> conn[c].output_active /\ op # Output(c),
           e.k.input_cancelled = conn[c].input_cancelled,
           e.k.output_cancelled = conn[c].output_cancelled
    PROVE  Good(e, EndedOps', 1) /\ Prepares(e, ConnectionOps(c))
<1>1. op \in ConnectionOps(c)
  BY DEF ConnectionOps
<1>2. /\ c \in connections /\ op \in Pending /\ Accounts(c, conn[c], Pending, 0)
      /\ \A f : f.sq = sq /\ f.kernel = kernel => Live(f, EndedOps') = Pending \ {op}
      /\ \A f : Queues(f, EndedOps) => Queues(f, EndedOps')
  BY <1>1, ConnectionCqe
<1>3. Accounts(c, e.k, Pending \ {op}, 1)
  BY <1>1, <1>2, AccountsEnded
<1>4. Queues(e, EndedOps')
  <2>1. Queues(Context(c), EndedOps) /\ Context(c).sq = sq /\ Context(c).kernel = kernel
    BY <1>2, ContextGood DEF Good
  <2>2. Queues(e, EndedOps)
    BY <2>1 DEF Queues
  <2>. QED  BY <1>2, <2>2
<1>. QED  BY <1>2, <1>3, <1>4 DEF Good, Prepares

\* complete() ends with release().
LEMMA ConcludesStep ==
    ASSUME BioInv, pc \in {"wait", "reap"}, NEW c \in connections, task = NoTask, QueueKept(c),
           CqesKept(c), ShutdownUnchanged, UNCHANGED wire,
           NEW f, Good(f, EndedOps', 1), f.fd = c, Prepares(f, ConnectionOps(c)),
           f.s.fetched <= socket[c].arrived, Concludes(Release(f)),
           Flows(f.k, f.s, socket[c].arrived, wire[c], CqesOf(Input(c))', CqesOf(Output(c))'),
           ~f.k.dead => Parked(f.k, f.s)
    PROVE  BioInv'
<1> DEFINE e == Release(f)
<1>1. Good(f, EndedOps', 0 + 1) /\ f.k \in Connection
  BY DEF Good, Accounts, InBounds
<1>2. /\ Good(e, EndedOps', 0) /\ e.fd = c /\ e.s = f.s /\ e.sq = f.sq
      /\ e.kernel = f.kernel /\ e.k = Released(f.k) /\ e.k.dead = f.k.dead
  BY <1>1, ReleaseGood DEF Grows
<1>3. Concludes(e)
  OBVIOUS
<1> HIDE DEF e
<1>4. Prepares(e, ConnectionOps(c))
  BY <1>2 DEF Prepares
<1>5. CoreInv' /\ EpollKept
  BY <1>2, <1>3, <1>4, ConcludesKeeps DEF BioInv
<1>6. Store(e) /\ pc' = "reap" /\ task' = task
  BY <1>3 DEF Concludes
<1>7. /\ SameFlow(f.k, e.k) /\ e.k.input_active = f.k.input_active
      /\ e.k.phase = f.k.phase /\ e.k.input = f.k.input /\ e.k.reply = f.k.reply
      /\ e.k.read_eof = f.k.read_eof
  BY <1>1, <1>2, ReleasedSame
<1>8. Flows(e.k, e.s, socket[c].arrived, wire[c], CqesOf(Input(c))', CqesOf(Output(c))')
  BY <1>2, <1>7, FlowsSame
<1>9. ~e.k.dead => Parked(e.k, e.s)
  BY <1>1, <1>2, <1>7, ParkedSame
<1>10. TasksOk' /\ NoEpoll' /\ ExitOk' /\ FlowsOk' /\ ParkedOk' /\ WiresOk'
  <2>1. task.fd = NULL /\ task'.fd = NULL /\ task'.then = "none"
    BY <1>6 DEF NoTask, Task
  <2>2. socket' = socket /\ CqFds' \subseteq CqFds
    BY DEF ShutdownUnchanged, QueueKept
  <2>. QED  BY <1>2, <1>5, <1>6, <1>8, <1>9, <2>1, <2>2, StoredKept
<1>. QED  BY <1>5, <1>10 DEF BioInv

\* complete() goes on to drive().
LEMMA DrivesStep ==
    ASSUME BioInv, pc \in {"wait", "reap"}, NEW c \in connections, task = NoTask, QueueKept(c),
           CqesKept(c), ShutdownUnchanged, UNCHANGED wire,
           NEW f, Good(f, EndedOps', 1), f.fd = c, Prepares(f, ConnectionOps(c)),
           f.s.fetched <= socket[c].arrived, ~f.k.dead, Drives(f, "release"),
           Flows(f.k, f.s, socket[c].arrived, wire[c], CqesOf(Input(c))', CqesOf(Output(c))')
    PROVE  BioInv'
<1>1. CoreInv' /\ EpollKept
  BY DrivesKeeps DEF BioInv
<1>2. Store(f) /\ pc' = "drive" /\ task' = Task(c, "release")
  BY DEF Drives
<1>3. task'.fd = c /\ task'.then = "release" /\ Driving(c)' /\ task.fd = NULL
  BY <1>2 DEF Task, NoTask, Driving
<1>4. socket' = socket /\ CqFds' \subseteq CqFds
  BY DEF ShutdownUnchanged, QueueKept
<1>5. TasksOk' /\ NoEpoll' /\ ExitOk' /\ FlowsOk' /\ ParkedOk' /\ WiresOk'
  BY <1>1, <1>2, <1>3, <1>4, StoredKept
<1>. QED  BY <1>1, <1>5 DEF BioInv

\* complete() finishes the connection and ends with release().
LEMMA FinishesStep ==
    ASSUME BioInv, pc \in {"wait", "reap"}, NEW c \in connections, task = NoTask, QueueKept(c),
           CqesKept(c), ShutdownUnchanged, UNCHANGED wire,
           NEW d, Good(d, EndedOps', 1), d.fd = c, Prepares(d, ConnectionOps(c)),
           d.s.fetched <= socket[c].arrived, Bounded(d.k, d.s), Concludes(Release(Finish(d)))
    PROVE  BioInv'
<1> DEFINE f == Finish(d)
<1>1. /\ Good(f, EndedOps', 1) /\ Grows(d, f, EndedOps', ConnectionOps(c)) /\ f.k.dead
      /\ f.k.staged = d.k.staged
  BY FinishGood
<1>2. Concludes(Release(f))
  OBVIOUS
<1> HIDE DEF f
<1>3. Prepares(f, ConnectionOps(c)) /\ f.fd = c /\ f.s = d.s
  BY <1>1 DEF Grows, Prepares
<1>4. Bounded(f.k, f.s)
  BY <1>1, <1>3 DEF Bounded
<1>5. Flows(f.k, f.s, socket[c].arrived, wire[c], CqesOf(Input(c))', CqesOf(Output(c))')
  BY <1>1, <1>4, DeadFlows
<1>. QED  BY <1>1, <1>2, <1>3, <1>5, ConcludesStep

\* The connection after the receive, and after it was fed what was received.
Unreceived(k)   == [k EXCEPT !.input_active = FALSE]
WithFed(k, n)   == [k EXCEPT !.input_active = FALSE, !.fed = k.fed + n]

LEMMA UnreceivedConnection ==
    ASSUME NEW k, InBounds(k), NEW n \in Nat
    PROVE  \A l \in {Unreceived(k), WithFed(k, n)} :
              /\ InBounds(l) /\ l.references = k.references /\ l.dead = k.dead
              /\ ~l.input_active /\ l.output_active = k.output_active
              /\ l.input_cancelled = k.input_cancelled
              /\ l.output_cancelled = k.output_cancelled
              /\ l.fed = (IF l = WithFed(k, n) THEN k.fed + n ELSE k.fed)
              /\ l.staged = k.staged /\ l.wire_length = k.wire_length
              /\ l.wire_offset = k.wire_offset
<1>1. k \in Connection /\ k.fed + n \in Nat /\ k.fed \in Nat
  BY DEF InBounds, Connection
<1>2. ASSUME NEW m \in Nat
      PROVE  LET l == [k EXCEPT !.input_active = FALSE, !.fed = m]
             IN /\ l \in Connection /\ l.references = k.references /\ l.dead = k.dead
                /\ ~l.input_active /\ l.output_active = k.output_active
                /\ l.input_cancelled = k.input_cancelled
                /\ l.output_cancelled = k.output_cancelled
                /\ l.phase = k.phase /\ l.input = k.input /\ l.reply = k.reply
                /\ l.fed = m /\ l.staged = k.staged /\ l.wire_length = k.wire_length
                /\ l.wire_offset = k.wire_offset
  BY <1>1 DEF Connection
<1>3. Unreceived(k) = [k EXCEPT !.input_active = FALSE, !.fed = k.fed]
  BY <1>1 DEF Unreceived, Connection
<1>4. ASSUME NEW l, NEW m \in Nat, l = [k EXCEPT !.input_active = FALSE, !.fed = m]
      PROVE  /\ InBounds(l) /\ l.references = k.references /\ l.dead = k.dead
             /\ ~l.input_active /\ l.output_active = k.output_active
             /\ l.input_cancelled = k.input_cancelled
             /\ l.output_cancelled = k.output_cancelled
             /\ l.fed = m
             /\ l.staged = k.staged /\ l.wire_length = k.wire_length
             /\ l.wire_offset = k.wire_offset
  BY <1>2, <1>4 DEF InBounds
<1>5. ASSUME NEW l \in {Unreceived(k), WithFed(k, n)}
      PROVE  /\ InBounds(l) /\ l.references = k.references /\ l.dead = k.dead
             /\ ~l.input_active /\ l.output_active = k.output_active
             /\ l.input_cancelled = k.input_cancelled
             /\ l.output_cancelled = k.output_cancelled
             /\ l.fed = (IF l = WithFed(k, n) THEN k.fed + n ELSE k.fed)
             /\ l.staged = k.staged /\ l.wire_length = k.wire_length
             /\ l.wire_offset = k.wire_offset
  <2>1. CASE l = WithFed(k, n)
    <3>1. l = [k EXCEPT !.input_active = FALSE, !.fed = k.fed + n]
      BY <2>1 DEF WithFed
    <3>. QED  BY <1>1, <1>4, <2>1, <3>1
  <2>2. CASE l # WithFed(k, n)
    <3>1. l = [k EXCEPT !.input_active = FALSE, !.fed = k.fed]
      BY <1>3, <1>5, <2>2
    <3>2. /\ InBounds(l) /\ l.references = k.references /\ l.dead = k.dead
          /\ ~l.input_active /\ l.output_active = k.output_active
          /\ l.input_cancelled = k.input_cancelled
          /\ l.output_cancelled = k.output_cancelled
          /\ l.fed = k.fed
          /\ l.staged = k.staged /\ l.wire_length = k.wire_length
          /\ l.wire_offset = k.wire_offset
      BY <1>1, <1>4, <3>1
    <3>. QED  BY <2>2, <3>2
  <2>. QED  BY <2>1, <2>2
<1>. QED  BY <1>5

\* At the end of the stream OpenSSL is told; what it wrote stays written.
LEMMA EofSsl ==
    ASSUME NEW s \in Ssl
    PROVE  LET t == [s EXCEPT !.eof = TRUE]
           IN /\ t \in Ssl /\ t.fetched = s.fetched /\ t.written = s.written
              /\ Whole(s) => Whole(t)
<1> DEFINE t == [s EXCEPT !.eof = TRUE]
<1>1. /\ t \in Ssl /\ t.fetched = s.fetched /\ t.written = s.written /\ t.out = s.out
      /\ t.writing = s.writing /\ t.steps = s.steps
  BY DEF Ssl
<1> HIDE DEF t
<1>2. Whole(s) => Whole(t)
  BY <1>1 DEF Whole, Unwritten
<1>. QED  BY <1>1, <1>2 DEF t

LEMMA InputStep ==
    ASSUME BioInv, NEW c \in Fds, InputCompleted(c)
    PROVE  BioInv'
<1> DEFINE d == InputEnded(c)
<1>0. PICK cqe : cqe = Head(cq)
  OBVIOUS
<1>1. /\ Completes("input") /\ cqe.op = Input(c) /\ UNCHANGED wire
      /\ \/ conn[c].dead /\ Concludes(Release(d))
         \/ ~conn[c].dead /\ Concludes(Release(Finish(d)))
         \/ ~conn[c].dead /\ Drives(Fed(d, cqe), "release")
  BY <1>0 DEF InputCompleted
<1>2. /\ pc \in {"wait", "reap"} /\ cq # <<>> /\ cq' = Tail(cq) /\ ShutdownUnchanged
  BY <1>1 DEF Completes, ShutdownUnchanged
<1>3. /\ c \in connections /\ task = NoTask /\ QueueKept(c) /\ CqesKept(c)
      /\ cqe \in CqesOf(Input(c)) /\ cqe.count \in Nat
      /\ CqesOf(Input(c))' = {} /\ CqesOf(Output(c))' = CqesOf(Output(c))
      /\ Flows(conn[c], ssl[c], socket[c].arrived, wire[c], CqesOf(Input(c)), CqesOf(Output(c)))
  BY <1>0, <1>1, <1>2, EndedCqe
<1> DEFINE k == conn[c]
           s == ssl[c]
<1>4. Accounts(c, k, Pending, Held(c)) /\ s \in Ssl /\ socket[c].arrived \in Nat
  BY <1>3 DEF BioInv, CoreInv, ConnectionsOk, TypeOK, Socket
<1>5. InBounds(k) /\ k \in Connection /\ k.fed \in Nat /\ s.fetched \in Nat
  BY <1>4 DEF Accounts, InBounds, Connection, Ssl
<1>6. Input(c) # Output(c)
  BY OperationNames
<1>7. s.fetched <= socket[c].arrived
  BY DEF BioInv, CoreInv, SocketsOk
<1>8. /\ Context(c).fd = c /\ Context(c).k = k /\ Context(c).s = s /\ Context(c).sq = sq
      /\ Context(c).kernel = kernel /\ Context(c) \in Contexts
  BY <1>3, ContextGood DEF BioInv
<1> HIDE DEF k, s
\* A context with the operation ended and another OpenSSL state.
<1>9. ASSUME NEW f \in Contexts, f.fd = c, f.sq = sq, f.kernel = kernel,
             f.k \in {Unreceived(k), WithFed(k, cqe.count)}
      PROVE  /\ Good(f, EndedOps', 1) /\ Prepares(f, ConnectionOps(c)) /\ f.k.dead = k.dead
             /\ f.k.fed = (IF f.k = WithFed(k, cqe.count) THEN k.fed + cqe.count ELSE k.fed)
             /\ f.k.staged = k.staged /\ f.k.wire_length = k.wire_length
             /\ f.k.wire_offset = k.wire_offset /\ f.k.output_active = k.output_active
  <2>1. /\ InBounds(f.k) /\ f.k.references = k.references /\ f.k.dead = k.dead
        /\ ~f.k.input_active /\ f.k.output_active = k.output_active
        /\ f.k.input_cancelled = k.input_cancelled
        /\ f.k.output_cancelled = k.output_cancelled
        /\ f.k.fed = (IF f.k = WithFed(k, cqe.count) THEN k.fed + cqe.count ELSE k.fed)
        /\ f.k.staged = k.staged /\ f.k.wire_length = k.wire_length
        /\ f.k.wire_offset = k.wire_offset
    BY <1>3, <1>5, <1>9, UnreceivedConnection
  <2>2. Good(f, EndedOps', 1) /\ Prepares(f, ConnectionOps(c))
    BY <1>0, <1>1, <1>2, <1>6, <1>9, <2>1, EndedGood DEF BioInv, k
  <2>. QED  BY <2>1, <2>2
<1>10. d = With(Context(c), Unreceived(k))
  BY <1>8 DEF InputEnded, With, Unreceived
<1>11. Unreceived(k) \in Connection /\ WithFed(k, cqe.count) \in Connection
  <2>1. \A l \in {Unreceived(k), WithFed(k, cqe.count)} : InBounds(l)
    BY <1>3, <1>5, UnreceivedConnection
  <2>. QED  BY <2>1 DEF InBounds
<1>12. /\ d \in Contexts /\ d.k = Unreceived(k) /\ d.fd = c /\ d.s = s
       /\ d.sq = sq /\ d.kernel = kernel
  BY <1>8, <1>10, <1>11, WithConnection
<1> HIDE DEF d
<1>13. /\ Good(d, EndedOps', 1) /\ Prepares(d, ConnectionOps(c)) /\ d.k.dead = k.dead
       /\ d.k.staged = k.staged
  BY <1>9, <1>12
<1>14. Bounded(k, s) /\ Bounded(d.k, d.s)
  BY <1>3, <1>12, <1>13 DEF Flows, Bounded, k, s
<1>15. CASE conn[c].dead /\ Concludes(Release(d))
  <2>1. Flows(d.k, d.s, socket[c].arrived, wire[c], CqesOf(Input(c))', CqesOf(Output(c))')
    BY <1>13, <1>14, <1>15, DeadFlows DEF k
  <2>2. d.k.dead
    BY <1>13, <1>15 DEF k
  <2>. QED  BY <1>1, <1>2, <1>3, <1>7, <1>12, <1>13, <1>15, <2>1, <2>2, ConcludesStep
<1>16. CASE ~conn[c].dead /\ Concludes(Release(Finish(d)))
  BY <1>1, <1>2, <1>3, <1>7, <1>12, <1>13, <1>14, <1>16, FinishesStep
<1>17. CASE ~conn[c].dead /\ Drives(Fed(d, cqe), "release")
  <2> DEFINE f == Fed(d, cqe)
  <2>1. ~k.dead /\ Whole(s) /\ Feeding(k, s, socket[c].arrived, CqesOf(Input(c)))
        /\ Staging(k, wire[c], CqesOf(Output(c)))
    BY <1>3, <1>17 DEF Flows, k, s
  <2>2. s.fetched <= k.fed /\ k.fed <= socket[c].arrived
        /\ k.fed + cqe.count <= socket[c].arrived
    BY <1>3, <2>1 DEF Feeding
  <2>3. /\ f \in Contexts /\ f.fd = c /\ f.sq = sq /\ f.kernel = kernel
        /\ f.k \in {Unreceived(k), WithFed(k, cqe.count)}
        /\ f.s \in Ssl /\ f.s.fetched = s.fetched /\ f.s.written = s.written /\ Whole(f.s)
    <3>1. CASE cqe.res = "eof"
      <4> DEFINE t == [s EXCEPT !.eof = TRUE]
      <4>1. f = [d EXCEPT !.s = t]
        BY <1>12, <3>1 DEF Fed
      <4>2. t \in Ssl /\ t.fetched = s.fetched /\ t.written = s.written /\ Whole(t)
        BY <1>4, <2>1, EofSsl DEF s
      <4> HIDE DEF t, f
      <4>3. /\ f \in Contexts /\ f.fd = d.fd /\ f.sq = d.sq /\ f.kernel = d.kernel
            /\ f.k = d.k /\ f.s = t
        BY <1>12, <4>1, <4>2 DEF Contexts
      <4>. QED  BY <1>12, <4>2, <4>3
    <3>2. CASE cqe.res # "eof"
      <4> DEFINE l == WithFed(k, cqe.count)
      <4>1. l = [Unreceived(k) EXCEPT !.fed = Unreceived(k).fed + cqe.count]
        BY <1>5 DEF WithFed, Unreceived, Connection
      <4>2. f = With(d, l)
        BY <1>12, <3>2, <4>1 DEF Fed, With
      <4> HIDE DEF l, f
      <4>3. /\ f \in Contexts /\ f.fd = d.fd /\ f.sq = d.sq /\ f.kernel = d.kernel
            /\ f.k = l /\ f.s = d.s
        BY <1>11, <1>12, <4>2, WithConnection DEF l
      <4>. QED  BY <1>4, <1>12, <2>1, <4>3 DEF l, s
    <3>. QED  BY <3>1, <3>2
  <2>4. Drives(f, "release")
    BY <1>17
  <2> HIDE DEF f
  <2>5. /\ Good(f, EndedOps', 1) /\ Prepares(f, ConnectionOps(c)) /\ ~f.k.dead
        /\ f.k.fed = (IF f.k = WithFed(k, cqe.count) THEN k.fed + cqe.count ELSE k.fed)
        /\ f.k.staged = k.staged /\ f.k.wire_length = k.wire_length
        /\ f.k.wire_offset = k.wire_offset /\ f.k.output_active = k.output_active
    BY <1>9, <2>1, <2>3
  <2>6. Feeding(f.k, f.s, socket[c].arrived, {})
    <3>1. k.fed <= f.k.fed /\ f.k.fed <= socket[c].arrived /\ f.k.fed \in Nat
      BY <1>3, <1>4, <1>5, <2>2, <2>5
    <3>. QED  BY <1>5, <2>2, <2>3, <3>1 DEF Feeding
  <2>7. Staging(f.k, wire[c], CqesOf(Output(c)))
    BY <2>1, <2>5 DEF Staging, Sendable
  <2>8. Bounded(f.k, f.s)
    BY <1>14, <2>3, <2>5 DEF Bounded
  <2>9. Flows(f.k, f.s, socket[c].arrived, wire[c], CqesOf(Input(c))', CqesOf(Output(c))')
    BY <1>3, <2>3, <2>6, <2>7, <2>8 DEF Flows
  <2>10. f.s.fetched <= socket[c].arrived
    BY <1>7, <2>3
  <2>. QED  BY <1>1, <1>2, <1>3, <2>3, <2>4, <2>5, <2>9, <2>10, DrivesStep
<1>. QED  BY <1>1, <1>15, <1>16, <1>17

\* The connection after the send, with another wire_output.
Unsent(k, offset, length) ==
    [k EXCEPT !.output_active = FALSE, !.wire_offset = offset, !.wire_length = length]

LEMMA UnsentConnection ==
    ASSUME NEW k, InBounds(k), NEW offset \in Nat, NEW length \in Nat
    PROVE  LET l == Unsent(k, offset, length)
           IN /\ InBounds(l) /\ l.references = k.references /\ ~l.output_active
              /\ l.input_active = k.input_active
              /\ l.input_cancelled = k.input_cancelled
              /\ l.output_cancelled = k.output_cancelled
              /\ SameDialogue(k, l) /\ l.fed = k.fed /\ l.staged = k.staged
              /\ l.wire_offset = offset /\ l.wire_length = length
<1> DEFINE l == Unsent(k, offset, length)
<1>1. k \in Connection
  BY DEF InBounds
<1>2. /\ l \in Connection /\ l.references = k.references /\ ~l.output_active
      /\ l.input_active = k.input_active
      /\ l.input_cancelled = k.input_cancelled
      /\ l.output_cancelled = k.output_cancelled
      /\ SameDialogue(k, l) /\ l.fed = k.fed /\ l.staged = k.staged
      /\ l.wire_offset = offset /\ l.wire_length = length
  BY <1>1 DEF Connection, SameDialogue, Unsent
<1> HIDE DEF l
<1>3. InBounds(l)
  BY <1>2 DEF InBounds, SameDialogue
<1>. QED  BY <1>2, <1>3 DEF l

LEMMA OutputStep ==
    ASSUME BioInv, NEW c \in Fds, OutputCompleted(c)
    PROVE  BioInv'
<1>0. PICK cqe : cqe = Head(cq)
  OBVIOUS
<1> DEFINE n == cqe.count
           d == Sent(Context(c), n)
           k == conn[c]
           s == ssl[c]
<1>1. /\ Completes("output") /\ cqe.op = Output(c) /\ UNCHANGED wire
      /\ \/ k.dead /\ Concludes(Release(d))
         \/ ~k.dead /\ Concludes(Release(Finish(d)))
         \/ ~k.dead /\ d.k.wire_offset < d.k.wire_length /\ Concludes(Release(SubmitOutput(d)))
         \/ ~k.dead /\ d.k.wire_offset = d.k.wire_length /\ Drives(Emptied(d), "release")
  BY <1>0 DEF OutputCompleted
<1>2. /\ pc \in {"wait", "reap"} /\ cq # <<>> /\ cq' = Tail(cq) /\ ShutdownUnchanged
  BY <1>1 DEF Completes, ShutdownUnchanged
<1>3. /\ c \in connections /\ task = NoTask /\ QueueKept(c) /\ CqesKept(c)
      /\ cqe \in CqesOf(Output(c)) /\ n \in Nat
      /\ CqesOf(Output(c))' = {} /\ CqesOf(Input(c))' = CqesOf(Input(c))
      /\ Flows(k, s, socket[c].arrived, wire[c], CqesOf(Input(c)), CqesOf(Output(c)))
      /\ ~k.dead => Parked(k, s)
  BY <1>0, <1>1, <1>2, EndedCqe
<1>4. Accounts(c, k, Pending, Held(c)) /\ s \in Ssl /\ socket[c].arrived \in Nat
  BY <1>3 DEF BioInv, CoreInv, ConnectionsOk, TypeOK, Socket
<1>5. /\ InBounds(k) /\ k \in Connection /\ k.wire_offset \in Nat /\ k.wire_length \in Nat
      /\ k.staged \in Nat
  BY <1>4 DEF Accounts, InBounds, Connection
<1>6. Input(c) # Output(c)
  BY OperationNames
<1>7. s.fetched <= socket[c].arrived
  BY DEF BioInv, CoreInv, SocketsOk
<1>8. /\ Context(c).fd = c /\ Context(c).k = k /\ Context(c).s = s /\ Context(c).sq = sq
      /\ Context(c).kernel = kernel /\ Context(c) \in Contexts
  BY <1>3, ContextGood DEF BioInv
<1> HIDE DEF k, s, n
\* A context with the operation ended and another wire_output.
<1>9. ASSUME NEW offset \in Nat, NEW length \in Nat, NEW f,
             f = With(Context(c), Unsent(k, offset, length))
      PROVE  /\ Good(f, EndedOps', 1) /\ Prepares(f, ConnectionOps(c))
             /\ f \in Contexts /\ f.fd = c /\ f.s = s /\ f.sq = sq /\ f.kernel = kernel
             /\ f.k = Unsent(k, offset, length)
             /\ SameDialogue(k, f.k) /\ f.k.input_active = k.input_active
             /\ f.k.fed = k.fed /\ f.k.staged = k.staged /\ ~f.k.output_active
             /\ f.k.wire_offset = offset /\ f.k.wire_length = length
  <2> DEFINE l == Unsent(k, offset, length)
  <2>1. /\ InBounds(l) /\ l.references = k.references /\ ~l.output_active
        /\ l.input_active = k.input_active
        /\ l.input_cancelled = k.input_cancelled
        /\ l.output_cancelled = k.output_cancelled
        /\ SameDialogue(k, l) /\ l.fed = k.fed /\ l.staged = k.staged
        /\ l.wire_offset = offset /\ l.wire_length = length
    BY <1>5, UnsentConnection
  <2>2. f = With(Context(c), l)
    BY <1>9
  <2>3. l = Unsent(k, offset, length)
    OBVIOUS
  <2> HIDE DEF l
  <2>4. l \in Connection
    BY <2>1 DEF InBounds
  <2>5. /\ f \in Contexts /\ f.k = l /\ f.fd = c /\ f.s = s /\ f.sq = sq /\ f.kernel = kernel
    BY <1>8, <2>2, <2>4, WithConnection
  <2>6. l.dead = k.dead
    BY <2>1 DEF SameDialogue
  <2>7. Good(f, EndedOps', 1) /\ Prepares(f, ConnectionOps(c))
    BY <1>0, <1>1, <1>2, <1>6, <2>1, <2>5, <2>6, EndedGood DEF BioInv, k
  <2>. QED  BY <2>1, <2>3, <2>5, <2>7
<1>10. k.wire_offset + n \in Nat
  BY <1>3, <1>5
<1>11. d = With(Context(c), Unsent(k, k.wire_offset + n, k.wire_length))
  <2>1. d = [Context(c) EXCEPT !.k = [k EXCEPT !.output_active = FALSE,
                                              !.wire_offset = k.wire_offset + n]]
    BY <1>8 DEF Sent, Contexts, Connection
  <2>2. [k EXCEPT !.output_active = FALSE, !.wire_offset = k.wire_offset + n]
            = Unsent(k, k.wire_offset + n, k.wire_length)
    BY <1>5 DEF Unsent, Connection
  <2>. QED  BY <2>1, <2>2 DEF With
<1> HIDE DEF d
<1>12. /\ Good(d, EndedOps', 1) /\ Prepares(d, ConnectionOps(c)) /\ d \in Contexts
       /\ d.fd = c /\ d.s = s /\ d.sq = sq /\ d.kernel = kernel
       /\ d.k = Unsent(k, k.wire_offset + n, k.wire_length)
       /\ SameDialogue(k, d.k) /\ d.k.input_active = k.input_active
       /\ d.k.fed = k.fed /\ d.k.staged = k.staged /\ ~d.k.output_active
       /\ d.k.wire_offset = k.wire_offset + n /\ d.k.wire_length = k.wire_length
  BY <1>5, <1>9, <1>10, <1>11
<1>13. Bounded(k, s) /\ Bounded(d.k, d.s) /\ d.s.fetched <= socket[c].arrived
  BY <1>3, <1>7, <1>12 DEF Flows, Bounded
<1>14. ASSUME ~k.dead
       PROVE  /\ Whole(s) /\ Feeding(k, s, socket[c].arrived, CqesOf(Input(c)))
              /\ k.wire_offset + n <= k.wire_length /\ k.wire_length <= k.staged
              /\ Len(wire[c]) = Sendable(k) + n /\ Parked(k, s) /\ k.output_active
  <2>1. /\ Whole(s) /\ Feeding(k, s, socket[c].arrived, CqesOf(Input(c)))
        /\ Staging(k, wire[c], CqesOf(Output(c))) /\ Parked(k, s)
    BY <1>3, <1>14 DEF Flows
  <2>2. /\ Len(wire[c]) = Sendable(k) + n /\ k.wire_offset + n <= k.wire_length
        /\ k.wire_length <= k.staged
    BY <1>3, <2>1 DEF Staging, n
  <2>3. k.output_active
    BY <1>3, ActiveCqes DEF BioInv, k
  <2>. QED  BY <2>1, <2>2, <2>3
<1>15. CASE k.dead /\ Concludes(Release(d))
  <2>1. d.k.dead
    BY <1>12, <1>15 DEF SameDialogue
  <2>2. Flows(d.k, d.s, socket[c].arrived, wire[c], CqesOf(Input(c))', CqesOf(Output(c))')
    BY <1>13, <2>1, DeadFlows
  <2>. QED  BY <1>1, <1>2, <1>3, <1>12, <1>13, <1>15, <2>1, <2>2, ConcludesStep
<1>16. CASE ~k.dead /\ Concludes(Release(Finish(d)))
  BY <1>1, <1>2, <1>3, <1>12, <1>13, <1>16, FinishesStep
<1>17. CASE ~k.dead /\ d.k.wire_offset < d.k.wire_length /\ Concludes(Release(SubmitOutput(d)))
  <2> DEFINE f == SubmitOutput(d)
  <2>1. /\ Good(f, EndedOps', 1) /\ Grows(d, f, EndedOps', ConnectionOps(c))
        /\ f.k = Sending(d.k)
    BY <1>12, SubmitOutputGood
  <2>2. Concludes(Release(f))
    BY <1>17
  <2> HIDE DEF f
  <2>3. Prepares(f, ConnectionOps(c)) /\ f.fd = c /\ f.s = s
    BY <1>12, <2>1 DEF Grows, Prepares
  <2>4. InBounds(d.k)
    BY <1>12 DEF Good, Accounts
  <2>5. /\ SameDialogue(d.k, f.k) /\ SameWire(d.k, f.k) /\ f.k.output_active
        /\ f.k.input_active = d.k.input_active
    BY <2>1, <2>4, SendingConnection
  <2>6. /\ SameDialogue(k, f.k) /\ f.k.input_active = k.input_active
        /\ f.k.fed = k.fed /\ f.k.staged = k.staged
        /\ f.k.wire_offset = k.wire_offset + n /\ f.k.wire_length = k.wire_length
    BY <1>12, <2>5 DEF SameDialogue, SameWire
  <2>7. Staging(f.k, wire[c], {})
    <3>1. Len(wire[c]) = Sendable(f.k)
      BY <1>3, <1>5, <1>14, <1>17, <2>6 DEF Sendable
    <3>. QED  BY <1>14, <1>17, <2>5, <2>6, <3>1 DEF Staging
  <2>8. Flows(f.k, f.s, socket[c].arrived, wire[c], CqesOf(Input(c))', CqesOf(Output(c))')
    <3>1. Feeding(f.k, s, socket[c].arrived, CqesOf(Input(c)))
      BY <1>14, <1>17, <2>6 DEF Feeding
    <3>2. Bounded(f.k, s)
      BY <1>13, <2>6 DEF Bounded
    <3>. QED  BY <1>3, <1>14, <1>17, <2>3, <2>7, <3>1, <3>2 DEF Flows
  <2>9. Parked(f.k, f.s)
    <3>1. NeedsInput(k, s) => NeedsInput(f.k, s)
      BY <1>5, <2>6, NeedsKept DEF SameDialogue
    <3>. QED  BY <1>14, <1>17, <2>3, <2>5, <2>6, <3>1 DEF Parked, SameDialogue
  <2>10. f.s.fetched <= socket[c].arrived
    BY <1>7, <2>3
  <2>. QED  BY <1>1, <1>2, <1>3, <2>1, <2>2, <2>3, <2>8, <2>9, <2>10, ConcludesStep
<1>18. CASE ~k.dead /\ d.k.wire_offset = d.k.wire_length /\ Drives(Emptied(d), "release")
  <2> DEFINE f == Emptied(d)
  <2>1. f = With(Context(c), Unsent(k, 0, 0))
    <3>1. f = [d EXCEPT !.k = [d.k EXCEPT !.wire_offset = 0, !.wire_length = 0]]
      BY <1>12 DEF Emptied, Contexts, Connection
    <3>2. [d.k EXCEPT !.wire_offset = 0, !.wire_length = 0] = Unsent(k, 0, 0)
      BY <1>5, <1>12 DEF Unsent, Connection
    <3>3. f = With(d, Unsent(k, 0, 0))
      BY <3>1, <3>2 DEF With
    <3>. QED  BY <1>8, <1>11, <3>3 DEF With, Contexts
  <2>2. Drives(f, "release")
    BY <1>18
  <2> HIDE DEF f
  <2>3. /\ Good(f, EndedOps', 1) /\ Prepares(f, ConnectionOps(c))
        /\ f.fd = c /\ f.s = s
        /\ SameDialogue(k, f.k) /\ f.k.fed = k.fed /\ f.k.staged = k.staged
        /\ f.k.wire_offset = 0 /\ f.k.wire_length = 0
    BY <1>9, <2>1
  <2>4. k.wire_offset + n = k.wire_length
    BY <1>12, <1>18
  <2>5. Len(wire[c]) = k.staged /\ Sendable(f.k) = k.staged
    BY <1>3, <1>5, <1>14, <1>18, <2>3, <2>4 DEF Sendable
  <2>6. Staging(f.k, wire[c], {})
    BY <1>5, <2>3, <2>5 DEF Staging
  <2>7. Flows(f.k, f.s, socket[c].arrived, wire[c], CqesOf(Input(c))', CqesOf(Output(c))')
    <3>1. Feeding(f.k, s, socket[c].arrived, CqesOf(Input(c)))
      BY <1>14, <1>18, <2>3 DEF Feeding
    <3>2. Bounded(f.k, s)
      BY <1>13, <2>3 DEF Bounded
    <3>. QED  BY <1>3, <1>14, <1>18, <2>3, <2>6, <3>1, <3>2 DEF Flows
  <2>8. f.s.fetched <= socket[c].arrived /\ ~f.k.dead
    BY <1>7, <1>18, <2>3 DEF SameDialogue
  <2>. QED  BY <1>1, <1>2, <1>3, <2>2, <2>3, <2>7, <2>8, DrivesStep
<1>. QED  BY <1>1, <1>15, <1>16, <1>17, <1>18

-----------------------------------------------------------------------------
(* drive().                                                                *)

\* What flows of connection k with OpenSSL state s, in this state.
FlowsNow(c, k, s) ==
    Flows(k, s, socket[c].arrived, wire[c], CqesOf(Input(c)), CqesOf(Output(c)))

LEMMA StillCqes ==
    ASSUME DriveUnchanged, UNCHANGED wire
    PROVE  /\ \A c : CqesKept(c) /\ CqFds' \subseteq CqFds
           /\ \A c, k, s : FlowsNow(c, k, s) =>
                 Flows(k, s, socket[c].arrived, wire[c], CqesOf(Input(c))', CqesOf(Output(c))')
<1>1. cq' = cq /\ socket' = socket
  BY DEF DriveUnchanged
<1>2. \A op : CqesOf(op)' = CqesOf(op)
  BY <1>1 DEF CqesOf
<1>. QED  BY <1>1, <1>2 DEF CqesKept, CqFds, FlowsNow

LEMMA DriveFacts ==
    ASSUME BioInv, NEW c \in Fds, Driving(c)
    PROVE  /\ c \in connections /\ ~conn[c].dead
           /\ task.fd = c /\ task.then \in {"release", "accept"} /\ pc = "drive"
           /\ Held(c) \in Nat
<1>1. pc = "drive" /\ task.fd = c /\ task.then # "none" /\ c \in connections /\ ~conn[c].dead
  BY DEF Driving, BioInv, CoreInv, TaskOk
<1>2. Held(c) \in Nat
  BY DEF Held, Count
<1>. QED  BY <1>1, <1>2 DEF BioInv, TasksOk

\* drive() returns with a connection that is dead, or that waits.
LEMMA LeaveStep ==
    ASSUME BioInv, NEW c \in Fds, Driving(c), DriveUnchanged, UNCHANGED wire,
           NEW d, Good(d, EndedOps, Held(c)), d.fd = c, Prepares(d, ConnectionOps(c)),
           d.s.fetched <= socket[c].arrived, Leave(d), FlowsNow(c, d.k, d.s),
           d.k.dead \/ Parked(d.k, d.s)
    PROVE  BioInv'
<1>1. /\ CoreInv' /\ EpollKept /\ c \in connections
      /\ \E e : Store(e) /\ e.fd = c /\ e.s = d.s /\ e.k \in {d.k, Released(d.k)}
  BY LeaveKeeps DEF BioInv
<1>2. PICK e : Store(e) /\ e.fd = c /\ e.s = d.s /\ e.k \in {d.k, Released(d.k)}
  BY <1>1
<1>3. task' = NoTask /\ pc' \in {"events", "reap"} /\ task.fd = c
  BY DEF Leave, Driving
<1>4. d.k \in Connection
  BY DEF Good, Accounts, InBounds
<1>5. /\ SameFlow(d.k, e.k) /\ e.k.input_active = d.k.input_active
      /\ e.k.phase = d.k.phase /\ e.k.input = d.k.input /\ e.k.reply = d.k.reply
      /\ e.k.read_eof = d.k.read_eof
  <2>1. CASE e.k = d.k
    BY <2>1 DEF SameFlow, SameWire
  <2>2. CASE e.k = Released(d.k)
    BY <1>4, <2>2, ReleasedSame
  <2>. QED  BY <1>2, <2>1, <2>2
<1>6. Flows(e.k, e.s, socket[c].arrived, wire[c], CqesOf(Input(c))', CqesOf(Output(c))')
  <2>1. Flows(d.k, d.s, socket[c].arrived, wire[c], CqesOf(Input(c))', CqesOf(Output(c))')
    BY StillCqes
  <2>. QED  BY <1>2, <1>5, <2>1, FlowsSame
<1>7. ~e.k.dead => Parked(e.k, e.s)
  BY <1>2, <1>4, <1>5, ParkedSame DEF SameFlow
<1>8. TasksOk' /\ NoEpoll' /\ ExitOk' /\ FlowsOk' /\ ParkedOk' /\ WiresOk'
  <2>1. task'.fd = NULL /\ task'.then = "none"
    BY <1>3 DEF NoTask, Task
  <2>2. CqesKept(c) /\ CqFds' \subseteq CqFds /\ socket' = socket
    BY StillCqes DEF DriveUnchanged
  <2>. QED  BY <1>1, <1>2, <1>3, <1>6, <1>7, <2>1, <2>2, StoredKept
<1>. QED  BY <1>1, <1>8 DEF BioInv

\* The loop goes on.
LEMMA ContinueStep ==
    ASSUME BioInv, NEW c \in Fds, Driving(c), DriveUnchanged, UNCHANGED wire,
           NEW d, Good(d, EndedOps, Held(c)), d.fd = c, Prepares(d, ConnectionOps(c)),
           d.s.fetched <= socket[c].arrived, ~d.k.dead, Continue(d), FlowsNow(c, d.k, d.s)
    PROVE  BioInv'
<1>1. d.k.references > 0
  <2>1. Accounts(c, d.k, Live(d, EndedOps), Held(c)) /\ Held(c) \in Nat
    BY DriveFacts DEF Good
  <2>. QED  BY <2>1 DEF Accounts, Count
<1>2. CoreInv' /\ EpollKept
  BY <1>1, ContinueKeeps DEF BioInv
<1>3. Store(d) /\ UNCHANGED <<pc, task>>
  BY DEF Continue
<1>4. /\ Driving(c)' /\ task.fd = c /\ task'.fd = c /\ pc' # "exited" /\ c \in connections
      /\ task'.then \in {"none", "release", "accept"}
  BY <1>3, DriveFacts DEF Driving
<1>5. Flows(d.k, d.s, socket[c].arrived, wire[c], CqesOf(Input(c))', CqesOf(Output(c))')
  BY StillCqes
<1>6. CqesKept(c) /\ CqFds' \subseteq CqFds /\ socket' = socket
  BY StillCqes DEF DriveUnchanged
<1>7. TasksOk' /\ NoEpoll' /\ ExitOk' /\ FlowsOk' /\ ParkedOk' /\ WiresOk'
  BY <1>2, <1>3, <1>4, <1>5, <1>6, StoredKept
<1>. QED  BY <1>2, <1>7 DEF BioInv

\* drive() finishes the connection and returns.
LEMMA FinishLeaves ==
    ASSUME BioInv, NEW c \in Fds, Driving(c), DriveUnchanged, UNCHANGED wire,
           NEW d, Good(d, EndedOps, Held(c)), d.fd = c, Prepares(d, ConnectionOps(c)),
           d.s.fetched <= socket[c].arrived, Bounded(d.k, d.s), Leave(Finish(d))
    PROVE  BioInv'
<1> DEFINE f == Finish(d)
<1>1. /\ Good(f, EndedOps, Held(c)) /\ Grows(d, f, EndedOps, ConnectionOps(c)) /\ f.k.dead
      /\ f.k.staged = d.k.staged
  BY DriveFacts, FinishGood
<1>2. Leave(f)
  OBVIOUS
<1> HIDE DEF f
<1>3. Prepares(f, ConnectionOps(c)) /\ f.fd = c /\ f.s = d.s
  BY <1>1 DEF Grows, Prepares
<1>4. Bounded(f.k, f.s)
  BY <1>1, <1>3 DEF Bounded
<1>5. FlowsNow(c, f.k, f.s)
  BY <1>1, <1>4, DeadFlows DEF FlowsNow
<1>. QED  BY <1>1, <1>2, <1>3, <1>5, LeaveStep

\* flush_output at the start of an iteration, ...
LEMMA FlushedFacts ==
    ASSUME BioInv, NEW c \in Fds, Driving(c), NEW d, d = FlushOutput(Context(c))
    PROVE  /\ c \in connections /\ ~d.k.dead /\ d.fd = c /\ d.s = ssl[c]
           /\ Good(d, EndedOps, Held(c)) /\ Prepares(d, ConnectionOps(c))
           /\ d.s.fetched <= socket[c].arrived /\ FlowsNow(c, d.k, d.s)
           /\ d.k.phase = conn[c].phase /\ (d.k.output_active \/ Queued(d) = 0)
<1>1. c \in connections /\ ~conn[c].dead /\ Held(c) \in Nat
  BY DriveFacts
<1>2. /\ Context(c).fd = c /\ Context(c).k = conn[c] /\ Context(c).s = ssl[c]
      /\ Context(c).sq = sq /\ Context(c).kernel = kernel
      /\ Good(Context(c), EndedOps, Held(c))
  BY <1>1, ContextGood DEF BioInv
<1>3. FlowsNow(c, conn[c], ssl[c])
  BY <1>1 DEF BioInv, FlowsOk, FlowsNow
<1>4. /\ Bounded(conn[c], ssl[c]) /\ Whole(ssl[c])
      /\ Feeding(conn[c], ssl[c], socket[c].arrived, CqesOf(Input(c)))
      /\ Staging(conn[c], wire[c], CqesOf(Output(c)))
  BY <1>1, <1>3 DEF FlowsNow, Flows
<1>5. ~conn[c].output_active => CqesOf(Output(c)) = {}
  BY <1>1, ActiveCqes DEF BioInv
<1> DEFINE k == conn[c]
           s == ssl[c]
<1>6. /\ Good(d, EndedOps, Held(c)) /\ Grows(Context(c), d, EndedOps, ConnectionOps(c))
      /\ d.fd = c /\ d.s = s /\ SameDialogue(k, d.k)
      /\ d.k.input_active = k.input_active /\ d.k.fed = k.fed
      /\ k.staged <= d.k.staged /\ d.k.staged <= d.s.written
      /\ d.k.output_active \/ Queued(d) = 0
      /\ Staging(d.k, wire[c], CqesOf(Output(c)))
  <2>1. PICK d0 : d0 = Context(c)
    OBVIOUS
  <2>2. PICK held \in Nat : held = Held(c)
    BY <1>1
  <2>3. /\ d = FlushOutput(d0) /\ Good(d0, EndedOps, held) /\ d0.k.staged <= d0.s.written
        /\ d0.k = k /\ d0.s = s /\ d0.fd = c
    BY <1>2, <1>4, <2>1, <2>2 DEF Bounded
  <2>4. /\ Staging(d0.k, wire[c], CqesOf(Output(c)))
        /\ ~d0.k.output_active => CqesOf(Output(c)) = {}
    BY <1>4, <1>5, <2>3
  <2> HIDE DEF k, s
  <2>5. /\ Good(d, EndedOps, held) /\ Grows(d0, d, EndedOps, ConnectionOps(c))
        /\ d.fd = d0.fd /\ d.s = d0.s /\ SameDialogue(d0.k, d.k)
        /\ d.k.input_active = d0.k.input_active /\ d.k.fed = d0.k.fed
        /\ d0.k.staged <= d.k.staged /\ d.k.staged <= d.s.written
        /\ d.k.output_active \/ Queued(d) = 0
        /\ \A w, sent : Staging(d0.k, w, sent) /\ (~d0.k.output_active => sent = {})
                           => Staging(d.k, w, sent)
    BY <2>3, FlushGood
  <2>. QED  BY <2>1, <2>2, <2>3, <2>4, <2>5
<1>7. Prepares(d, ConnectionOps(c))
  BY <1>2, <1>6, GrowsPrepares
<1>8. s.fetched <= socket[c].arrived
  BY DEF BioInv, CoreInv, SocketsOk
<1>9. k.staged \in Nat /\ d.k.staged \in Nat /\ s.written \in Nat
  BY <1>2, <1>6 DEF Good, Accounts, InBounds, Connection, BioInv, CoreInv, TypeOK, Ssl
<1> HIDE DEF k, s
<1>10. Bounded(d.k, d.s)
  <2> DEFINE n == RecordUnits * RecordsPerCall
  <2>1. n \in Nat /\ WireCapacity \in Nat
    BY RecordsCounted, WireAssumption
  <2>2. s.written - k.staged <= WireCapacity + n
    BY <1>4 DEF Bounded, k, s
  <2> HIDE DEF n
  <2>3. d.s.written - d.k.staged <= WireCapacity + n
    BY <1>6, <1>9, <2>1, <2>2
  <2>. QED  BY <1>6, <2>3 DEF Bounded, n
<1>11. Feeding(d.k, d.s, socket[c].arrived, CqesOf(Input(c)))
  BY <1>4, <1>6 DEF Feeding, k, s
<1>12. FlowsNow(c, d.k, d.s)
  BY <1>4, <1>6, <1>10, <1>11 DEF Flows, FlowsNow, k, s
<1>. QED  BY <1>1, <1>6, <1>7, <1>8, <1>12 DEF SameDialogue, k, s

\* ... the call of OpenSSL, ...
LEMMA TurnFacts ==
    ASSUME BioInv, NEW c \in Fds, Driving(c), conn[c].phase # "draining",
           NEW d, d = FlushOutput(Context(c)), ~Blocked(d), NEW i, i = Turn(d)
    PROVE  /\ Good(i.d, EndedOps, Held(c)) /\ i.d.fd = c /\ ~i.d.k.dead
           /\ Prepares(i.d, ConnectionOps(c)) /\ i.d.s.fetched <= socket[c].arrived
           /\ FlowsNow(c, i.d.k, i.d.s) /\ i.d.k.output_active = d.k.output_active
           /\ i.verdict = "want_read" =>
                 NeedsInput(i.d.k, i.d.s) /\ i.d.s.fetched = i.d.k.fed /\ ~i.d.s.eof
<1>1. /\ c \in connections /\ ~d.k.dead /\ d.fd = c /\ d.s = ssl[c]
      /\ Good(d, EndedOps, Held(c)) /\ Prepares(d, ConnectionOps(c))
      /\ d.s.fetched <= socket[c].arrived /\ FlowsNow(c, d.k, d.s)
      /\ d.k.phase = conn[c].phase
  BY FlushedFacts
<1>2. /\ Bounded(d.k, d.s) /\ Whole(d.s)
      /\ Feeding(d.k, d.s, socket[c].arrived, CqesOf(Input(c)))
      /\ Staging(d.k, wire[c], CqesOf(Output(c)))
  BY <1>1 DEF FlowsNow, Flows
<1>3. PICK held \in Nat : held = Held(c)
  BY DriveFacts
<1>4. d.s.fetched <= d.k.fed /\ d.k.fed <= socket[d.fd].arrived
  BY <1>1, <1>2 DEF Feeding
<1>5. /\ Good(i.d, EndedOps, held)
      /\ i.d.fd = d.fd /\ i.d.sq = d.sq /\ i.d.kernel = d.kernel
      /\ SameAccounts(d.k, i.d.k) /\ i.d.s.fetched <= d.k.fed
      /\ Produces(d.s, i.d.s)
      /\ i.verdict = "want_read" =>
            NeedsInput(i.d.k, i.d.s) /\ i.d.s.fetched = d.k.fed /\ ~d.s.eof
  BY <1>1, <1>2, <1>3, <1>4, TurnProduces DEF BioInv
<1>6. /\ i.d.k.dead = d.k.dead /\ i.d.k.output_active = d.k.output_active
      /\ i.d.k.fed = d.k.fed /\ i.d.k.staged = d.k.staged
      /\ i.d.k.wire_length = d.k.wire_length /\ i.d.k.wire_offset = d.k.wire_offset
  BY <1>5 DEF SameAccounts
<1>7. Prepares(i.d, ConnectionOps(c))
  BY <1>1, <1>5 DEF Prepares
<1>8. Whole(i.d.s) /\ i.d.s.eof = d.s.eof /\ d.s.written <= i.d.s.written
      /\ i.d.s.written <= d.s.written + RecordUnits * RecordsPerCall
  BY <1>5 DEF Produces
<1>9. /\ d.s.written \in Nat /\ d.k.staged \in Nat /\ i.d.s.written \in Nat
      /\ i.d.s.fetched \in Nat /\ d.k.fed \in Nat /\ socket[c].arrived \in Nat
  <2>1. d.s \in Ssl /\ i.d.s \in Ssl /\ d.k \in Connection /\ socket[c] \in Socket
    BY <1>1, <1>5 DEF Good, Queues, Contexts, BioInv, CoreInv, TypeOK
  <2>. QED  BY <2>1 DEF Ssl, Connection, Socket
<1>10. Bounded(i.d.k, i.d.s)
  <2> DEFINE n == RecordUnits * RecordsPerCall
  <2>1. n \in Nat /\ WireCapacity \in Nat
    BY RecordsCounted, WireAssumption
  <2>2. d.s.written - d.k.staged <= WireCapacity
    BY <1>9, <2>1 DEF Blocked, Queued
  <2>3. i.d.s.written <= d.s.written + n
    BY <1>8
  <2> HIDE DEF n
  <2>4. i.d.s.written - i.d.k.staged <= WireCapacity + n
    BY <1>6, <1>9, <2>1, <2>2, <2>3
  <2>5. i.d.k.staged <= i.d.s.written
    BY <1>2, <1>6, <1>8, <1>9 DEF Bounded
  <2>. QED  BY <2>4, <2>5 DEF Bounded, n
<1>11. Feeding(i.d.k, i.d.s, socket[c].arrived, CqesOf(Input(c)))
  BY <1>2, <1>5, <1>6 DEF Feeding
<1>12. Staging(i.d.k, wire[c], CqesOf(Output(c)))
  BY <1>2, <1>6 DEF Staging, Sendable
<1>13. FlowsNow(c, i.d.k, i.d.s)
  BY <1>8, <1>10, <1>11, <1>12 DEF FlowsNow, Flows
<1>14. i.d.s.fetched <= socket[c].arrived
  BY <1>1, <1>4, <1>5, <1>9
<1>. QED  BY <1>1, <1>3, <1>5, <1>6, <1>7, <1>8, <1>13, <1>14

\* ... and flush_output after it.
LEMMA FlushedAgain ==
    ASSUME BioInv, NEW c \in Fds, Driving(c), NEW d, Good(d, EndedOps, Held(c)), d.fd = c,
           ~d.k.dead, Prepares(d, ConnectionOps(c)), d.s.fetched <= socket[c].arrived,
           FlowsNow(c, d.k, d.s), ~d.k.output_active => CqesOf(Output(c)) = {},
           NEW e, e = FlushOutput(d)
    PROVE  /\ Good(e, EndedOps, Held(c)) /\ e.fd = c /\ ~e.k.dead /\ e.s = d.s
           /\ Prepares(e, ConnectionOps(c)) /\ e.s.fetched <= socket[c].arrived
           /\ FlowsNow(c, e.k, e.s) /\ SameDialogue(d.k, e.k) /\ e.k.fed = d.k.fed
           /\ e.k.output_active \/ Queued(e) = 0
<1>1. PICK held \in Nat : held = Held(c)
  BY DriveFacts
<1>2. /\ Bounded(d.k, d.s) /\ Whole(d.s)
      /\ Feeding(d.k, d.s, socket[c].arrived, CqesOf(Input(c)))
      /\ Staging(d.k, wire[c], CqesOf(Output(c)))
  BY DEF FlowsNow, Flows
<1>3. /\ Good(e, EndedOps, held) /\ Grows(d, e, EndedOps, ConnectionOps(c))
      /\ e.fd = d.fd /\ e.s = d.s /\ SameDialogue(d.k, e.k) /\ e.k.fed = d.k.fed
      /\ d.k.staged <= e.k.staged /\ e.k.staged <= e.s.written
      /\ e.k.output_active \/ Queued(e) = 0
      /\ \A w, sent : Staging(d.k, w, sent) /\ (~d.k.output_active => sent = {})
                         => Staging(e.k, w, sent)
  BY <1>1, <1>2, FlushGood DEF Bounded
<1>4. Prepares(e, ConnectionOps(c))
  BY <1>3 DEF Prepares, Grows
<1>5. d.k.staged \in Nat /\ e.k.staged \in Nat /\ d.s.written \in Nat
  <2>1. d.s \in Ssl /\ d.k \in Connection /\ e.k \in Connection
    BY <1>3 DEF Good, Queues, Contexts
  <2>. QED  BY <2>1 DEF Ssl, Connection
<1>6. Bounded(e.k, e.s)
  <2> DEFINE n == RecordUnits * RecordsPerCall
  <2>1. n \in Nat /\ WireCapacity \in Nat
    BY RecordsCounted, WireAssumption
  <2>2. d.s.written - d.k.staged <= WireCapacity + n
    BY <1>2 DEF Bounded
  <2> HIDE DEF n
  <2>3. e.s.written - e.k.staged <= WireCapacity + n
    BY <1>3, <1>5, <2>1, <2>2
  <2>. QED  BY <1>3, <2>3 DEF Bounded, n
<1>7. Feeding(e.k, e.s, socket[c].arrived, CqesOf(Input(c)))
  BY <1>2, <1>3 DEF Feeding
<1>8. Staging(e.k, wire[c], CqesOf(Output(c)))
  BY <1>2, <1>3
<1>9. FlowsNow(c, e.k, e.s)
  BY <1>2, <1>3, <1>6, <1>7, <1>8 DEF FlowsNow, Flows
<1>. QED  BY <1>1, <1>3, <1>4, <1>9 DEF SameDialogue

\* wait_for_io: the connection waits for what the peer sends.
LEMMA WaitParked ==
    ASSUME BioInv, NEW c \in Fds, Driving(c), NEW d, Good(d, EndedOps, Held(c)), d.fd = c,
           ~d.k.dead, Prepares(d, ConnectionOps(c)), d.s.fetched <= socket[c].arrived,
           FlowsNow(c, d.k, d.s), d.k.output_active \/ Queued(d) = 0,
           NeedsInput(d.k, d.s), d.s.fetched = d.k.fed, ~d.s.eof,
           NEW e, e = WaitForIo(d)
    PROVE  /\ Good(e, EndedOps, Held(c)) /\ e.fd = c /\ Prepares(e, ConnectionOps(c))
           /\ e.s.fetched <= socket[c].arrived /\ FlowsNow(c, e.k, e.s) /\ Parked(e.k, e.s)
<1>1. PICK held \in Nat : held = Held(c)
  BY DriveFacts
<1>2. d.k \in Connection /\ d.s \in Ssl /\ WireCapacity \in Nat
  BY WireAssumption DEF Good, Queues, Contexts
<1>3. d.k.staged \in Nat /\ d.s.written \in Nat
  BY <1>2 DEF Connection, Ssl
<1>4. d.s.written > d.k.staged => d.k.output_active
  BY <1>3 DEF Queued
<1>5. d.s.written - d.k.staged > WireCapacity => d.k.output_active
  BY <1>2, <1>3 DEF Queued
<1>6. d.k.phase # "draining"
  BY DEF NeedsInput
<1>7. CASE d.k.input_active
  <2>1. e = d
    BY <1>7 DEF WaitForIo
  <2>2. Parked(d.k, d.s)
    BY <1>4, <1>5, <1>6, <1>7 DEF Parked
  <2>. QED  BY <2>1, <2>2
<1>8. CASE ~d.k.input_active
  <2>1. e = SubmitInput(d, "in")
    BY <1>8 DEF WaitForIo
  <2>2. /\ Good(e, EndedOps, held) /\ Grows(d, e, EndedOps, ConnectionOps(c))
        /\ e.k.dead = d.k.dead /\ e.k.input_active
        /\ e.k.phase = d.k.phase /\ e.k.input = d.k.input /\ e.k.reply = d.k.reply
        /\ e.k.read_eof = d.k.read_eof
        /\ e.k.output_active = d.k.output_active /\ SameWire(d.k, e.k)
    BY <1>1, <1>8, <2>1, SubmitInputGood
  <2>3. Prepares(e, ConnectionOps(c)) /\ e.fd = c /\ e.s = d.s
    BY <2>2 DEF Grows, Prepares
  <2>4. NeedsInput(e.k, d.s)
    BY <1>2, <2>2, NeedsKept
  <2>5. FlowsNow(c, e.k, d.s)
    BY <2>2, FlowsSame DEF FlowsNow, SameFlow
  <2>6. Parked(e.k, d.s)
    BY <1>4, <1>5, <1>6, <2>2, <2>4 DEF Parked, SameWire
  <2>. QED  BY <1>1, <2>2, <2>3, <2>5, <2>6
<1>. QED  BY <1>7, <1>8

LEMMA DriveStep ==
    ASSUME BioInv, NEW c \in Fds,
           \/ DriveBlocked(c) \/ DriveDraining(c) \/ DriveContinues(c)
           \/ DriveWaits(c) \/ DriveFails(c)
    PROVE  BioInv'
<1>1. Driving(c) /\ DriveUnchanged /\ UNCHANGED wire
  BY DEF DriveBlocked, DriveDraining, DriveContinues, DriveWaits, DriveFails, Unchanging,
         DriveUnchanged
<1>2. PICK d : d = FlushOutput(Context(c))
  OBVIOUS
<1>3. /\ c \in connections /\ ~d.k.dead /\ d.fd = c
      /\ Good(d, EndedOps, Held(c)) /\ Prepares(d, ConnectionOps(c))
      /\ d.s.fetched <= socket[c].arrived /\ FlowsNow(c, d.k, d.s)
      /\ d.k.phase = conn[c].phase /\ (d.k.output_active \/ Queued(d) = 0)
  BY <1>1, <1>2, FlushedFacts
<1>4. Bounded(d.k, d.s) /\ WireCapacity \in Nat
  BY <1>3, WireAssumption DEF FlowsNow, Flows
<1>5. d.k.staged \in Nat /\ d.s.written \in Nat
  <2>1. d.k \in Connection /\ d.s \in Ssl
    BY <1>3 DEF Good, Queues, Contexts
  <2>. QED  BY <2>1 DEF Connection, Ssl
<1>6. CASE DriveBlocked(c)
  <2>1. Blocked(d) /\ Leave(d)
    BY <1>2, <1>6 DEF DriveBlocked
  <2>2. Parked(d.k, d.s)
    BY <1>3, <1>4, <1>5, <2>1 DEF Parked, Blocked, Queued
  <2>. QED  BY <1>1, <1>3, <2>1, <2>2, LeaveStep
<1>7. CASE DriveDraining(c)
  <2>1. conn[c].phase = "draining" /\ Leave(IF Drained(d) THEN Finish(d) ELSE d)
    BY <1>2, <1>7 DEF DriveDraining
  <2>2. CASE Drained(d)
    <3>1. Leave(Finish(d))
      BY <2>1, <2>2
    <3>. QED  BY <1>1, <1>3, <1>4, <3>1, FinishLeaves
  <2>3. CASE ~Drained(d)
    <3>1. Leave(d)
      BY <2>1, <2>3
    <3>2. d.k.output_active /\ d.k.phase = "draining"
      BY <1>3, <2>1, <2>3 DEF Drained
    <3>3. Parked(d.k, d.s)
      BY <3>2 DEF Parked
    <3>. QED  BY <1>1, <1>3, <3>1, <3>3, LeaveStep
  <2>. QED  BY <2>2, <2>3
<1>8. ASSUME NEW i, i = Turn(d), ~Blocked(d), conn[c].phase # "draining"
      PROVE  /\ Good(i.d, EndedOps, Held(c)) /\ i.d.fd = c /\ ~i.d.k.dead
             /\ Prepares(i.d, ConnectionOps(c)) /\ i.d.s.fetched <= socket[c].arrived
             /\ FlowsNow(c, i.d.k, i.d.s)
             /\ ~i.d.k.output_active => CqesOf(Output(c)) = {}
             /\ i.verdict = "want_read" =>
                   NeedsInput(i.d.k, i.d.s) /\ i.d.s.fetched = i.d.k.fed /\ ~i.d.s.eof
  <2>1. /\ Good(i.d, EndedOps, Held(c)) /\ i.d.fd = c /\ ~i.d.k.dead
        /\ Prepares(i.d, ConnectionOps(c)) /\ i.d.s.fetched <= socket[c].arrived
        /\ FlowsNow(c, i.d.k, i.d.s) /\ i.d.k.output_active = d.k.output_active
        /\ i.verdict = "want_read" =>
              NeedsInput(i.d.k, i.d.s) /\ i.d.s.fetched = i.d.k.fed /\ ~i.d.s.eof
    BY <1>1, <1>2, <1>8, TurnFacts
  <2>2. ~d.k.output_active => CqesOf(Output(c)) = {}
    <3>1. SUFFICES ASSUME ~d.k.output_active PROVE CqesOf(Output(c)) = {}
      OBVIOUS
    <3>2. Accounts(c, d.k, Live(d, EndedOps), Held(c))
      BY <1>3 DEF Good
    <3>3. Output(c) \notin EndedOps
      BY <3>1, <3>2 DEF Accounts, Live
    <3>4. Output(c) \in Operations /\ Output(c) # AcceptOp
      <4>1. Output(c) \in ConnectionOps(c) /\ AcceptOp \in WorkerOps
        BY DEF ConnectionOps, WorkerOps
      <4>. QED  BY <4>1, OperationNames
    <3>. QED  BY <3>3, <3>4, CqesEnded DEF BioInv
  <2>. QED  BY <2>1, <2>2
<1>9. CASE DriveContinues(c)
  <2>1. PICK i : i = Turn(d)
    OBVIOUS
  <2>2. ~Blocked(d) /\ conn[c].phase # "draining" /\ Continue(FlushOutput(i.d))
    BY <1>2, <1>9, <2>1 DEF DriveContinues
  <2>3. PICK e : e = FlushOutput(i.d)
    OBVIOUS
  <2>4. /\ Good(e, EndedOps, Held(c)) /\ e.fd = c /\ ~e.k.dead
        /\ Prepares(e, ConnectionOps(c)) /\ e.s.fetched <= socket[c].arrived
        /\ FlowsNow(c, e.k, e.s)
    BY <1>1, <1>8, <2>1, <2>2, <2>3, FlushedAgain
  <2>5. Continue(e)
    BY <2>2, <2>3
  <2>. QED  BY <1>1, <2>4, <2>5, ContinueStep
<1>10. CASE DriveWaits(c)
  <2>1. PICK i : i = Turn(d)
    OBVIOUS
  <2>2. /\ ~Blocked(d) /\ conn[c].phase # "draining" /\ i.verdict = "want_read"
        /\ Leave(WaitForIo(FlushOutput(i.d)))
    BY <1>2, <1>10, <2>1 DEF DriveWaits
  <2>3. PICK e : e = FlushOutput(i.d)
    OBVIOUS
  <2>4. PICK f : f = WaitForIo(e)
    OBVIOUS
  <2>5. /\ Good(e, EndedOps, Held(c)) /\ e.fd = c /\ ~e.k.dead /\ e.s = i.d.s
        /\ Prepares(e, ConnectionOps(c)) /\ e.s.fetched <= socket[c].arrived
        /\ FlowsNow(c, e.k, e.s) /\ SameDialogue(i.d.k, e.k) /\ e.k.fed = i.d.k.fed
        /\ e.k.output_active \/ Queued(e) = 0
    BY <1>1, <1>8, <2>1, <2>2, <2>3, FlushedAgain
  <2>6. NeedsInput(i.d.k, i.d.s) /\ i.d.s.fetched = i.d.k.fed /\ ~i.d.s.eof
        /\ i.d.k \in Connection
    BY <1>8, <2>1, <2>2 DEF Good, Queues, Contexts
  <2>7. NeedsInput(e.k, e.s)
    BY <2>5, <2>6, NeedsKept DEF SameDialogue
  <2>8. e.s.fetched = e.k.fed /\ ~e.s.eof
    BY <2>5, <2>6
  <2>9. /\ Good(f, EndedOps, Held(c)) /\ f.fd = c /\ Prepares(f, ConnectionOps(c))
        /\ f.s.fetched <= socket[c].arrived /\ FlowsNow(c, f.k, f.s) /\ Parked(f.k, f.s)
    BY <1>1, <2>4, <2>5, <2>7, <2>8, WaitParked
  <2>10. Leave(f)
    BY <2>2, <2>3, <2>4
  <2>. QED  BY <1>1, <2>9, <2>10, LeaveStep
<1>11. CASE DriveFails(c)
  <2>1. PICK i : i = Turn(d)
    OBVIOUS
  <2>2. ~Blocked(d) /\ conn[c].phase # "draining" /\ Leave(Finish(i.d))
    BY <1>2, <1>11, <2>1 DEF DriveFails
  <2>3. /\ Good(i.d, EndedOps, Held(c)) /\ i.d.fd = c
        /\ Prepares(i.d, ConnectionOps(c)) /\ i.d.s.fetched <= socket[c].arrived
        /\ Bounded(i.d.k, i.d.s)
    BY <1>8, <2>1, <2>2 DEF FlowsNow, Flows
  <2>. QED  BY <1>1, <2>2, <2>3, FinishLeaves
<1>. QED  BY <1>6, <1>7, <1>9, <1>10, <1>11

-----------------------------------------------------------------------------
(* The invariant and what follows from it.                                 *)

LEMMA BioInvInitially == BioInit => BioInv
<1> SUFFICES ASSUME BioInit PROVE BioInv
  OBVIOUS
<1>1. CoreInv /\ Pending = {AcceptOp}
  BY CoreInit DEF BioInit, Init
<1>2. NoEpoll
  BY <1>1, OperationNames DEF NoEpoll
<1>3. TasksOk /\ ExitOk
  BY DEF BioInit, Init, TasksOk, ExitOk, NoTask, Task
<1>4. FlowsOk /\ ParkedOk
  BY DEF BioInit, Init, FlowsOk, ParkedOk
<1>5. WiresOk
  <2>1. CqFds = {}
    BY EmptyQueue DEF BioInit, Init
  <2>2. wire \in [Fds -> Seq(Nat)] /\ connections = {}
    BY DEF BioInit, Init
  <2>. QED  BY <2>1, <2>2 DEF WiresOk
<1>. QED  BY <1>1, <1>2, <1>3, <1>4, <1>5 DEF BioInv

LEMMA BioInvKept == BioInv /\ [Next]_bioVars => BioInv'
<1> SUFFICES ASSUME BioInv, [Next]_bioVars PROVE BioInv'
  OBVIOUS
<1>1. CASE Thread
  <2>1. CASE Complete
    BY <2>1, ListenStep, CancelStep, InputStep, OutputStep DEF Complete
  <2>2. CASE Drive
    BY <2>2, DriveStep DEF Drive
  <2>. QED  BY <1>1, <2>1, <2>2, MainStep DEF Thread
<1>2. CASE Signal
  BY <1>2, SignalStep
<1>3. CASE Kernel
  BY <1>3, KernelStep
<1>4. CASE UNCHANGED bioVars
  <2>1. UNCHANGED vars /\ UNCHANGED wire
    BY <1>4 DEF bioVars
  <2>2. UNCHANGED <<task, connections, conn, ssl, pc, socket, wire, cq>>
    BY <2>1 DEF vars
  <2>3. CoreInv' /\ EpollKept
    BY <2>1, QuietFacts, QuietStep DEF BioInv, vars
  <2>4. pc' = "exited" => ~Draining'
    BY <2>1 DEF BioInv, ExitOk, Draining, vars
  <2>5. TasksOk' /\ NoEpoll' /\ ExitOk' /\ ParkedOk'
    BY <2>2, <2>3, <2>4, RestKept
  <2>. QED  BY <2>2, <2>3, <2>5, StillKept DEF BioInv
<1>. QED  BY <1>1, <1>2, <1>3, <1>4 DEF Next, Terminated

\* In every state of the memory-BIO worker the connections, the queues, the
\* listener and the sockets agree, the wire and wire_output account for all that
\* OpenSSL produced, and a connection that nobody drives waits for its send or
\* for input that OpenSSL cannot do without.
THEOREM BioInvariant == Spec => []BioInv
  BY BioInvInitially, BioInvKept, PTL DEF Spec

\* References count the owner, the outstanding receive, send and cancels and the
\* completion in progress, and the flags tell which operations those are
\* (release, submit_recv and submit_send of tls-bio).
THEOREM ReferencesAlwaysMatch == Spec => []ReferencesMatchOperations
<1>1. BioInv => ReferencesMatchOperations
  BY ReferencesFollow DEF BioInv
<1>. QED  BY <1>1, BioInvariant, PTL

\* Each CQE ends its operation once and hands its descriptor over once, however
\* small the submission queue and whenever the listener ends by itself.
THEOREM CompletionsAlwaysAccounted == Spec => []CompletionsAccounted
<1>1. BioInv => CompletionsAccounted
  BY CompletionsFollow DEF BioInv
<1>. QED  BY <1>1, BioInvariant, PTL

\* When main frees the ring the kernel holds no operation, no completion is left
\* and no descriptor is open.
THEOREM ExitIsClean == Spec => []CleanExit
<1>1. BioInv => CleanExit
  BY NothingLeft DEF BioInv, NoEpoll, ExitOk, Draining, CleanExit
<1>. QED  BY <1>1, BioInvariant, PTL

LEMMA WireFollows ==
    ASSUME BioInv
    PROVE  WireInOrder
<1>1. SUFFICES ASSUME NEW c \in connections PROVE wire[c] = [i \in 1..Len(wire[c]) |-> i]
  BY DEF WireInOrder
<1>2. PICK w \in Seq(Nat) : w = wire[c]
  BY DEF BioInv, CoreInv, TypeOK, WiresOk
<1>3. \A i \in 1..Len(w) : w[i] = i
  BY <1>2 DEF BioInv, WiresOk, InOrder
<1>4. w = [i \in 1..Len(w) |-> w[i]]
  BY <1>2, LenProperties
<1>5. w = [i \in 1..Len(w) |-> i]
  BY <1>3, <1>4
<1>. QED  BY <1>2, <1>5

\* The socket gets what OpenSSL produced, in order, each unit once, over staging,
\* partial sends and sends prepared while OpenSSL produces more (flush_output and
\* the send's completion in complete).
THEOREM SentInOrder == Spec => []WireInOrder
<1>1. BioInv => WireInOrder
  BY WireFollows
<1>. QED  BY <1>1, BioInvariant, PTL

\* Ciphertext that is queued for a peer that does not read stays bounded by
\* WIRE_CAPACITY and what one call of OpenSSL adds (drive's early break).
THEOREM QueueBounded == Spec => []CiphertextBounded
<1>1. BioInv => CiphertextBounded
  BY DEF BioInv, FlowsOk, Flows, Bounded, CiphertextBounded, Queued, Context
<1>. QED  BY <1>1, BioInvariant, PTL

LEMMA WakeupFollows ==
    ASSUME BioInv
    PROVE  NoLostWakeup
<1>1. ASSUME NEW c \in Fds, Alive(c), ~Driving(c), NEW d, d = Context(c)
      PROVE  IF Blocked(d) \/ conn[c].phase = "draining"
             THEN Outstanding(Output(c))
             ELSE /\ Outstanding(Input(c))
                  /\ Ended(Input(c)) \/ Turn(d).verdict = "want_read"
                  /\ Queued(d) > 0 => Outstanding(Output(c))
  <2>1. c \in connections /\ ~conn[c].dead
    BY <1>1 DEF Alive
  <2>2. Parked(conn[c], ssl[c])
    BY <1>1, <2>1 DEF BioInv, ParkedOk
  <2>3. Accounts(c, conn[c], Pending, Held(c))
    BY <2>1 DEF BioInv, CoreInv, ConnectionsOk
  <2>4. /\ conn[c].input_active => Outstanding(Input(c))
        /\ conn[c].output_active => Outstanding(Output(c))
    BY <2>3, OutstandingIsPending, OperationNames DEF Accounts, ConnectionOps
  <2>5. /\ d.k = conn[c] /\ d.s = ssl[c] /\ d.fd = c /\ Good(d, EndedOps, Held(c))
    BY <1>1, <2>1, ContextGood DEF BioInv
  <2>6. d \in Contexts /\ d.s \in Ssl /\ d.k \in Connection
    BY <2>5 DEF Good, Queues, Contexts
  <2>7. d.k.staged \in Int /\ d.s.written \in Int
    BY <2>6 DEF Ssl, Connection
  <2>8. Queued(d) = ssl[c].written - conn[c].staged
    BY <2>5 DEF Queued
  <2>9. CASE Blocked(d) \/ conn[c].phase = "draining"
    <3>1. conn[c].output_active
      BY <2>2, <2>8, <2>9 DEF Parked, Blocked
    <3>. QED  BY <2>4, <2>9, <3>1
  <2>10. CASE ~(Blocked(d) \/ conn[c].phase = "draining")
    <3>1. /\ conn[c].input_active /\ NeedsInput(conn[c], ssl[c])
          /\ ssl[c].fetched = conn[c].fed /\ ~ssl[c].eof
          /\ ssl[c].written > conn[c].staged => conn[c].output_active
      BY <2>2, <2>8, <2>10 DEF Parked, Blocked
    <3>2. d.s.fetched <= d.k.fed /\ d.k.fed <= socket[d.fd].arrived
      BY <2>1, <2>5 DEF BioInv, FlowsOk, Flows, Feeding
    <3>3. PICK bios : bios = Bios(d)
      OBVIOUS
    <3>4. BiosOk(bios) /\ bios.available = d.k.fed /\ bios.behind = "more"
      BY <2>5, <2>6, <3>1, <3>2, <3>3, BiosAreOk DEF BioInv
    <3>5. Iteration(d, bios).verdict = "want_read"
      BY <2>5, <2>6, <3>1, <3>4, StarvedTurn
    <3>6. Turn(d).verdict = "want_read"
      BY <3>3, <3>5 DEF Turn
    <3>7. Queued(d) > 0 => conn[c].output_active
      BY <2>5, <2>7, <2>8, <3>1
    <3>. QED  BY <2>4, <2>10, <3>1, <3>6, <3>7
  <2>. QED  BY <2>9, <2>10
<1>. QED  BY <1>1 DEF NoLostWakeup

\* No wakeup is lost: a connection that nobody drives has a send in flight when
\* ciphertext or close_notify holds it back, and else a receive, without which
\* OpenSSL can do nothing (wait_for_io and flush_output).
THEOREM WakeupNeverLost == Spec => []NoLostWakeup
<1>1. BioInv => NoLostWakeup
  BY WakeupFollows
<1>. QED  BY <1>1, BioInvariant, PTL


-----------------------------------------------------------------------------
(* What the peers were told.                                               *)

LEMMA SubmitOutputTalk ==
    ASSUME NEW d \in Contexts
    PROVE  /\ SubmitOutput(d) \in Contexts /\ SameTalk(d.k, SubmitOutput(d).k)
           /\ SubmitOutput(d).fd = d.fd /\ SubmitOutput(d).s = d.s
<1> DEFINE op == Output(d.fd)
           g == GetSqe(d, op)
           l == Sending(d.k)
<1>1. d.k \in Connection /\ d.fd \in Fds
  BY DEF Contexts
<1>2. op \in Operations
  BY <1>1, OperationNames DEF ConnectionOps
<1>3. g \in Contexts /\ g.k = d.k /\ g.fd = d.fd /\ g.s = d.s
  BY <1>2, GetSqeTalk
<1> HIDE DEF op
<1>4. SubmitOutput(d) = With(g, l)
  <2>1. Prepare(d, op) = [g EXCEPT !.k = [g.k EXCEPT !.references = g.k.references + 1]]
    BY <1>3 DEF Prepare, Contexts, Connection
  <2>2. SubmitOutput(d)
            = [Prepare(d, op) EXCEPT !.k = [Prepare(d, op).k EXCEPT !.output_active = TRUE]]
    BY DEF SubmitOutput, op
  <2>. QED  BY <2>1, <2>2, <1>1, <1>3 DEF Contexts, Connection, With, Sending
<1>5. l \in Connection
  <2>1. PICK n \in Nat : n = d.k.references + 1
    BY <1>1 DEF Connection
  <2>. QED  BY <1>1, <2>1 DEF Sending, Connection
<1>6. SameTalk(d.k, l)
  BY <1>1 DEF Sending, SameTalk, Connection
<1>7. /\ With(g, l) \in Contexts /\ With(g, l).k = l
      /\ With(g, l).fd = g.fd /\ With(g, l).s = g.s
  BY <1>3, <1>5, WithConnection
<1>. QED  BY <1>3, <1>4, <1>6, <1>7

LEMMA SameDialogueTalk ==
    ASSUME NEW k, NEW l, SameDialogue(k, l)
    PROVE  SameTalk(k, l)
  BY DEF SameDialogue, SameTalk

\* What was told does not depend on the end of the stream.
LEMMA EofTold ==
    ASSUME NEW k, NEW s \in Ssl, NEW script, Told(k, s, script)
    PROVE  Told(k, [s EXCEPT !.eof = TRUE], script)
<1> DEFINE t == [s EXCEPT !.eof = TRUE]
<1>1. t.out = s.out /\ t.writing = s.writing /\ t.plain = s.plain /\ t.consumed = s.consumed
  BY DEF Ssl
<1> HIDE DEF t
<1>2. Told(k, t, script)
  BY <1>1 DEF Told, HeardOf
<1>. QED  BY <1>2 DEF t

\* The connection whose receive or send has ended, before it is driven.
LEMMA InputEndedTold ==
    ASSUME CoreInv, PeersTold, NEW c \in connections, NEW cqe
    PROVE  /\ InputEnded(c) \in Contexts /\ InputEnded(c).fd = c
           /\ Told(InputEnded(c).k, InputEnded(c).s, socket[c].script)
           /\ Fed(InputEnded(c), cqe).fd = c
           /\ Told(Fed(InputEnded(c), cqe).k, Fed(InputEnded(c), cqe).s, socket[c].script)
<1> DEFINE d == InputEnded(c)
           l == [conn[c] EXCEPT !.input_active = FALSE]
<1>1. /\ Context(c) \in Contexts /\ Context(c).fd = c
      /\ Context(c).k = conn[c] /\ Context(c).s = ssl[c]
  BY ContextGood
<1>2. conn[c] \in Connection /\ ssl[c] \in Ssl
  BY <1>1 DEF Contexts
<1>3. d = With(Context(c), l)
  BY <1>1 DEF InputEnded, With
<1>4. l \in Connection /\ SameTalk(conn[c], l)
  BY <1>2, ConnectionTalk DEF Connection
<1>5. Told(conn[c], ssl[c], socket[c].script)
  BY DEF PeersTold
<1>6. Told(l, ssl[c], socket[c].script)
  BY <1>4, <1>5, SameTalkTold
<1> HIDE DEF l
<1>7. d \in Contexts /\ d.k = l /\ d.fd = c /\ d.s = ssl[c]
  BY <1>1, <1>3, <1>4, WithConnection
<1> HIDE DEF d
<1>8. Told(d.k, d.s, socket[c].script)
  BY <1>6, <1>7
<1>9. Fed(d, cqe).fd = c /\ Told(Fed(d, cqe).k, Fed(d, cqe).s, socket[c].script)
  <2>1. CASE cqe.res = "eof"
    <3>1. Told(d.k, [d.s EXCEPT !.eof = TRUE], socket[c].script)
      BY <1>2, <1>7, <1>8, EofTold
    <3>2. PICK t : t = [d.s EXCEPT !.eof = TRUE]
      OBVIOUS
    <3>3. Fed(d, cqe) = [d EXCEPT !.s = t]
      BY <1>7, <2>1, <3>2 DEF Fed, Contexts
    <3>4. Fed(d, cqe).fd = c /\ Fed(d, cqe).k = d.k /\ Fed(d, cqe).s = t
      BY <1>7, <3>3 DEF Contexts
    <3>. QED  BY <3>1, <3>2, <3>4
  <2>2. CASE cqe.res # "eof"
    <3>1. PICK m : m = [d.k EXCEPT !.fed = d.k.fed + cqe.count]
      OBVIOUS
    <3>2. SameTalk(d.k, m)
      BY <1>4, <1>7, <3>1 DEF SameTalk, Connection
    <3>3. Fed(d, cqe) = [d EXCEPT !.k = m]
      BY <1>7, <2>2, <3>1 DEF Fed, Contexts
    <3>4. Fed(d, cqe).fd = c /\ Fed(d, cqe).k = m /\ Fed(d, cqe).s = d.s
      BY <1>7, <3>3 DEF Contexts
    <3>. QED  BY <1>8, <3>2, <3>4, SameTalkTold
  <2>. QED  BY <2>1, <2>2
<1>. QED  BY <1>7, <1>8, <1>9 DEF d

\* A completion that finishes the connection.
LEMMA FinishConcludedTold ==
    ASSUME CoreInv, PeersTold, ScriptsKept, NEW c \in connections, NEW ended,
           NEW d, Good(d, ended, 1), d.fd = c, Told(d.k, d.s, socket[c].script),
           Store(Release(Finish(d)))
    PROVE  PeersTold'
<1>1. d \in Contexts
  BY DEF Good, Queues
<1>2. PICK held \in Nat : held = 1
  OBVIOUS
<1>3. PICK f : f = Finish(d)
  OBVIOUS
<1>4. Good(f, ended, held)
  BY <1>2, <1>3, FinishGood
<1>5. f \in Contexts /\ f.fd = c /\ Told(f.k, f.s, socket[c].script)
  BY <1>1, <1>3, <1>4, EndedTold, FinishTalk DEF Good, Queues
<1>. QED  BY <1>3, <1>5, ConcludedTold

LEMMA InputTold ==
    ASSUME BioInv, PeersTold, NEW c \in Fds, InputCompleted(c)
    PROVE  PeersTold'
<1>0. PICK cqe : cqe = Head(cq)
  OBVIOUS
<1>1. PICK d : d = InputEnded(c)
  OBVIOUS
<1>2. /\ Completes("input") /\ cqe.op = Input(c)
      /\ \/ Store(Release(d))
         \/ Store(Release(Finish(d)))
         \/ Store(Fed(d, cqe))
  BY <1>0, <1>1 DEF InputCompleted, Concludes, Drives
<1>3. pc \in {"wait", "reap"} /\ cq # <<>> /\ cq' = Tail(cq) /\ UNCHANGED socket /\ CoreInv
  BY <1>2 DEF Completes, BioInv
<1>4. c \in connections /\ ScriptsKept
  BY <1>0, <1>2, <1>3, EndedCqe, ScriptsKeptBySteps
<1>5. /\ d \in Contexts /\ d.fd = c /\ Told(d.k, d.s, socket[c].script)
      /\ Fed(d, cqe).fd = c /\ Told(Fed(d, cqe).k, Fed(d, cqe).s, socket[c].script)
  BY <1>1, <1>3, <1>4, InputEndedTold
<1>6. Good(d, EndedOps', 1)
  <2>1. InBounds(conn[c])
    BY <1>3, <1>4 DEF CoreInv, ConnectionsOk, Accounts
  <2>2. PICK l : l = Unreceived(conn[c])
    OBVIOUS
  <2>3. /\ InBounds(l) /\ l.references = conn[c].references /\ l.dead = conn[c].dead
        /\ ~l.input_active /\ l.output_active = conn[c].output_active
        /\ l.input_cancelled = conn[c].input_cancelled
        /\ l.output_cancelled = conn[c].output_cancelled
    <3>1. PICK n \in Nat : n = 0
      OBVIOUS
    <3>. QED  BY <2>1, <2>2, <3>1, UnreceivedConnection
  <2>4. d.k = l /\ d.sq = sq /\ d.kernel = kernel
    BY <1>1, <2>2 DEF InputEnded, Context, Unreceived
  <2>5. Input(c) # Output(c)
    BY OperationNames
  <2>. QED  BY <1>0, <1>2, <1>3, <1>5, <2>3, <2>4, <2>5, EndedGood
<1>7. CASE Store(Release(d))
  BY <1>3, <1>4, <1>5, <1>7, ConcludedTold
<1>8. CASE Store(Release(Finish(d)))
  BY <1>3, <1>4, <1>5, <1>6, <1>8, FinishConcludedTold
<1>9. CASE Store(Fed(d, cqe))
  BY <1>3, <1>4, <1>5, <1>9, StoredTold
<1>. QED  BY <1>2, <1>7, <1>8, <1>9

LEMMA OutputTold ==
    ASSUME BioInv, PeersTold, NEW c \in Fds, OutputCompleted(c)
    PROVE  PeersTold'
<1>0. PICK cqe : cqe = Head(cq)
  OBVIOUS
<1>1. PICK d : d = Sent(Context(c), cqe.count)
  OBVIOUS
<1>2. /\ Completes("output") /\ cqe.op = Output(c)
      /\ \/ Store(Release(d))
         \/ Store(Release(Finish(d)))
         \/ Store(Release(SubmitOutput(d)))
         \/ Store(Emptied(d))
  BY <1>0, <1>1 DEF OutputCompleted, Concludes, Drives
<1>3. pc \in {"wait", "reap"} /\ cq # <<>> /\ cq' = Tail(cq) /\ UNCHANGED socket /\ CoreInv
  BY <1>2 DEF Completes, BioInv
<1>4. c \in connections /\ ScriptsKept /\ cqe.count \in Nat
  BY <1>0, <1>2, <1>3, EndedCqe, ScriptsKeptBySteps
<1>5. InBounds(conn[c]) /\ conn[c] \in Connection
  BY <1>3, <1>4 DEF CoreInv, ConnectionsOk, Accounts, InBounds
<1>6. PICK offset \in Nat, length \in Nat :
         offset = conn[c].wire_offset + cqe.count /\ length = conn[c].wire_length
  <2>1. PICK length \in Nat : length = conn[c].wire_length
    BY <1>5 DEF Connection
  <2>2. PICK before \in Nat : before = conn[c].wire_offset
    BY <1>5 DEF Connection
  <2>3. PICK count \in Nat : count = cqe.count
    BY <1>4
  <2>4. PICK offset \in Nat : offset = before + count
    OBVIOUS
  <2>. QED  BY <2>1, <2>2, <2>3, <2>4
<1>7. PICK l : l = Unsent(conn[c], offset, length)
  OBVIOUS
<1>8. /\ InBounds(l) /\ l.references = conn[c].references /\ ~l.output_active
      /\ l.input_active = conn[c].input_active
      /\ l.input_cancelled = conn[c].input_cancelled
      /\ l.output_cancelled = conn[c].output_cancelled
      /\ SameDialogue(conn[c], l)
  <2>1. PICK k : k = conn[c]
    OBVIOUS
  <2>2. InBounds(k) /\ l = Unsent(k, offset, length)
    BY <1>5, <1>7, <2>1
  <2>3. /\ InBounds(l) /\ l.references = k.references /\ ~l.output_active
        /\ l.input_active = k.input_active
        /\ l.input_cancelled = k.input_cancelled
        /\ l.output_cancelled = k.output_cancelled
        /\ SameDialogue(k, l)
    BY <2>2, UnsentConnection
  <2>. QED  BY <2>1, <2>3
<1>9. /\ Context(c) \in Contexts /\ Context(c).fd = c /\ Context(c).k = conn[c]
      /\ Context(c).s = ssl[c] /\ Context(c).sq = sq /\ Context(c).kernel = kernel
  BY <1>3, <1>4, ContextGood
<1>10. d = With(Context(c), l)
  <2>1. d = [Context(c) EXCEPT !.k = [conn[c] EXCEPT !.output_active = FALSE,
                                                     !.wire_offset = offset]]
    BY <1>1, <1>5, <1>6, <1>9 DEF Sent, Contexts, Connection
  <2>2. [conn[c] EXCEPT !.output_active = FALSE, !.wire_offset = offset] = l
    BY <1>5, <1>6, <1>7 DEF Unsent, Connection
  <2>. QED  BY <2>1, <2>2 DEF With
<1>11. /\ d \in Contexts /\ d.k = l /\ d.fd = c /\ d.s = ssl[c]
       /\ d.sq = sq /\ d.kernel = kernel
  BY <1>8, <1>9, <1>10, WithConnection DEF InBounds
<1>12. Told(d.k, d.s, socket[c].script)
  <2>1. Told(conn[c], ssl[c], socket[c].script)
    BY <1>4 DEF PeersTold
  <2>. QED  BY <1>8, <1>11, <2>1, SameDialogueTalk, SameTalkTold
<1>13. Good(d, EndedOps', 1)
  <2>1. Input(c) # Output(c)
    BY OperationNames
  <2>. QED  BY <1>0, <1>2, <1>3, <1>4, <1>8, <1>11, <2>1, EndedGood DEF SameDialogue
<1>14. CASE Store(Release(d))
  BY <1>3, <1>4, <1>11, <1>12, <1>14, ConcludedTold
<1>15. CASE Store(Release(Finish(d)))
  BY <1>3, <1>4, <1>11, <1>12, <1>13, <1>15, FinishConcludedTold
<1>16. CASE Store(Release(SubmitOutput(d)))
  <2>1. PICK e : e = SubmitOutput(d)
    OBVIOUS
  <2>2. e \in Contexts /\ e.fd = d.fd /\ e.s = d.s /\ SameTalk(d.k, e.k)
    BY <1>11, <2>1, SubmitOutputTalk
  <2>3. Told(e.k, e.s, socket[c].script)
    BY <1>12, <2>2, SameTalkTold
  <2>. QED  BY <1>3, <1>4, <1>11, <1>16, <2>1, <2>2, <2>3, ConcludedTold
<1>17. CASE Store(Emptied(d))
  <2>1. PICK m : m = [d.k EXCEPT !.wire_offset = 0, !.wire_length = 0]
    OBVIOUS
  <2>2. Emptied(d) = [d EXCEPT !.k = m]
    BY <1>11, <2>1 DEF Emptied, Contexts
  <2>3. Emptied(d).fd = c /\ Emptied(d).k = m /\ Emptied(d).s = d.s
    BY <1>11, <2>2 DEF Contexts
  <2>4. SameTalk(d.k, m)
    BY <1>8, <1>11, <2>1 DEF SameTalk, Connection, InBounds
  <2>. QED  BY <1>3, <1>4, <1>12, <1>17, <2>3, <2>4, SameTalkTold, StoredTold
<1>. QED  BY <1>2, <1>14, <1>15, <1>16, <1>17

\* flush_output tells the peer nothing that OpenSSL has not.
LEMMA FlushTold ==
    ASSUME NEW d \in Contexts, NEW script, Told(d.k, d.s, script)
    PROVE  /\ FlushOutput(d).fd = d.fd /\ FlushOutput(d).s = d.s
           /\ Told(FlushOutput(d).k, FlushOutput(d).s, script)
<1>1. CASE d.k.output_active \/ Queued(d) = 0
  BY <1>1 DEF FlushOutput
<1>2. CASE ~(d.k.output_active \/ Queued(d) = 0)
  <2>1. PICK e : e = SubmitOutput(d)
    OBVIOUS
  <2>2. PICK count : count = Min({Queued(d), WireCapacity})
    OBVIOUS
  <2>3. e \in Contexts /\ e.fd = d.fd /\ e.s = d.s /\ SameTalk(d.k, e.k)
    BY <2>1, SubmitOutputTalk
  <2>4. PICK m : m = [e.k EXCEPT !.staged = e.k.staged + count, !.wire_length = count,
                                 !.wire_offset = 0]
    OBVIOUS
  <2>5. FlushOutput(d) = [e EXCEPT !.k = m]
    <3>1. FlushOutput(d) = [e EXCEPT !.k.staged = @ + count, !.k.wire_length = count,
                                     !.k.wire_offset = 0]
      BY <1>2, <2>1, <2>2 DEF FlushOutput
    <3>. QED  BY <2>3, <2>4, <3>1 DEF Contexts, Connection
  <2>6. FlushOutput(d).fd = d.fd /\ FlushOutput(d).s = d.s /\ FlushOutput(d).k = m
    BY <2>3, <2>5 DEF Contexts
  <2>7. SameTalk(e.k, m)
    BY <2>3, <2>4 DEF SameTalk, Contexts, Connection
  <2>. QED  BY <2>3, <2>6, <2>7, SameTalkTold
<1>. QED  BY <1>1, <1>2

\* finish() in drive(), after operations were submitted.
LEMMA FinishLeavesTold ==
    ASSUME CoreInv, PeersTold, NEW c \in Fds, Driving(c), DriveUnchanged,
           NEW d, Good(d, EndedOps, Held(c)), d.fd = c, Prepares(d, ConnectionOps(c)),
           d.s.fetched <= socket[c].arrived, Leave(Finish(d)),
           Told(d.k, d.s, socket[c].script)
    PROVE  PeersTold'
<1>1. PICK held \in Nat : held = Held(c)
  BY DEF Held, Count
<1>2. PICK f : f = Finish(d)
  OBVIOUS
<1>3. Good(f, EndedOps, held) /\ Grows(d, f, EndedOps, ConnectionOps(c))
  BY <1>1, <1>2, FinishGood
<1>4. Prepares(f, ConnectionOps(c)) /\ f.fd = c /\ f.s = d.s
  BY <1>3 DEF Grows, Prepares
<1>5. Told(f.k, f.s, socket[c].script)
  BY <1>2, <1>4, EndedTold DEF Good, Queues
<1>. QED  BY <1>1, <1>2, <1>3, <1>4, <1>5, LeaveTold

\* The call of OpenSSL, on the memory BIOs of a connection that was flushed.
LEMMA TurnOfBiosTold ==
    ASSUME BioInv, NEW c \in Fds, Driving(c), conn[c].phase # "draining",
           NEW d, d = FlushOutput(Context(c)), NEW i, i = Turn(d),
           Told(d.k, d.s, socket[c].script)
    PROVE  Told(i.d.k, i.d.s, socket[c].script)
<1>1. /\ Good(d, EndedOps, Held(c)) /\ d.fd = c /\ ~d.k.dead
      /\ FlowsNow(c, d.k, d.s) /\ d.k.phase = conn[c].phase
  BY FlushedFacts
<1>2. Feeding(d.k, d.s, socket[c].arrived, CqesOf(Input(c)))
  BY <1>1 DEF FlowsNow, Flows
<1>3. /\ d \in Contexts /\ InBounds(d.k) /\ d.s \in Ssl
      /\ d = [fd |-> d.fd, k |-> d.k, s |-> d.s, sq |-> d.sq, kernel |-> d.kernel]
  BY <1>1 DEF Good, Queues, Contexts, Accounts
<1>4. d.s.fetched <= d.k.fed /\ d.k.fed <= socket[d.fd].arrived
  BY <1>1, <1>2 DEF Feeding
<1>5. PICK bios : bios = Bios(d)
  OBVIOUS
<1>6. BiosOk(bios) /\ d.s.fetched <= bios.available
  BY <1>3, <1>4, <1>5, BiosAreOk DEF BioInv
<1>7. bios.script = socket[c].script
  BY <1>1, <1>5 DEF Bios
<1>8. i = Iteration(d, bios)
  BY <1>5 DEF Turn
<1>9. Told(Iteration(d, bios).d.k, Iteration(d, bios).d.s, bios.script)
  BY <1>1, <1>3, <1>6, <1>7, IterationTold
<1>. QED  BY <1>7, <1>8, <1>9

LEMMA DriveTold ==
    ASSUME BioInv, PeersTold, NEW c \in Fds,
           \/ DriveBlocked(c) \/ DriveDraining(c) \/ DriveContinues(c)
           \/ DriveWaits(c) \/ DriveFails(c)
    PROVE  PeersTold'
<1>1. Driving(c) /\ DriveUnchanged /\ UNCHANGED wire /\ CoreInv
  BY DEF DriveBlocked, DriveDraining, DriveContinues, DriveWaits, DriveFails, Unchanging,
         DriveUnchanged, BioInv
<1>2. PICK d : d = FlushOutput(Context(c))
  OBVIOUS
<1>3. /\ c \in connections /\ ~d.k.dead /\ d.fd = c
      /\ Good(d, EndedOps, Held(c)) /\ Prepares(d, ConnectionOps(c))
      /\ d.s.fetched <= socket[c].arrived
  BY <1>1, <1>2, FlushedFacts
<1>4. Told(d.k, d.s, socket[c].script)
  <2>1. /\ Context(c) \in Contexts /\ Context(c).k = conn[c] /\ Context(c).s = ssl[c]
    BY <1>1, <1>3, ContextGood
  <2>2. Told(conn[c], ssl[c], socket[c].script)
    BY <1>3 DEF PeersTold
  <2>3. PICK e : e = Context(c)
    OBVIOUS
  <2>. QED  BY <1>2, <2>1, <2>2, <2>3, FlushTold
<1>5. CASE DriveBlocked(c)
  <2>1. Leave(d)
    BY <1>2, <1>5 DEF DriveBlocked
  <2>. QED  BY <1>1, <1>3, <1>4, <2>1, LeaveTold
<1>6. CASE DriveDraining(c)
  <2>1. Leave(IF Drained(d) THEN Finish(d) ELSE d)
    BY <1>2, <1>6 DEF DriveDraining
  <2>2. CASE Drained(d)
    BY <1>1, <1>3, <1>4, <2>1, <2>2, FinishLeavesTold
  <2>3. CASE ~Drained(d)
    BY <1>1, <1>3, <1>4, <2>1, <2>3, LeaveTold
  <2>. QED  BY <2>2, <2>3
<1>7. CASE DriveContinues(c) \/ DriveWaits(c) \/ DriveFails(c)
  <2>1. PICK i : i = Turn(d)
    OBVIOUS
  <2>2. PICK g : g = i.d
    OBVIOUS
  <2>3. ~Blocked(d) /\ conn[c].phase # "draining"
    BY <1>2, <1>7 DEF DriveContinues, DriveWaits, DriveFails
  <2>4. /\ Good(g, EndedOps, Held(c)) /\ g.fd = c
        /\ Prepares(g, ConnectionOps(c)) /\ g.s.fetched <= socket[c].arrived
    BY <1>1, <1>2, <2>1, <2>2, <2>3, TurnFacts
  <2>5. Told(g.k, g.s, socket[c].script)
    BY <1>1, <1>2, <1>4, <2>1, <2>2, <2>3, TurnOfBiosTold
  <2>6. PICK e : e = FlushOutput(g)
    OBVIOUS
  <2>7. e.fd = c /\ Told(e.k, e.s, socket[c].script)
    BY <2>4, <2>5, <2>6, FlushTold DEF Good, Queues
  <2>8. CASE DriveContinues(c)
    <3>1. Continue(e)
      BY <1>2, <2>1, <2>2, <2>6, <2>8 DEF DriveContinues
    <3>. QED  BY <1>1, <1>3, <2>7, <3>1, ContinueTold
  <2>9. CASE DriveWaits(c)
    <3>1. PICK f : f = WaitForIo(e)
      OBVIOUS
    <3>2. Leave(f)
      BY <1>2, <2>1, <2>2, <2>6, <2>9, <3>1 DEF DriveWaits
    <3>3. PICK held \in Nat : held = Held(c)
      BY DEF Held, Count
    <3>4. g.k.staged <= g.s.written
      <4>1. FlowsNow(c, g.k, g.s)
        BY <1>1, <1>2, <2>1, <2>2, <2>3, TurnFacts
      <4>. QED  BY <4>1 DEF FlowsNow, Flows, Bounded
    <3>5. /\ Good(e, EndedOps, held) /\ Grows(g, e, EndedOps, ConnectionOps(c)) /\ e.s = g.s
      BY <2>4, <2>6, <3>3, <3>4, FlushGood
    <3>6. Prepares(e, ConnectionOps(c)) /\ e \in Contexts
      BY <2>4, <3>5 DEF Prepares, Grows, Good, Queues
    <3>7. /\ Good(f, EndedOps, held) /\ f.fd = c /\ f.s = e.s /\ SameTalk(e.k, f.k)
          /\ Prepares(f, ConnectionOps(c))
      <4>1. CASE e.k.input_active
        <5>1. f = e
          BY <3>1, <4>1 DEF WaitForIo
        <5>2. SameTalk(e.k, e.k)
          BY DEF SameTalk
        <5>. QED  BY <2>7, <3>5, <3>6, <5>1, <5>2
      <4>2. CASE ~e.k.input_active
        <5>1. f = SubmitInput(e, "in")
          BY <3>1, <4>2 DEF WaitForIo
        <5>2. Good(f, EndedOps, held) /\ Grows(e, f, EndedOps, ConnectionOps(c))
          BY <2>7, <3>5, <4>2, <5>1, SubmitInputGood
        <5>3. SameTalk(e.k, f.k)
          BY <3>6, <5>1, SubmitInputTalk
        <5>4. Prepares(f, ConnectionOps(c)) /\ f.fd = c /\ f.s = e.s
          BY <2>7, <3>6, <5>2 DEF Prepares, Grows
        <5>. QED  BY <5>2, <5>3, <5>4
      <4>. QED  BY <4>1, <4>2
    <3>8. Told(f.k, f.s, socket[c].script) /\ f.s.fetched <= socket[c].arrived
      BY <2>4, <2>7, <3>5, <3>7, SameTalkTold
    <3>. QED  BY <1>1, <3>2, <3>3, <3>7, <3>8, LeaveTold
  <2>10. CASE DriveFails(c)
    <3>1. Leave(Finish(g))
      BY <1>2, <2>1, <2>2, <2>10 DEF DriveFails
    <3>. QED  BY <1>1, <2>4, <2>5, <3>1, FinishLeavesTold
  <2>. QED  BY <1>7, <2>8, <2>9, <2>10
<1>. QED  BY <1>5, <1>6, <1>7

LEMMA PeerReadsScripts ==
    ASSUME CoreInv, NEW c \in Fds, NEW sent, PeerReads(c, sent)
    PROVE  ScriptsKept
<1>1. socket \in [Fds -> Socket]
  BY DEF CoreInv, TypeOK
<1>2. PICK s : s = [socket[c] EXCEPT !.read = sent]
  OBVIOUS
<1>3. socket' = [socket EXCEPT ![c] = s]
  BY <1>1, <1>2 DEF PeerReads
<1>4. s.script = socket[c].script
  BY <1>1, <1>2 DEF Socket
<1>5. connections \subseteq Fds
  BY DEF CoreInv, TypeOK
<1>. QED  BY <1>1, <1>3, <1>4, <1>5 DEF ScriptsKept

LEMMA PeersToldKept == BioInv /\ PeersTold /\ [Next]_bioVars => PeersTold'
<1> SUFFICES ASSUME BioInv, PeersTold, [Next]_bioVars PROVE PeersTold'
  OBVIOUS
<1>1. CoreInv
  BY DEF BioInv
<1>2. ASSUME UNCHANGED <<connections, conn, ssl>>, ScriptsKept PROVE PeersTold'
  BY <1>2, ToldElsewhere
<1>3. CASE Complete
  <2>1. CASE Listen
    BY <1>1, <2>1, ListenTold
  <2>2. CASE \E c \in Fds : CancelCompleted(c)
    BY <1>1, <2>2, CancelTold
  <2>3. CASE \E c \in Fds : InputCompleted(c) \/ OutputCompleted(c)
    BY <2>3, InputTold, OutputTold
  <2>. QED  BY <1>3, <2>1, <2>2, <2>3 DEF Complete
<1>4. CASE Drive
  BY <1>4, DriveTold DEF Drive
<1>5. CASE Main
  <2>1. CASE StartShutdown(Draining, {})
    BY <1>1, <2>1, StartShutdownTold
  <2>2. CASE Submit(Draining) \/ NoCqeLeft \/ Exit(Draining)
    <3>1. UNCHANGED <<connections, conn, ssl, socket>>
      BY <2>2 DEF Submit, NoCqeLeft, Exit
    <3>. QED  BY <1>2, <3>1, ScriptsKeptBySteps
  <2>. QED  BY <1>5, <2>1, <2>2 DEF Main
<1>6. CASE Signal \/ Terminated \/ UNCHANGED bioVars
  <2>1. UNCHANGED <<connections, conn, ssl, socket>>
    BY <1>6 DEF Signal, SignalStop, SubmitInterrupted, Terminated, bioVars, vars
  <2>. QED  BY <1>2, <2>1, ScriptsKeptBySteps
<1>7. CASE Kernel
  <2>1. UNCHANGED worker
    BY <1>7 DEF Kernel, KernelAcceptFails, CancelSteps, KernelFindsTarget, KernelEndsTarget,
         KernelCancels, KernelAccepts, KernelFails, KernelReceives, KernelReceivesEnd,
         KernelSends, KernelSendFails, Completed, PeerSends, PeerLeaves, PeerReads
  <2>2. ScriptsKept
    <3>1. CASE KernelAcceptFails \/ CancelSteps
      <4>1. UNCHANGED socket
        BY <3>1 DEF KernelAcceptFails, CancelSteps, KernelFindsTarget, KernelEndsTarget,
             KernelCancels
      <4>. QED  BY <4>1, ScriptsKeptBySteps
    <3>2. ASSUME NEW c \in Fds, KernelAccepts(c) \/ PeerSends(c) \/ PeerLeaves(c)
          PROVE  ScriptsKept
      BY <1>1, <3>2, ScriptsKeptBySteps
    <3>3. ASSUME NEW c \in Fds,
                 \/ KernelFails(Input(c)) \/ KernelFails(Output(c))
                 \/ KernelReceives(c) \/ KernelReceivesEnd(c)
                 \/ KernelSends(c) \/ KernelSendFails(c)
          PROVE  ScriptsKept
      <4>1. UNCHANGED socket
        BY <3>3 DEF KernelFails, KernelReceives, KernelReceivesEnd, KernelSends, KernelSendFails
      <4>. QED  BY <4>1, ScriptsKeptBySteps
    <3>4. ASSUME NEW c \in Fds, PeerReads(c, Len(wire[c])) PROVE ScriptsKept
      BY <1>1, <3>4, PeerReadsScripts
    <3>. QED  BY <1>7, <3>1, <3>2, <3>3, <3>4 DEF Kernel
  <2>. QED  BY <1>2, <2>1, <2>2 DEF worker
<1>. QED  BY <1>3, <1>4, <1>5, <1>6, <1>7 DEF Next, Thread

\* Over memory BIOs too, each peer is told its handshake, then the replies that
\* the lines it sent call for, in their order and each once, then close_notify:
\* ciphertext that waits to be staged and sends in flight change nothing of what
\* drive() says (drive, complete and flush_output of tls-bio).
THEOREM BioDialogueInOrder == Spec => []EncryptedInOrder
<1>1. BioInit => BioInv /\ PeersTold
  BY BioInvInitially DEF BioInit, Init, PeersTold
<1>2. (BioInv /\ PeersTold) /\ [Next]_bioVars => (BioInv /\ PeersTold)'
  BY BioInvKept, PeersToldKept
<1>3. BioInv /\ PeersTold => EncryptedInOrder
  BY PeersToldInOrder DEF BioInv, CoreInv
<1>. QED  BY <1>1, <1>2, <1>3, PTL DEF Spec
=============================================================================
