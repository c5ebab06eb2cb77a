--------------------------- MODULE TlsWorkerProofs ---------------------------
(***************************************************************************)
(* What the proofs about the TLS workers share: what a call of OpenSSL and *)
(* one iteration of drive() return, that every step the workers have in    *)
(* common keeps references, flags, queues and descriptors in agreement,    *)
(* that what a peer was told follows from the lines it sent, and that      *)
(* OpenSSL is called in turn, for any number of descriptors and queue      *)
(* entries, any peers, handshake and environment.                          *)
(***************************************************************************)
EXTENDS TlsWorker, HttpFramingProofs, FiniteSetTheorems

-----------------------------------------------------------------------------
(* OpenSSL.                                                                *)

\* BIOs that hold no more than the peer's script.
BiosOk(bios) ==
    /\ bios \in [script : Seq(PeerRecord), available : Nat, behind : {"more", "eof", "reset"},
                 limit : Nat]
    /\ bios.available <= RecordPieces * Len(bios.script)

\* A call that wants to read has taken all there is and lacks part of a record.
StarvedOf(s, bios) ==
    /\ ~HasRecord(s) /\ s.fetched = bios.available /\ bios.behind = "more"

\* A call that wants to write has filled what there was room for.
BlockedOn(s, bios, what) ==
    /\ s.writing = what /\ Unwritten(s) > 0
    /\ s.written = bios.limit /\ bios.behind # "reset"

CallResults == [verdict : {"ok", "zero_return", "want_read", "want_write", "failed"},
                s : Ssl, lines : Seq(Line)]

LEMMA MinOfTwo ==
    ASSUME NEW a \in Int, NEW b \in Int
    PROVE  Min({a, b}) = IF a <= b THEN a ELSE b
<1>1. \E x \in {a, b} : \A y \in {a, b} : x <= y
  OBVIOUS
<1>2. Min({a, b}) \in {a, b} /\ \A y \in {a, b} : Min({a, b}) <= y
  BY <1>1 DEF Min
<1>. QED  BY <1>2

LEMMA UnitsProduced ==
    ASSUME NEW n \in Nat
    PROVE  /\ RecordUnits * n \in Nat
           /\ RecordUnits * (n + 1) = RecordUnits * n + RecordUnits
           /\ RecordUnits \in Nat \ {0}
  BY EngineAssumption

LEMMA FetchResult ==
    ASSUME NEW s \in Ssl, NEW bios, BiosOk(bios), s.fetched <= bios.available
    PROVE  LET f == Fetch(s, bios)
           IN /\ f \in Ssl /\ f = [s EXCEPT !.fetched = f.fetched]
              /\ s.fetched <= f.fetched /\ f.fetched <= bios.available
              /\ ~HasRecord(f) => f.fetched = bios.available
<1> DEFINE whole == RecordPieces * (s.consumed + 1)
           n == IF ReadAhead THEN bios.available ELSE Min({bios.available, whole})
           f == [s EXCEPT !.fetched = n]
<1>1. s.fetched \in Nat /\ s.consumed \in Nat /\ whole \in Nat /\ bios.available \in Nat
  BY DEF Ssl, BiosOk, RecordPieces
<1>2. CASE HasRecord(s)
  <2>1. Fetch(s, bios) = s
    BY <1>2 DEF Fetch
  <2>2. s = [s EXCEPT !.fetched = s.fetched]
    BY DEF Ssl
  <2>. QED  BY <2>1, <2>2, <1>1, <1>2
<1>3. CASE ~HasRecord(s)
  <2>1. Fetch(s, bios) = f
    BY <1>3 DEF Fetch
  <2>2. s.fetched < whole
    BY <1>1, <1>3 DEF HasRecord
  <2>3. /\ n \in Nat /\ s.fetched <= n /\ n <= bios.available
        /\ n < whole => n = bios.available
    BY <1>1, <2>2, MinOfTwo
  <2>4. f \in Ssl /\ f.fetched = n /\ f.consumed = s.consumed
    BY <2>3 DEF Ssl
  <2>5. ~HasRecord(f) => n < whole
    BY <2>4, <2>3, <1>1 DEF HasRecord
  <2>. QED  BY <2>1, <2>3, <2>4, <2>5
<1>. QED  BY <1>2, <1>3

\* A record that has arrived is one of the script's.
LEMMA RecordOfScript ==
    ASSUME NEW s \in Ssl, NEW bios, BiosOk(bios), s.fetched <= bios.available, HasRecord(s)
    PROVE  NextRecord(s, bios) \in PeerRecord
<1>1. s.fetched \in Nat /\ s.consumed \in Nat /\ bios.available \in Nat
  BY DEF Ssl, BiosOk
<1>2. bios.script \in Seq(PeerRecord) /\ Len(bios.script) \in Nat
  BY LenProperties DEF BiosOk
<1>3. s.consumed + 1 \in 1..Len(bios.script)
  BY <1>1, <1>2 DEF HasRecord, BiosOk, RecordPieces
<1>. QED  BY <1>2, <1>3, ElementOfSeq DEF NextRecord

LEMMA ReturnType ==
    ASSUME NEW s \in Ssl, NEW verdict \in {"ok", "zero_return", "want_read", "want_write", "failed"}
    PROVE  LET r == Return(verdict, s)
           IN r \in CallResults /\ r.verdict = verdict /\ r.s = s /\ r.lines = <<>>
  BY EmptySeq DEF Return, CallResults

\* What a call leaves of a connection that is starved.
LEMMA StarvedResult ==
    ASSUME NEW s \in Ssl, NEW bios, BiosOk(bios), ~HasRecord(s), s.fetched = bios.available
    PROVE  LET r == Starved(s, bios)
           IN /\ r \in CallResults /\ r.s = s
              /\ r.verdict \in {"want_read", "failed"}
              /\ r.verdict = "want_read" => StarvedOf(s, bios)
  BY ReturnType DEF Starved, StarvedOf

LEMMA FlushResult ==
    ASSUME NEW s \in Ssl, NEW bios, BiosOk(bios)
    PROVE  LET r == Flush(s, bios)
           IN /\ r \in CallResults
              /\ r.s.fetched = s.fetched /\ r.s.steps = s.steps
              /\ r.verdict \in {"ok", "want_write", "failed"}
              /\ r.verdict = "want_write" => BlockedOn(r.s, bios, s.writing)
<1> DEFINE n == s.written + Min({Unwritten(s), bios.limit - s.written})
           t == [s EXCEPT !.written = n]
           total == RecordUnits * Len(s.out)
<1>1. s.out \in Seq(Produced) /\ Len(s.out) \in Nat /\ total \in Nat
  BY LenProperties, UnitsProduced DEF Ssl
<1>2. s.written \in Nat /\ bios.limit \in Nat
  BY DEF Ssl, BiosOk
<1>3. Unwritten(s) = total - s.written
  BY DEF Unwritten
<1> HIDE DEF total
<1>4. n = IF total <= bios.limit THEN total ELSE bios.limit
  <2>1. /\ total - s.written \in Int /\ bios.limit - s.written \in Int
        /\ total - s.written <= bios.limit - s.written <=> total <= bios.limit
    BY <1>1, <1>2
  <2>2. Min({total - s.written, bios.limit - s.written})
            = IF total - s.written <= bios.limit - s.written
              THEN total - s.written ELSE bios.limit - s.written
    BY <2>1, MinOfTwo
  <2>. QED  BY <2>1, <2>2, <1>1, <1>2, <1>3
<1> HIDE DEF n
<1>5. n \in Nat
  BY <1>1, <1>2, <1>4
<1>6. /\ t \in Ssl /\ t.written = n /\ t.out = s.out /\ t.writing = s.writing
      /\ t.fetched = s.fetched /\ t.steps = s.steps
  BY <1>5 DEF Ssl
<1>7. Unwritten(t) = total - n
  BY <1>6 DEF Unwritten, total
<1> DEFINE u == [t EXCEPT !.writing = NULL]
<1>8. u \in Ssl /\ u.fetched = s.fetched /\ u.steps = s.steps
  BY <1>6 DEF Ssl
<1>9. Flush(s, bios) = IF bios.behind = "reset" THEN Return("failed", s)
                       ELSE IF Unwritten(t) = 0 THEN Return("ok", u)
                       ELSE Return("want_write", t)
  BY DEF Flush, n
<1> HIDE DEF t, u
<1>10. CASE bios.behind = "reset"
  <2>1. Flush(s, bios) = Return("failed", s)
    BY <1>9, <1>10
  <2>. QED  BY <2>1, ReturnType
<1>11. CASE bios.behind # "reset" /\ Unwritten(t) = 0
  <2>1. Flush(s, bios) = Return("ok", u)
    BY <1>9, <1>11
  <2>. QED  BY <2>1, <1>8, ReturnType
<1>12. CASE bios.behind # "reset" /\ Unwritten(t) # 0
  <2>1. Flush(s, bios) = Return("want_write", t)
    BY <1>9, <1>12
  <2>2. Unwritten(t) > 0 /\ n = bios.limit
    BY <1>1, <1>2, <1>4, <1>7, <1>12
  <2>3. BlockedOn(t, bios, s.writing)
    BY <2>2, <1>6, <1>12 DEF BlockedOn
  <2>. QED  BY <2>1, <2>3, <1>6, ReturnType
<1>. QED  BY <1>10, <1>11, <1>12

LEMMA ProduceResult ==
    ASSUME NEW s \in Ssl, NEW bios, BiosOk(bios), NEW what \in Produced
    PROVE  LET r == Produce(s, bios, what)
           IN /\ r \in CallResults
              /\ r.s.fetched = s.fetched /\ r.s.steps = s.steps
              /\ r.verdict \in {"ok", "want_write", "failed"}
              /\ r.verdict = "want_write" => BlockedOn(r.s, bios, what)
<1> DEFINE t == [s EXCEPT !.out = Append(@, what), !.writing = what]
<1>1. CASE s.writing = NULL
  <2>1. Append(s.out, what) \in Seq(Produced)
    BY DEF Ssl
  <2>2. t \in Ssl /\ t.fetched = s.fetched /\ t.steps = s.steps /\ t.writing = what
    BY <2>1 DEF Ssl
  <2>3. Produce(s, bios, what) = Flush(t, bios)
    BY <1>1 DEF Produce
  <2> HIDE DEF t
  <2>. QED  BY <2>2, <2>3, FlushResult
<1>2. CASE s.writing # NULL /\ s.writing = what
  <2>1. Produce(s, bios, what) = Flush(s, bios)
    BY <1>2 DEF Produce
  <2>. QED  BY <2>1, <1>2, FlushResult
<1>3. CASE s.writing # NULL /\ s.writing # what
  <2>1. Produce(s, bios, what) = Return("failed", s)
    BY <1>3 DEF Produce
  <2>. QED  BY <2>1, ReturnType
<1>. QED  BY <1>1, <1>2, <1>3

LEMMA ConsumeType ==
    ASSUME NEW s \in Ssl
    PROVE  /\ Consume(s) \in Ssl /\ Consume(s).fetched = s.fetched
           /\ [Consume(s) EXCEPT !.steps = @ + 1] \in Ssl
           /\ [Consume(s) EXCEPT !.steps = @ + 1].fetched = s.fetched
           /\ \A lines \in Seq(Line) :
                 /\ [Consume(s) EXCEPT !.plain = lines] \in Ssl
                 /\ [Consume(s) EXCEPT !.plain = lines].fetched = s.fetched
<1>1. s.consumed + 1 \in Nat /\ s.steps + 1 \in Nat
  BY DEF Ssl
<1>2. ASSUME NEW n \in Nat, NEW m \in Nat, NEW lines \in Seq(Line)
      PROVE  LET t == [s EXCEPT !.consumed = n]
             IN /\ t \in Ssl /\ t.fetched = s.fetched /\ t.steps = s.steps
                /\ [t EXCEPT !.steps = m] \in Ssl /\ [t EXCEPT !.steps = m].fetched = s.fetched
                /\ [t EXCEPT !.plain = lines] \in Ssl /\ [t EXCEPT !.plain = lines].fetched = s.fetched
  BY DEF Ssl
<1>3. <<>> \in Seq(Line)
  BY EmptySeq
<1>. QED  BY <1>1, <1>2, <1>3 DEF Consume

-----------------------------------------------------------------------------
(* The handshake.                                                          *)

ReadsNext(s)  == ~Handshaken(s) /\ HandshakeSteps[s.steps + 1] = "read"
WritesNext(s) == ~Handshaken(s) /\ HandshakeSteps[s.steps + 1] # "read"

\* The handshake stops where it lacks a flight to read or room for one to write.
HandshakeResult(r, bios) ==
    /\ r \in CallResults
    /\ r.s.fetched <= bios.available
    /\ r.verdict = "want_read" => ReadsNext(r.s) /\ StarvedOf(r.s, bios)
    /\ r.verdict = "want_write" => WritesNext(r.s) /\ BlockedOn(r.s, bios, "flight")

LEMMA ReadFlightResult ==
    ASSUME NEW s \in Ssl, NEW bios, BiosOk(bios), s.fetched <= bios.available, ReadsNext(s)
    PROVE  HandshakeResult(ReadFlight(Fetch(s, bios), bios), bios)
<1> DEFINE f == Fetch(s, bios)
           r == ReadFlight(f, bios)
<1>1. /\ f \in Ssl /\ f = [s EXCEPT !.fetched = f.fetched] /\ f.fetched <= bios.available
      /\ ~HasRecord(f) => f.fetched = bios.available
  BY FetchResult
<1>2. f.steps = s.steps
  BY <1>1 DEF Ssl
<1> HIDE DEF f
<1>3. CASE ~HasRecord(f)
  <2>1. r = Starved(f, bios)
    BY <1>3 DEF ReadFlight
  <2>2. ReadsNext(f)
    BY <1>2 DEF ReadsNext, Handshaken
  <2> HIDE DEF r
  <2>3. HandshakeResult(r, bios)
    BY <2>1, <2>2, <1>1, <1>3, StarvedResult DEF HandshakeResult
  <2>. QED  BY <2>3 DEF r, f
<1>4. CASE HasRecord(f)
  <2>1. NextRecord(f, bios) \in PeerRecord
    BY <1>1, <1>4, RecordOfScript
  <2>2. NextRecord(f, bios).kind \in {"flight", "data", "close_notify"}
    BY <2>1 DEF PeerRecord
  <2> DEFINE t == [Consume(f) EXCEPT !.steps = @ + 1]
  <2>3. /\ Consume(f) \in Ssl /\ Consume(f).fetched = f.fetched
        /\ t \in Ssl /\ t.fetched = f.fetched
    BY <1>1, ConsumeType
  <2>4. \/ r = Return("ok", t) \/ r = Return("zero_return", Consume(f))
        \/ r = Return("failed", f)
    BY <1>4, <2>2 DEF ReadFlight
  <2> HIDE DEF r, t
  <2>5. HandshakeResult(r, bios)
    BY <2>3, <2>4, <1>1, ReturnType DEF HandshakeResult
  <2>. QED  BY <2>5 DEF r, f
<1>. QED  BY <1>3, <1>4

LEMMA WriteFlightResult ==
    ASSUME NEW s \in Ssl, NEW bios, BiosOk(bios), s.fetched <= bios.available, WritesNext(s)
    PROVE  HandshakeResult(WriteFlight(Produce(s, bios, "flight")), bios)
<1> DEFINE p == Produce(s, bios, "flight")
<1>1. "flight" \in Produced
  BY DEF Produced
<1>2. /\ p \in CallResults /\ p.s.fetched = s.fetched /\ p.s.steps = s.steps
      /\ p.verdict \in {"ok", "want_write", "failed"}
      /\ p.verdict = "want_write" => BlockedOn(p.s, bios, "flight")
  BY <1>1, ProduceResult
<1> HIDE DEF p
<1>3. CASE p.verdict = "ok"
  <2> DEFINE q == [p EXCEPT !.s.steps = @ + 1]
  <2>1. WriteFlight(p) = q
    BY <1>3 DEF WriteFlight
  <2>2. p.s \in Ssl /\ p.s.steps + 1 \in Nat
    BY <1>2 DEF CallResults, Ssl
  <2>3. \A n \in Nat : /\ [p.s EXCEPT !.steps = n] \in Ssl
                       /\ [p.s EXCEPT !.steps = n].fetched = p.s.fetched
    BY <2>2 DEF Ssl
  <2>4. q = [p EXCEPT !.s = [p.s EXCEPT !.steps = p.s.steps + 1]]
    BY <1>2 DEF CallResults
  <2>5. /\ q \in CallResults /\ q.verdict = "ok"
        /\ q.s = [p.s EXCEPT !.steps = p.s.steps + 1]
    BY <1>2, <1>3, <2>2, <2>3, <2>4 DEF CallResults
  <2> HIDE DEF q
  <2>6. HandshakeResult(q, bios)
    BY <1>2, <2>2, <2>3, <2>5 DEF HandshakeResult
  <2>. QED  BY <2>1, <2>6 DEF p
<1>4. CASE p.verdict # "ok"
  <2>1. WriteFlight(p) = p
    BY <1>4 DEF WriteFlight
  <2>2. WritesNext(p.s)
    BY <1>2 DEF WritesNext, Handshaken
  <2>3. HandshakeResult(p, bios)
    BY <1>2, <1>4, <2>2 DEF HandshakeResult
  <2>. QED  BY <2>1, <2>3 DEF p
<1>. QED  BY <1>3, <1>4

LEMMA AdvanceResult ==
    ASSUME NEW r, NEW bios, BiosOk(bios), HandshakeResult(r, bios)
    PROVE  HandshakeResult(Advance(r, bios), bios)
<1>1. CASE r.verdict # "ok" \/ Handshaken(r.s)
  BY <1>1 DEF Advance
<1>2. CASE r.verdict = "ok" /\ ~Handshaken(r.s)
  <2>1. r.s \in Ssl /\ r.s.fetched <= bios.available
    BY DEF HandshakeResult, CallResults
  <2>2. CASE HandshakeSteps[r.s.steps + 1] = "read"
    <3>1. Advance(r, bios) = ReadFlight(Fetch(r.s, bios), bios)
      BY <1>2, <2>2 DEF Advance
    <3>2. ReadsNext(r.s)
      BY <1>2, <2>2 DEF ReadsNext
    <3>. QED  BY <3>1, <3>2, <2>1, ReadFlightResult
  <2>3. CASE HandshakeSteps[r.s.steps + 1] # "read"
    <3>1. Advance(r, bios) = WriteFlight(Produce(r.s, bios, "flight"))
      BY <1>2, <2>3 DEF Advance
    <3>2. WritesNext(r.s)
      BY <1>2, <2>3 DEF WritesNext
    <3>. QED  BY <3>1, <3>2, <2>1, WriteFlightResult
  <2>. QED  BY <2>2, <2>3
<1>. QED  BY <1>1, <1>2

LEMMA DoHandshakeResult ==
    ASSUME NEW s \in Ssl, NEW bios, BiosOk(bios), s.fetched <= bios.available
    PROVE  HandshakeResult(DoHandshake(s, bios), bios)
<1>1. HandshakeResult(Return("ok", s), bios)
  BY ReturnType DEF HandshakeResult
<1>. QED  BY <1>1, AdvanceResult DEF DoHandshake
-----------------------------------------------------------------------------
(* Reading.                                                                *)

\* A read never blocks on room, and returns no more than it was asked for.
ReadResult(r, bios, room) ==
    /\ r \in CallResults /\ r.verdict # "want_write"
    /\ r.s.fetched <= bios.available /\ Len(r.lines) <= room
    /\ r.verdict = "want_read" => r.s.plain = <<>> /\ StarvedOf(r.s, bios)

LEMMA DeliverResult ==
    ASSUME NEW s \in Ssl, NEW bios, s.fetched <= bios.available, NEW room \in Nat
    PROVE  ReadResult(Deliver(s, room), bios, room)
<1> DEFINE n == Min({room, Len(s.plain)})
           lines == SubSeq(s.plain, 1, n)
           rest == SubSeq(s.plain, n + 1, Len(s.plain))
           t == [s EXCEPT !.plain = rest]
           r == [verdict |-> "ok", lines |-> lines, s |-> t]
<1>1. s.plain \in Seq(Line)
  BY DEF Ssl
<1>2. Len(s.plain) \in Nat /\ \A i \in 1..Len(s.plain) : s.plain[i] \in Line
  BY <1>1, LenProperties, ElementOfSeq
<1>3. n \in Nat /\ n <= room /\ n <= Len(s.plain)
  BY <1>2, MinOfTwo
<1> HIDE DEF n
<1>4. lines \in Seq(Line) /\ Len(lines) <= room
  <2>1. \A i \in 1..n : s.plain[i] \in Line
    BY <1>2, <1>3
  <2>2. /\ lines \in Seq(Line)
        /\ Len(lines) = IF 1 <= n THEN n - 1 + 1 ELSE 0
    BY <1>3, <2>1, SubSeqProperties
  <2>. QED  BY <2>2, <1>3
<1>5. rest \in Seq(Line)
  <2>1. \A i \in (n + 1)..Len(s.plain) : s.plain[i] \in Line
    BY <1>2, <1>3
  <2>. QED  BY <1>2, <1>3, <2>1, SubSeqProperties
<1> HIDE DEF lines, rest
<1>6. t \in Ssl /\ t.fetched = s.fetched
  BY <1>5 DEF Ssl
<1>7. Deliver(s, room) = r
  BY DEF Deliver, n, lines, rest
<1> HIDE DEF t
<1>8. r \in CallResults
  BY <1>4, <1>6 DEF CallResults
<1>. QED  BY <1>4, <1>6, <1>7, <1>8 DEF ReadResult

LEMMA SslReadResult ==
    ASSUME NEW s \in Ssl, NEW bios, BiosOk(bios), s.fetched <= bios.available, NEW room \in Nat
    PROVE  ReadResult(SslRead(s, bios, room), bios, room)
<1>1. CASE s.plain # <<>>
  BY <1>1, DeliverResult DEF SslRead
<1>2. CASE s.plain = <<>>
  <2> DEFINE f == Fetch(s, bios)
             r == ReadRecord(f, bios, room)
  <2>1. /\ f \in Ssl /\ f = [s EXCEPT !.fetched = f.fetched] /\ f.fetched <= bios.available
        /\ ~HasRecord(f) => f.fetched = bios.available
    BY FetchResult
  <2>2. f.plain = <<>>
    BY <1>2, <2>1 DEF Ssl
  <2>3. SslRead(s, bios, room) = r
    BY <1>2 DEF SslRead
  <2>4. Len(<<>>) <= room
    OBVIOUS
  <2> HIDE DEF f
  <2>5. CASE ~HasRecord(f)
    <3>1. r = Starved(f, bios)
      BY <2>5 DEF ReadRecord
    <3>2. r.lines = <<>>
      BY <3>1, <2>1, ReturnType DEF Starved
    <3>3. /\ r \in CallResults /\ r.s = f /\ r.verdict \in {"want_read", "failed"}
          /\ r.verdict = "want_read" => StarvedOf(f, bios)
      BY <3>1, <2>1, <2>5, StarvedResult
    <3> HIDE DEF r
    <3>. QED  BY <3>2, <3>3, <2>1, <2>2, <2>3, <2>4 DEF ReadResult
  <2>6. CASE HasRecord(f)
    <3> DEFINE record == NextRecord(f, bios)
               t == [Consume(f) EXCEPT !.plain = record.lines]
    <3>1. record \in PeerRecord
      BY <2>1, <2>6, RecordOfScript
    <3>2. record.kind \in {"flight", "data", "close_notify"} /\ record.lines \in Seq(Line)
      BY <3>1, EmptySeq DEF PeerRecord
    <3> HIDE DEF record
    <3>3. /\ Consume(f) \in Ssl /\ Consume(f).fetched = f.fetched
          /\ t \in Ssl /\ t.fetched = f.fetched
      BY <2>1, <3>2, ConsumeType
    <3>4. \/ r = Deliver(t, room) \/ r = Return("zero_return", Consume(f))
          \/ r = Return("failed", f)
      BY <2>6, <3>2 DEF ReadRecord, record
    <3> HIDE DEF r, t
    <3>5. CASE r = Deliver(t, room)
      BY <3>5, <3>3, <2>1, <2>3, DeliverResult
    <3>6. CASE r = Return("zero_return", Consume(f))
      <4>1. /\ r \in CallResults /\ r.verdict = "zero_return" /\ r.s = Consume(f)
            /\ r.lines = <<>>
        BY <3>6, <3>3, ReturnType
      <4>. QED  BY <4>1, <3>3, <2>1, <2>3, <2>4 DEF ReadResult
    <3>7. CASE r = Return("failed", f)
      <4>1. /\ r \in CallResults /\ r.verdict = "failed" /\ r.s = f /\ r.lines = <<>>
        BY <3>7, <2>1, ReturnType
      <4>. QED  BY <4>1, <2>1, <2>3, <2>4 DEF ReadResult
    <3>. QED  BY <3>4, <3>5, <3>6, <3>7
  <2>. QED  BY <2>5, <2>6
<1>. QED  BY <1>1, <1>2

-----------------------------------------------------------------------------
(* One iteration of drive().                                               *)

\* What a connection is between two functions: its input fits its buffer and a
\* write has a reply.
InBounds(k) ==
    /\ k \in Connection
    /\ Len(k.input) <= InputCapacity
    /\ k.phase = "writing" => k.reply # NULL

\* The fields that no iteration of drive() changes.
SameAccounts(k, l) ==
    /\ l.dead = k.dead /\ l.references = k.references
    /\ l.input_active = k.input_active /\ l.output_active = k.output_active
    /\ l.input_cancelled = k.input_cancelled /\ l.output_cancelled = k.output_cancelled
    /\ l.poll_registered = k.poll_registered /\ l.poll_events = k.poll_events
    /\ l.waiting_write = k.waiting_write /\ l.fed = k.fed /\ l.staged = k.staged
    /\ l.wire_length = k.wire_length /\ l.wire_offset = k.wire_offset

\* What a worker over memory BIOs has fed and staged.
SameWire(k, l) ==
    /\ l.fed = k.fed /\ l.staged = k.staged
    /\ l.wire_length = k.wire_length /\ l.wire_offset = k.wire_offset

\* What a connection lacks that waits for its peer to send, ...
NeedsInput(k, s) ==
    /\ ~HasRecord(s)
    /\ \/ k.phase = "handshake" /\ ReadsNext(s)
       \/ k.phase = "reading" /\ s.plain = <<>> /\ ParseInput(k) = k

\* ... and one that waits for its peer to read.
NeedsOutput(k, s) ==
    /\ Unwritten(s) > 0
    /\ \/ k.phase = "handshake" /\ WritesNext(s) /\ s.writing = "flight"
       \/ k.phase = "writing" /\ s.writing = k.reply
       \/ k.phase = "shutting_down" /\ Handshaken(s) /\ s.writing = "close_notify"

\* A complete request lies within the input.
LEMMA RequestWithinInput ==
    ASSUME NEW s \in Seq(Line)
    PROVE  LET r == ParseRequest(s)
           IN /\ r.verdict \in Verdicts
              /\ r.close_after \in BOOLEAN /\ r.http10 \in BOOLEAN
              /\ r.verdict = "complete" => r.length \in 2..Len(s)
<1>1. Len(s) \in Nat
  BY LenProperties
<1>2. ASSUME NEW n \in 2..Len(s)
      PROVE  LET r == ParseHead(s, n)
             IN /\ r.verdict \in Verdicts
                /\ r.close_after \in BOOLEAN /\ r.http10 \in BOOLEAN
                /\ r.verdict = "complete" => r.length \in 2..Len(s)
  <2> DEFINE fields == ParseFields(SubSeq(s, 2, n - 1))
             http10 == s[1].kind = "http10"
             length == n + fields.body_length
             close_after == fields.close_requested \/ (http10 /\ ~fields.keep)
             bad == \/ n > HeaderLimit
                    \/ s[1].kind \notin {"http11", "http10"}
                    \/ ~fields.ok
                    \/ fields.body_length \notin 0..(InputCapacity - n)
  <2>1. CASE bad
    BY <2>1 DEF ParseHead, Rejected, Result, Verdicts
  <2>2. CASE ~bad
    <3>1. fields.body_length \in Nat
      BY <2>2, FramingAssumption
    <3>2. length \in Nat /\ length >= 2
      BY <3>1
    <3>3. ParseHead(s, n) = IF Len(s) < length THEN Incomplete
                            ELSE Result("complete", length, close_after, http10)
      BY <2>2 DEF ParseHead
    <3>4. close_after \in BOOLEAN /\ http10 \in BOOLEAN
      OBVIOUS
    <3> HIDE DEF length, close_after, http10
    <3>5. CASE Len(s) < length
      BY <3>3, <3>5 DEF Incomplete, Result, Verdicts
    <3>6. CASE ~(Len(s) < length)
      BY <3>2, <3>3, <3>4, <3>6, <1>1 DEF Result, Verdicts
    <3>. QED  BY <3>5, <3>6
  <2>. QED  BY <2>1, <2>2
<1>3. CASE \E n \in 2..Len(s) : HeadEnds(s, n)
  BY <1>2, <1>3 DEF ParseRequest
<1>4. CASE ~\E n \in 2..Len(s) : HeadEnds(s, n)
  BY <1>4 DEF ParseRequest, Rejected, Incomplete, Result, Verdicts
<1>. QED  BY <1>3, <1>4

LEMMA ParsedResult ==
    ASSUME NEW k \in Connection
    PROVE  LET r == Parsed(k)
           IN /\ r.verdict \in Verdicts
              /\ r.close_after \in BOOLEAN /\ r.http10 \in BOOLEAN
              /\ r.verdict = "complete" => r.length \in 2..Len(k.input)
<1>1. k.input \in Seq(Line)
  BY DEF Connection
<1>2. LET r == ParseRequest(k.input)
      IN /\ r.verdict \in Verdicts
         /\ r.close_after \in BOOLEAN /\ r.http10 \in BOOLEAN
         /\ r.verdict = "complete" => r.length \in 2..Len(k.input)
  BY <1>1, RequestWithinInput
<1>. QED  BY <1>2 DEF Parsed, AtEndOfStream, Rejected, Result, Verdicts

LEMMA StartReplyResult ==
    ASSUME NEW k, InBounds(k), Parsed(k).verdict # "incomplete"
    PROVE  LET l == StartReply(k, Parsed(k))
           IN InBounds(l) /\ SameAccounts(k, l) /\ l.phase = "writing"
<1> DEFINE parsed == Parsed(k)
           rejected == parsed.verdict = "reject"
           rest == IF rejected THEN <<>> ELSE SubSeq(k.input, parsed.length + 1, Len(k.input))
           close == rejected \/ parsed.close_after \/ (k.read_eof /\ rest = <<>>)
           reply == IF rejected THEN "bad_request" ELSE Response(parsed.http10, close)
           l == [k EXCEPT !.input = rest, !.close_after = close, !.reply = reply,
                          !.phase = "writing"]
<1>1. k \in Connection /\ k.input \in Seq(Line) /\ Len(k.input) \in Nat
  BY LenProperties DEF InBounds, Connection
<1>2. /\ parsed.verdict \in Verdicts
      /\ parsed.verdict = "complete" => parsed.length \in 2..Len(k.input)
  BY <1>1, ParsedResult
<1>3. rest \in Seq(Line) /\ Len(rest) <= Len(k.input)
  <2>1. CASE rejected
    BY <1>1, <2>1, EmptySeq
  <2>2. CASE ~rejected
    <3>1. parsed.length \in 2..Len(k.input)
      BY <1>2, <2>2 DEF Verdicts
    <3>2. \A i \in (parsed.length + 1)..Len(k.input) : k.input[i] \in Line
      BY <1>1, <3>1, ElementOfSeq
    <3> DEFINE tail == SubSeq(k.input, parsed.length + 1, Len(k.input))
    <3>3. /\ tail \in Seq(Line)
          /\ Len(tail) = IF parsed.length + 1 <= Len(k.input)
                         THEN Len(k.input) - (parsed.length + 1) + 1 ELSE 0
      BY <1>1, <3>1, <3>2, SubSeqProperties
    <3> HIDE DEF tail
    <3>4. Len(tail) <= Len(k.input)
      BY <1>1, <3>1, <3>3
    <3>. QED  BY <2>2, <3>3, <3>4 DEF tail
  <2>. QED  BY <2>1, <2>2
<1>4. close \in BOOLEAN /\ reply \in Replies
  BY DEF Response, Replies
<1>5. StartReply(k, Parsed(k)) = l
  BY DEF StartReply
<1> HIDE DEF rest, close, reply
<1>6. l \in Connection
  BY <1>1, <1>3, <1>4 DEF Connection, Phases
<1>7. /\ l.input = rest /\ l.reply = reply /\ l.phase = "writing"
      /\ SameAccounts(k, l)
  BY <1>1 DEF Connection, SameAccounts
<1> HIDE DEF l
<1>8. InBounds(l)
  BY <1>1, <1>3, <1>4, <1>6, <1>7, EngineAssumption, FramingAssumption DEF InBounds
<1>. QED  BY <1>5, <1>7, <1>8

LEMMA ParseInputResult ==
    ASSUME NEW k, InBounds(k)
    PROVE  LET l == ParseInput(k)
           IN /\ InBounds(l) /\ SameAccounts(k, l)
              /\ l.phase = "reading" => l = k
              /\ l.phase = "handshake" <=> k.phase = "handshake"
              /\ l.phase = "draining" <=> k.phase = "draining"
<1>1. CASE k.phase # "reading" \/ Parsed(k).verdict = "incomplete"
  <2> DEFINE l == [k EXCEPT !.phase = "shutting_down"]
  <2>1. l \in Connection /\ l.phase = "shutting_down" /\ l.input = k.input /\ SameAccounts(k, l)
    BY DEF InBounds, Connection, Phases, SameAccounts
  <2>2. InBounds(l)
    BY <2>1 DEF InBounds
  <2>3. SameAccounts(k, k)
    BY DEF SameAccounts
  <2>4. ParseInput(k) = k \/ (k.phase = "reading" /\ ParseInput(k) = l)
    BY <1>1 DEF ParseInput
  <2> HIDE DEF l
  <2>. QED  BY <2>1, <2>2, <2>3, <2>4
<1>2. CASE k.phase = "reading" /\ Parsed(k).verdict # "incomplete"
  <2> DEFINE l == [k EXCEPT !.phase = "shutting_down"]
             m == StartReply(k, Parsed(k))
  <2>1. l \in Connection /\ l.phase = "shutting_down" /\ l.input = k.input /\ SameAccounts(k, l)
    BY DEF InBounds, Connection, Phases, SameAccounts
  <2>2. InBounds(l)
    BY <2>1 DEF InBounds
  <2>3. InBounds(m) /\ SameAccounts(k, m) /\ m.phase = "writing"
    BY <1>2, StartReplyResult
  <2>4. ParseInput(k) \in {l, m}
    BY <1>2 DEF ParseInput
  <2> HIDE DEF l, m
  <2>. QED  BY <1>2, <2>1, <2>2, <2>3, <2>4
<1>. QED  BY <1>1, <1>2

LEMMA SucceededResult ==
    ASSUME NEW k, InBounds(k), k.phase # "draining", NEW lines \in Seq(Line),
           k.phase = "reading" => Len(lines) <= InputCapacity - Len(k.input)
    PROVE  LET l == Succeeded(k, lines) IN InBounds(l) /\ SameAccounts(k, l)
<1>1. k \in Connection /\ k.input \in Seq(Line) /\ k.phase \in Phases
  BY DEF InBounds, Connection
<1>2. \A phase \in Phases :
         LET l == [k EXCEPT !.phase = phase]
         IN l \in Connection /\ l.phase = phase /\ l.input = k.input /\ SameAccounts(k, l)
  BY <1>1 DEF Connection, SameAccounts
<1>3. \A phase \in Phases \ {"writing"} :
         LET l == [k EXCEPT !.phase = phase] IN InBounds(l) /\ SameAccounts(k, l)
  BY <1>2 DEF InBounds
<1>4. CASE k.phase = "reading"
  <2> DEFINE input == k.input \o lines
             l == [k EXCEPT !.input = input]
  <2>1. input \in Seq(Line) /\ Len(input) = Len(k.input) + Len(lines)
    BY <1>1, ConcatProperties
  <2>2. Len(k.input) \in Nat /\ Len(lines) \in Nat
    BY <1>1, LenProperties
  <2> HIDE DEF input
  <2>3. l \in Connection /\ l.phase = k.phase /\ l.input = input /\ SameAccounts(k, l)
    BY <1>1, <2>1 DEF Connection, SameAccounts
  <2>4. Succeeded(k, lines) = l
    BY <1>4 DEF Succeeded, input
  <2> HIDE DEF l
  <2>5. InBounds(l)
    BY <1>4, <2>1, <2>2, <2>3, FramingAssumption DEF InBounds
  <2>. QED  BY <2>3, <2>4, <2>5
<1>5. CASE k.phase # "reading"
  <2>1. \E phase \in {"reading", "shutting_down", "draining"} :
           Succeeded(k, lines) = [k EXCEPT !.phase = phase]
    BY <1>1, <1>5 DEF Succeeded, Phases
  <2>. QED  BY <2>1, <1>3 DEF Phases
<1>. QED  BY <1>4, <1>5

LEMMA StreamEndedResult ==
    ASSUME NEW k, InBounds(k)
    PROVE  LET l == StreamEnded(k) IN InBounds(l) /\ SameAccounts(k, l)
<1> DEFINE phase == IF k.phase = "reading" THEN "reading" ELSE "shutting_down"
           l == [k EXCEPT !.read_eof = TRUE, !.phase = phase]
<1>1. k \in Connection
  BY DEF InBounds
<1>2. StreamEnded(k) = l
  BY <1>1 DEF StreamEnded, Connection
<1>3. phase \in {"reading", "shutting_down"}
  OBVIOUS
<1> HIDE DEF phase
<1>4. l \in Connection /\ l.phase = phase /\ l.input = k.input /\ SameAccounts(k, l)
  BY <1>1, <1>3 DEF Connection, Phases, SameAccounts
<1> HIDE DEF l
<1>5. InBounds(l)
  BY <1>3, <1>4 DEF InBounds
<1>. QED  BY <1>2, <1>4, <1>5

\* What an iteration of drive() may do with a connection; why a call that wants
\* more cannot go on; and that the next call of the same connection needs that.
TurnResult(d, bios, i) ==
    /\ i.d = [d EXCEPT !.s = i.d.s, !.k = i.d.k]
    /\ i.d.s \in Ssl /\ i.d.s.fetched <= bios.available
    /\ InBounds(i.d.k) /\ SameAccounts(d.k, i.d.k)
    /\ i.verdict \in {"ok", "zero_return", "want_read", "want_write", "failed"}
    /\ i.verdict = "want_read" =>
          NeedsInput(i.d.k, i.d.s) /\ i.d.s.fetched = bios.available /\ bios.behind = "more"
    /\ i.verdict = "want_write" =>
          NeedsOutput(i.d.k, i.d.s) /\ i.d.s.written = bios.limit /\ bios.behind # "reset"

\* The call of one phase, for a connection whose input was parsed.
CallResult(k, bios, r) ==
    /\ r \in CallResults /\ r.s.fetched <= bios.available
    /\ k.phase = "reading" => Len(r.lines) <= InputCapacity - Len(k.input)
    /\ r.verdict = "want_read" =>
          NeedsInput(k, r.s) /\ r.s.fetched = bios.available /\ bios.behind = "more"
    /\ r.verdict = "want_write" =>
          NeedsOutput(k, r.s) /\ r.s.written = bios.limit /\ bios.behind # "reset"

LEMMA PerformResult ==
    ASSUME NEW k, InBounds(k), k.phase # "draining", k.phase = "reading" => ParseInput(k) = k,
           NEW s \in Ssl, NEW bios, BiosOk(bios), s.fetched <= bios.available
    PROVE  CallResult(k, bios, Perform(k, s, bios))
<1>1. k \in Connection /\ k.phase \in Phases /\ k.input \in Seq(Line) /\ Len(k.input) \in Nat
  BY LenProperties DEF InBounds, Connection
<1>2. CASE k.phase = "handshake"
  <2> DEFINE r == DoHandshake(s, bios)
  <2>1. HandshakeResult(r, bios)
    BY DoHandshakeResult
  <2>2. Perform(k, s, bios) = r
    BY <1>2 DEF Perform
  <2> HIDE DEF r
  <2>. QED  BY <1>2, <2>1, <2>2
            DEF HandshakeResult, CallResult, StarvedOf, BlockedOn, NeedsInput, NeedsOutput
<1>3. CASE k.phase = "reading"
  <2> DEFINE room == InputCapacity - Len(k.input)
             r == SslRead(s, bios, room)
  <2>1. room \in Nat
    BY <1>1, FramingAssumption DEF InBounds
  <2>2. Perform(k, s, bios) = r
    BY <1>3 DEF Perform
  <2> HIDE DEF room
  <2>3. ReadResult(r, bios, room)
    BY <2>1, SslReadResult
  <2> HIDE DEF r
  <2>4. /\ r \in CallResults /\ r.s.fetched <= bios.available /\ r.verdict # "want_write"
        /\ Len(r.lines) <= InputCapacity - Len(k.input)
    BY <2>3 DEF ReadResult, room
  <2>5. r.verdict = "want_read" =>
           NeedsInput(k, r.s) /\ r.s.fetched = bios.available /\ bios.behind = "more"
    BY <1>3, <2>3 DEF ReadResult, StarvedOf, NeedsInput
  <2>. QED  BY <2>2, <2>4, <2>5 DEF CallResult
<1>4. CASE k.phase = "writing"
  <2> DEFINE r == Produce(s, bios, k.reply)
  <2>1. k.reply \in Produced
    BY <1>1, <1>4 DEF InBounds, Connection, Produced
  <2>2. /\ r \in CallResults /\ r.s.fetched = s.fetched
        /\ r.verdict \in {"ok", "want_write", "failed"}
        /\ r.verdict = "want_write" => BlockedOn(r.s, bios, k.reply)
    BY <2>1, ProduceResult
  <2>3. Perform(k, s, bios) = r
    BY <1>4 DEF Perform, SslWrite
  <2> HIDE DEF r
  <2>. QED  BY <1>4, <2>2, <2>3 DEF CallResult, BlockedOn, NeedsOutput
<1>5. CASE k.phase = "shutting_down"
  <2> DEFINE r == Produce(s, bios, "close_notify")
  <2>1. Perform(k, s, bios) = IF Handshaken(s) THEN r ELSE Return("failed", s)
    BY <1>5 DEF Perform, SslShutdown
  <2>2. CASE Handshaken(s)
    <3>1. /\ r \in CallResults /\ r.s.fetched = s.fetched /\ r.s.steps = s.steps
          /\ r.verdict \in {"ok", "want_write", "failed"}
          /\ r.verdict = "want_write" => BlockedOn(r.s, bios, "close_notify")
      BY ProduceResult DEF Produced
    <3> HIDE DEF r
    <3>2. Handshaken(r.s)
      BY <2>2, <3>1 DEF Handshaken
    <3>. QED  BY <1>5, <2>1, <2>2, <3>1, <3>2 DEF CallResult, BlockedOn, NeedsOutput
  <2>3. CASE ~Handshaken(s)
    <3> DEFINE q == Return("failed", s)
    <3>1. q \in CallResults /\ q.s = s /\ q.verdict = "failed"
      BY ReturnType
    <3> HIDE DEF q
    <3>2. CallResult(k, bios, q)
      BY <1>5, <3>1 DEF CallResult
    <3>. QED  BY <2>1, <2>3, <3>2 DEF q
  <2>. QED  BY <2>2, <2>3
<1>. QED  BY <1>1, <1>2, <1>3, <1>4, <1>5 DEF Phases

LEMMA IterationResult ==
    ASSUME NEW d, InBounds(d.k), d.k.phase # "draining", d = [fd |-> d.fd, k |-> d.k, s |-> d.s,
                                                      sq |-> d.sq, kernel |-> d.kernel],
           d.s \in Ssl, NEW bios, BiosOk(bios), d.s.fetched <= bios.available
    PROVE  /\ TurnResult(d, bios, Iteration(d, bios))
           /\ Iteration(d, bios).performed = ParseInput(d.k).phase
<1> DEFINE k == ParseInput(d.k)
           r == Perform(k, d.s, bios)
           l == CASE r.verdict = "ok" -> Succeeded(k, r.lines)
                  [] r.verdict = "zero_return" -> StreamEnded(k)
                  [] OTHER -> k
           e == [d EXCEPT !.s = r.s, !.k = l]
           i == [verdict |-> r.verdict, performed |-> k.phase, d |-> e]
<1>1. Iteration(d, bios) = i
  BY DEF Iteration, CallOpenSsl, Applied
<1>2. /\ InBounds(k) /\ SameAccounts(d.k, k) /\ k.phase # "draining"
      /\ k.phase = "reading" => ParseInput(k) = k
  BY ParseInputResult
<1> HIDE DEF k
<1>3. CallResult(k, bios, r)
  BY <1>2, PerformResult
<1> HIDE DEF r
<1>4. /\ r.s \in Ssl /\ r.s.fetched <= bios.available /\ r.lines \in Seq(Line)
      /\ r.verdict \in {"ok", "zero_return", "want_read", "want_write", "failed"}
  BY <1>3 DEF CallResult, CallResults
<1>5. /\ InBounds(l) /\ SameAccounts(k, l)
      /\ r.verdict \in {"want_read", "want_write", "failed"} => l = k
  <2>1. CASE r.verdict = "ok"
    <3>1. l = Succeeded(k, r.lines)
      BY <2>1
    <3>. QED  BY <2>1, <3>1, <1>2, <1>3, <1>4, SucceededResult DEF CallResult
  <2>2. CASE r.verdict = "zero_return"
    <3>1. l = StreamEnded(k)
      BY <2>2
    <3>. QED  BY <2>2, <3>1, <1>2, StreamEndedResult
  <2>3. CASE r.verdict \notin {"ok", "zero_return"}
    <3>1. l = k
      BY <2>3
    <3>. QED  BY <2>3, <3>1, <1>2 DEF SameAccounts
  <2>. QED  BY <2>1, <2>2, <2>3
<1> HIDE DEF l
<1>6. /\ e.s = r.s /\ e.k = l /\ e = [d EXCEPT !.s = e.s, !.k = e.k]
  OBVIOUS
<1>7. SameAccounts(d.k, l)
  BY <1>2, <1>5 DEF SameAccounts
<1> HIDE DEF e
<1>8. i.d = e /\ i.verdict = r.verdict /\ i.performed = k.phase
  OBVIOUS
<1> HIDE DEF i
<1>9. TurnResult(d, bios, i)
  BY <1>3, <1>4, <1>5, <1>6, <1>7, <1>8 DEF TurnResult, CallResult
<1>. QED  BY <1>1, <1>8, <1>9 DEF k

\* A connection that needs input which is not there goes on wanting it, ...
LEMMA StarvedTurn ==
    ASSUME NEW d, d.s \in Ssl, NEW bios, BiosOk(bios), NeedsInput(d.k, d.s),
           d.s.fetched = bios.available, bios.behind = "more"
    PROVE  Iteration(d, bios).verdict = "want_read"
<1> DEFINE s == d.s
           wants == Return("want_read", s)
<1>1. ~HasRecord(s) /\ Fetch(s, bios) = s
  <2> DEFINE whole == RecordPieces * (s.consumed + 1)
  <2>1. s.fetched \in Nat /\ whole \in Nat /\ s.fetched < whole /\ bios.available \in Nat
    BY DEF Ssl, NeedsInput, HasRecord, RecordPieces, BiosOk
  <2>2. Min({bios.available, whole}) = s.fetched
    BY <2>1, MinOfTwo
  <2>3. [s EXCEPT !.fetched = s.fetched] = s
    BY DEF Ssl
  <2>. QED  BY <2>2, <2>3 DEF Fetch, NeedsInput
<1>2. Starved(s, bios) = wants
  BY DEF Starved
<1>3. wants.verdict = "want_read"
  BY ReturnType
<1>4. CASE d.k.phase = "handshake" /\ ReadsNext(s)
  <2>1. Advance(Return("ok", s), bios) = wants
    <3>1. Return("ok", s).verdict = "ok" /\ Return("ok", s).s = s
      BY ReturnType
    <3>2. Advance(Return("ok", s), bios) = ReadFlight(s, bios)
      BY <3>1, <1>1, <1>4 DEF Advance, ReadsNext
    <3>. QED  BY <3>2, <1>1, <1>2 DEF ReadFlight
  <2>2. Advance(wants, bios) = wants
    BY <1>3 DEF Advance
  <2>3. DoHandshake(s, bios) = wants
    BY <2>1, <2>2 DEF DoHandshake
  <2>4. ParseInput(d.k) = d.k
    BY <1>4 DEF ParseInput
  <2>5. Perform(d.k, s, bios) = wants
    BY <1>4, <2>3 DEF Perform
  <2>. QED  BY <1>3, <2>4, <2>5 DEF Iteration, CallOpenSsl, Applied
<1>5. CASE d.k.phase = "reading" /\ s.plain = <<>> /\ ParseInput(d.k) = d.k
  <2>1. SslRead(s, bios, InputCapacity - Len(d.k.input)) = wants
    BY <1>1, <1>2, <1>5 DEF SslRead, ReadRecord
  <2>2. Perform(d.k, s, bios) = wants
    BY <1>5, <2>1 DEF Perform
  <2>. QED  BY <1>3, <1>5, <2>2 DEF Iteration, CallOpenSsl, Applied
<1>. QED  BY <1>4, <1>5 DEF NeedsInput

\* ... and so does one that needs room.
LEMMA BlockedTurn ==
    ASSUME NEW d, InBounds(d.k), d.s \in Ssl, NEW bios, BiosOk(bios), NeedsOutput(d.k, d.s),
           d.s.written >= bios.limit, bios.behind # "reset"
    PROVE  Iteration(d, bios).verdict = "want_write"
<1> DEFINE s == d.s
           n == s.written + Min({Unwritten(s), bios.limit - s.written})
           t == [s EXCEPT !.written = n]
           wants == Return("want_write", t)
           total == RecordUnits * Len(s.out)
<1>1. Flush(s, bios) = wants /\ t \in Ssl
  <2>1. s.out \in Seq(Produced) /\ Len(s.out) \in Nat /\ total \in Nat
    BY LenProperties, UnitsProduced DEF Ssl
  <2>2. s.written \in Nat /\ bios.limit \in Nat /\ Unwritten(s) = total - s.written
    BY DEF Ssl, BiosOk, Unwritten
  <2> HIDE DEF total
  <2>3. total - s.written \in Int /\ total - s.written > 0 /\ bios.limit - s.written \in Int
        /\ bios.limit - s.written <= 0
    BY <2>1, <2>2 DEF NeedsOutput
  <2>4. Min({total - s.written, bios.limit - s.written}) = bios.limit - s.written
    BY <2>3, MinOfTwo
  <2>5. n = bios.limit
    BY <2>2, <2>4
  <2> HIDE DEF n
  <2>6. t \in Ssl /\ t.written = bios.limit /\ t.out = s.out
    BY <2>2, <2>5 DEF Ssl
  <2>7. Unwritten(t) = total - bios.limit
    BY <2>6 DEF Unwritten, total
  <2>8. Unwritten(t) # 0
    BY <2>1, <2>2, <2>3, <2>7
  <2> HIDE DEF t
  <2>. QED  BY <2>6, <2>8 DEF Flush, t, n
<1> HIDE DEF n, t
<1>2. wants.verdict = "want_write"
  BY <1>1, ReturnType
<1>3. ASSUME NEW what, what # NULL, s.writing = what
      PROVE  Produce(s, bios, what) = wants
  BY <1>1, <1>3 DEF Produce
<1>4. "flight" # NULL /\ "close_notify" # NULL
  BY EngineAssumption
<1> HIDE DEF wants
<1>5. CASE d.k.phase = "handshake" /\ WritesNext(s) /\ s.writing = "flight"
  <2>1. Advance(Return("ok", s), bios) = wants
    <3>1. Return("ok", s).verdict = "ok" /\ Return("ok", s).s = s
      BY ReturnType
    <3>2. Advance(Return("ok", s), bios) = WriteFlight(Produce(s, bios, "flight"))
      BY <3>1, <1>5 DEF Advance, WritesNext
    <3>. QED  BY <3>2, <1>2, <1>3, <1>4, <1>5 DEF WriteFlight
  <2>2. Advance(wants, bios) = wants
    BY <1>2 DEF Advance
  <2>3. DoHandshake(s, bios) = wants
    BY <2>1, <2>2 DEF DoHandshake
  <2>4. ParseInput(d.k) = d.k
    BY <1>5 DEF ParseInput
  <2>5. Perform(d.k, s, bios) = wants
    BY <1>5, <2>3 DEF Perform
  <2>. QED  BY <1>2, <2>4, <2>5 DEF Iteration, CallOpenSsl, Applied
<1>6. CASE d.k.phase = "writing" /\ s.writing = d.k.reply
  <2>1. SslWrite(s, bios, d.k.reply) = wants
    BY <1>3, <1>6 DEF SslWrite, InBounds
  <2>2. ParseInput(d.k) = d.k
    BY <1>6 DEF ParseInput
  <2>3. Perform(d.k, s, bios) = wants
    BY <1>6, <2>1 DEF Perform
  <2>. QED  BY <1>2, <2>2, <2>3 DEF Iteration, CallOpenSsl, Applied
<1>7. CASE d.k.phase = "shutting_down" /\ Handshaken(s) /\ s.writing = "close_notify"
  <2>1. SslShutdown(s, bios) = wants
    BY <1>3, <1>4, <1>7 DEF SslShutdown
  <2>2. ParseInput(d.k) = d.k
    BY <1>7 DEF ParseInput
  <2>3. Perform(d.k, s, bios) = wants
    BY <1>7, <2>1 DEF Perform
  <2>. QED  BY <1>2, <2>2, <2>3 DEF Iteration, CallOpenSsl, Applied
<1>. QED  BY <1>5, <1>6, <1>7 DEF NeedsOutput

\* With nothing buffered anywhere a connection that reads needs input.
LEMMA IdleNeedsInput ==
    ASSUME NEW k, InBounds(k), k.phase = "reading", k.input = <<>>, ~k.read_eof,
           NEW s \in Ssl, ~HasPending(s)
    PROVE  NeedsInput(k, s)
<1>1. s.plain = <<>> /\ s.fetched <= RecordPieces * s.consumed
  BY DEF HasPending, Ssl, RecordPieces
<1>2. ~HasRecord(s)
  BY <1>1 DEF HasRecord, Ssl, RecordPieces
<1>3. k.input \in Seq(Line) /\ Len(k.input) = 0
  BY EmptySeq DEF InBounds, Connection
<1>4. ParseRequest(k.input) = Incomplete
  BY <1>3, FramingAssumption DEF ParseRequest
<1>5. Parsed(k).verdict = "incomplete"
  BY <1>4 DEF Parsed, AtEndOfStream, Incomplete, Result
<1>6. ParseInput(k) = k
  BY <1>5 DEF ParseInput
<1>. QED  BY <1>1, <1>2, <1>6 DEF NeedsInput

-----------------------------------------------------------------------------
(* Operations.                                                             *)

\* The operations that belong to no connection.
WorkerOps == {AcceptOp, CancelAccept, EpollOp, CancelEpoll}

LEMMA OperationNames ==
    /\ WorkerOps \subseteq Operations
    /\ AcceptOp # CancelAccept /\ AcceptOp # EpollOp /\ AcceptOp # CancelEpoll
    /\ CancelAccept # EpollOp /\ CancelAccept # CancelEpoll /\ EpollOp # CancelEpoll
    /\ \A c \in Fds :
          /\ ConnectionOps(c) \subseteq Operations /\ ConnectionOps(c) \cap WorkerOps = {}
          /\ Input(c) # Output(c) /\ Input(c) # CancelInput(c) /\ Input(c) # CancelOutput(c)
          /\ Output(c) # CancelInput(c) /\ Output(c) # CancelOutput(c)
          /\ CancelInput(c) # CancelOutput(c)
    /\ \A b, c \in Fds : b # c => ConnectionOps(b) \cap ConnectionOps(c) = {}
    /\ \A op \in Operations : op \in WorkerOps \/ \E c \in Fds : op \in ConnectionOps(c)
<1>1. \A op : op \in Operations <=> op \in WorkerOps \/ \E c \in Fds : op \in ConnectionOps(c)
  BY DEF Operations, WorkerOps
<1>2. /\ AcceptOp # CancelAccept /\ AcceptOp # EpollOp /\ AcceptOp # CancelEpoll
      /\ CancelAccept # EpollOp /\ CancelAccept # CancelEpoll /\ EpollOp # CancelEpoll
  BY DEF AcceptOp, CancelAccept, EpollOp, CancelEpoll
<1>3. ASSUME NEW c \in Fds
      PROVE  /\ Input(c) # Output(c) /\ Input(c) # CancelInput(c) /\ Input(c) # CancelOutput(c)
             /\ Output(c) # CancelInput(c) /\ Output(c) # CancelOutput(c)
             /\ CancelInput(c) # CancelOutput(c)
  BY DEF Input, Output, CancelInput, CancelOutput
<1>4. ASSUME NEW c \in Fds
      PROVE  ConnectionOps(c) \cap WorkerOps = {}
  BY DEF WorkerOps, ConnectionOps, Input, Output, CancelInput, CancelOutput,
         AcceptOp, CancelAccept, EpollOp, CancelEpoll
<1>5. ASSUME NEW b \in Fds, NEW c \in Fds, b # c
      PROVE  ConnectionOps(b) \cap ConnectionOps(c) = {}
  BY <1>5 DEF ConnectionOps, Input, Output, CancelInput, CancelOutput
<1>. QED  BY <1>1, <1>2, <1>3, <1>4, <1>5

\* The kind of an operation and its connection tell which one it is.
LEMMA OperationKinds ==
    /\ AcceptOp[1] = "accept" /\ CancelAccept[1] = "cancel_accept"
    /\ EpollOp[1] = "epoll" /\ CancelEpoll[1] = "cancel_epoll"
    /\ \A c \in Fds :
          /\ Input(c)[1] = "input" /\ Output(c)[1] = "output"
          /\ CancelInput(c)[1] = "cancel_input" /\ CancelOutput(c)[1] = "cancel_output"
          /\ \A op \in ConnectionOps(c) : op[2] = c
    /\ \A op \in Operations :
          /\ op[1] = "accept" => op = AcceptOp
          /\ op[1] = "epoll" => op = EpollOp
          /\ op[1] = "cancel_accept" => op = CancelAccept
          /\ op[1] = "cancel_epoll" => op = CancelEpoll
          /\ op[1] \in {"input", "output", "cancel_input", "cancel_output"} =>
                op[2] \in Fds /\ op \in ConnectionOps(op[2])
          /\ op[1] = "cancel_input" => op = CancelInput(op[2])
          /\ op[1] = "cancel_output" => op = CancelOutput(op[2])
<1>1. /\ AcceptOp[1] = "accept" /\ CancelAccept[1] = "cancel_accept"
      /\ EpollOp[1] = "epoll" /\ CancelEpoll[1] = "cancel_epoll"
  BY DEF AcceptOp, CancelAccept, EpollOp, CancelEpoll
<1>2. ASSUME NEW c \in Fds
      PROVE  /\ Input(c)[1] = "input" /\ Output(c)[1] = "output"
             /\ CancelInput(c)[1] = "cancel_input" /\ CancelOutput(c)[1] = "cancel_output"
             /\ Input(c)[2] = c /\ Output(c)[2] = c
             /\ CancelInput(c)[2] = c /\ CancelOutput(c)[2] = c
  BY DEF Input, Output, CancelInput, CancelOutput
<1>3. \A c \in Fds : \A op \in ConnectionOps(c) : op[2] = c
  BY <1>2 DEF ConnectionOps
<1>4. ASSUME NEW op \in Operations
      PROVE  /\ op[1] = "accept" => op = AcceptOp
             /\ op[1] = "epoll" => op = EpollOp
             /\ op[1] = "cancel_accept" => op = CancelAccept
             /\ op[1] = "cancel_epoll" => op = CancelEpoll
             /\ op[1] \in {"input", "output", "cancel_input", "cancel_output"} =>
                   op[2] \in Fds /\ op \in ConnectionOps(op[2])
             /\ op[1] = "cancel_input" => op = CancelInput(op[2])
             /\ op[1] = "cancel_output" => op = CancelOutput(op[2])
  <2>1. CASE op \in WorkerOps
    BY <2>1, <1>1 DEF WorkerOps
  <2>2. CASE op \notin WorkerOps
    <3>1. PICK c \in Fds : op \in ConnectionOps(c)
      BY <2>2, OperationNames
    <3>2. op \in {Input(c), Output(c), CancelInput(c), CancelOutput(c)} /\ op[2] = c
      BY <3>1, <1>3 DEF ConnectionOps
    <3>. QED  BY <3>1, <3>2, <1>2
  <2>. QED  BY <2>1, <2>2
<1>. QED  BY <1>1, <1>2, <1>3, <1>4

LEMMA CountOfFour ==
    ASSUME NEW c \in Fds, NEW live
    PROVE  Cardinality({op \in ConnectionOps(c) : op \in live})
               = Count(Input(c) \in live) + Count(Output(c) \in live)
                 + Count(CancelInput(c) \in live) + Count(CancelOutput(c) \in live)
<1> DEFINE one == {op \in {Input(c)} : op \in live}
           two == one \cup {op \in {Output(c)} : op \in live}
           three == two \cup {op \in {CancelInput(c)} : op \in live}
           four == three \cup {op \in {CancelOutput(c)} : op \in live}
<1>1. /\ Input(c) # Output(c) /\ Input(c) # CancelInput(c) /\ Input(c) # CancelOutput(c)
      /\ Output(c) # CancelInput(c) /\ Output(c) # CancelOutput(c)
      /\ CancelInput(c) # CancelOutput(c)
  BY OperationNames
<1>2. ASSUME NEW S, IsFiniteSet(S), NEW x, x \notin S
      PROVE  LET T == S \cup {op \in {x} : op \in live}
             IN IsFiniteSet(T) /\ Cardinality(T) = Cardinality(S) + Count(x \in live)
  <2>1. Cardinality(S) \in Nat
    BY <1>2, FS_CardinalityType
  <2>2. CASE x \in live
    <3>1. {op \in {x} : op \in live} = {x}
      BY <2>2
    <3>. QED  BY <1>2, <2>1, <2>2, <3>1, FS_AddElement DEF Count
  <2>3. CASE x \notin live
    <3>1. S \cup {op \in {x} : op \in live} = S
      BY <2>3
    <3>. QED  BY <1>2, <2>1, <2>3, <3>1 DEF Count
  <2>. QED  BY <2>2, <2>3
<1>3. one = {} \cup {op \in {Input(c)} : op \in live}
  OBVIOUS
<1>4. IsFiniteSet(one) /\ Cardinality(one) = 0 + Count(Input(c) \in live)
  BY <1>2, <1>3, FS_EmptySet
<1>5. IsFiniteSet(two) /\ Cardinality(two) = Cardinality(one) + Count(Output(c) \in live)
  BY <1>1, <1>2, <1>4
<1>6. IsFiniteSet(three)
      /\ Cardinality(three) = Cardinality(two) + Count(CancelInput(c) \in live)
  BY <1>1, <1>2, <1>5
<1>7. Cardinality(four) = Cardinality(three) + Count(CancelOutput(c) \in live)
  BY <1>1, <1>2, <1>6
<1> DEFINE all == {op \in ConnectionOps(c) : op \in live}
<1>8. all = four
  BY DEF ConnectionOps
<1>9. \A b : Count(b) \in Nat
  BY DEF Count
<1> HIDE DEF one, two, three, four, all
<1>10. Cardinality(all) = Count(Input(c) \in live) + Count(Output(c) \in live)
                         + Count(CancelInput(c) \in live) + Count(CancelOutput(c) \in live)
  BY <1>4, <1>5, <1>6, <1>7, <1>8, <1>9
<1>. QED  BY <1>10 DEF all

-----------------------------------------------------------------------------
(* The functions under complete(), on one connection.                      *)

Contexts == [fd : Fds, k : Connection, s : Ssl, sq : SUBSET Operations, kernel : SUBSET Operations]

\* The operations outstanding when those of `ended' have their last CQE queued.
Live(d, ended) == d.sq \cup d.kernel \cup ended

Queues(d, ended) ==
    /\ d \in Contexts
    /\ d.sq \cap d.kernel = {}
    /\ ended \cap (d.sq \cup d.kernel) = {}

\* Connection c agrees with those of the operations in `live' that are its own;
\* held counts the reference that a completion in progress still has to release.
Accounts(c, k, live, held) ==
    /\ InBounds(k)
    /\ k.references = Count(~k.dead) + held
                      + Count(Input(c) \in live) + Count(Output(c) \in live)
                      + Count(CancelInput(c) \in live) + Count(CancelOutput(c) \in live)
    /\ k.input_active <=> Input(c) \in live
    /\ k.output_active <=> Output(c) \in live
    /\ CancelInput(c) \in live => k.input_cancelled
    /\ CancelOutput(c) \in live => k.output_cancelled
    /\ k.input_cancelled \/ k.output_cancelled => k.dead

Good(d, ended, held) == Queues(d, ended) /\ Accounts(d.fd, d.k, Live(d, ended), held)

\* From d to e some of `ops' were prepared, and perhaps submitted.
Grows(d, e, ended, ops) ==
    /\ Queues(e, ended)
    /\ e.fd = d.fd /\ e.s = d.s
    /\ d.kernel \subseteq e.kernel
    /\ d.sq \cup d.kernel \subseteq e.sq \cup e.kernel
    /\ e.sq \cup e.kernel \subseteq d.sq \cup d.kernel \cup ops

LEMMA GrowsTransitive ==
    ASSUME NEW d, NEW e, NEW f, NEW ended, NEW ops,
           Grows(d, e, ended, ops), Grows(e, f, ended, ops)
    PROVE  Grows(d, f, ended, ops)
  BY DEF Grows

\* A context with another connection, and what a connection may become.
With(d, k)         == [d EXCEPT !.k = k]
Polled(k, events)  == [k EXCEPT !.references = k.references + 1, !.input_active = TRUE,
                                !.poll_events = events]
InputCancelled(k)  == [k EXCEPT !.references = k.references + 1, !.input_cancelled = TRUE]
OutputCancelled(k) == [k EXCEPT !.references = k.references + 1, !.output_cancelled = TRUE]
Released(k)        == [k EXCEPT !.references = k.references - 1]
Killed(k)          == [k EXCEPT !.dead = TRUE, !.poll_registered = FALSE]

LEMMA WithConnection ==
    ASSUME NEW d \in Contexts, NEW k \in Connection
    PROVE  LET e == With(d, k)
           IN /\ e \in Contexts /\ e.k = k /\ e.fd = d.fd /\ e.s = d.s
              /\ e.sq = d.sq /\ e.kernel = d.kernel
  BY DEF Contexts, With

LEMMA AccountsLocal ==
    ASSUME NEW c, NEW k, NEW live, NEW other, NEW held, Accounts(c, k, live, held),
           \A op \in ConnectionOps(c) : op \in other <=> op \in live
    PROVE  Accounts(c, k, other, held)
<1>1. /\ Input(c) \in other <=> Input(c) \in live
      /\ Output(c) \in other <=> Output(c) \in live
      /\ CancelInput(c) \in other <=> CancelInput(c) \in live
      /\ CancelOutput(c) \in other <=> CancelOutput(c) \in live
  BY DEF ConnectionOps
<1>. QED  BY <1>1 DEF Accounts, Count

LEMMA AccountsSame ==
    ASSUME NEW c, NEW k, NEW l, NEW live, NEW held, Accounts(c, k, live, held),
           InBounds(l), SameAccounts(k, l)
    PROVE  Accounts(c, l, live, held)
  BY DEF Accounts, SameAccounts

\* An operation that is prepared sets its flag and takes a reference.
Arms(c, k, op, l) ==
    /\ InBounds(l) /\ l.references = k.references + 1 /\ l.dead = k.dead
    /\ l.input_active <=> k.input_active \/ op = Input(c)
    /\ l.output_active <=> k.output_active \/ op = Output(c)
    /\ l.input_cancelled <=> k.input_cancelled \/ op = CancelInput(c)
    /\ l.output_cancelled <=> k.output_cancelled \/ op = CancelOutput(c)
    /\ op \in {CancelInput(c), CancelOutput(c)} => k.dead

LEMMA AccountsArmed ==
    ASSUME NEW c \in Fds, NEW k, NEW l, NEW live, NEW held \in Nat, Accounts(c, k, live, held),
           NEW op \in ConnectionOps(c), op \notin live,
           Arms(c, k, op, l)
    PROVE  Accounts(c, l, live \cup {op}, held)
<1> DEFINE all == live \cup {op}
<1>1. /\ Input(c) # Output(c) /\ Input(c) # CancelInput(c) /\ Input(c) # CancelOutput(c)
      /\ Output(c) # CancelInput(c) /\ Output(c) # CancelOutput(c)
      /\ CancelInput(c) # CancelOutput(c)
  BY OperationNames
<1>2. \A p : p \in all <=> p \in live \/ p = op
  OBVIOUS
<1> HIDE DEF all
<1>3. op \in {Input(c), Output(c), CancelInput(c), CancelOutput(c)}
  BY DEF ConnectionOps
<1>4. l.references = Count(~l.dead) + held
                     + Count(Input(c) \in all) + Count(Output(c) \in all)
                     + Count(CancelInput(c) \in all) + Count(CancelOutput(c) \in all)
  BY <1>1, <1>2, <1>3 DEF Accounts, Count, Arms
<1>5. Accounts(c, l, all, held)
  BY <1>1, <1>2, <1>4 DEF Accounts, Arms
<1>. QED  BY <1>5 DEF all

LEMMA GetSqeAdds ==
    ASSUME NEW d, NEW ended, NEW op \in Operations, Queues(d, ended), op \notin Live(d, ended)
    PROVE  LET e == GetSqe(d, op)
           IN /\ Queues(e, ended) /\ e.fd = d.fd /\ e.k = d.k /\ e.s = d.s
              /\ d.kernel \subseteq e.kernel
              /\ e.sq \cup e.kernel = (d.sq \cup d.kernel) \cup {op}
<1>1. CASE Cardinality(d.sq) < QueueDepth
  BY <1>1 DEF GetSqe, Queues, Live, Contexts
<1>2. CASE ~(Cardinality(d.sq) < QueueDepth)
  BY <1>2 DEF GetSqe, Queues, Live, Contexts
<1>. QED  BY <1>1, <1>2

LEMMA ArmedContext ==
    ASSUME NEW d, NEW ended, NEW held \in Nat, Good(d, ended, held),
           NEW op \in ConnectionOps(d.fd), op \notin Live(d, ended), NEW l,
           Arms(d.fd, d.k, op, l)
    PROVE  LET e == With(GetSqe(d, op), l)
           IN Good(e, ended, held) /\ Grows(d, e, ended, ConnectionOps(d.fd)) /\ e.k = l
<1> DEFINE g == GetSqe(d, op)
           e == With(g, l)
<1>1. d \in Contexts /\ d.fd \in Fds /\ op \in Operations
  BY OperationNames DEF Good, Queues, Contexts
<1>2. /\ Queues(g, ended) /\ g.fd = d.fd /\ g.k = d.k /\ g.s = d.s
      /\ d.kernel \subseteq g.kernel
      /\ g.sq \cup g.kernel = (d.sq \cup d.kernel) \cup {op}
  BY <1>1, GetSqeAdds DEF Good
<1> HIDE DEF g
<1>3. /\ e \in Contexts /\ e.k = l /\ e.fd = g.fd /\ e.s = g.s
      /\ e.sq = g.sq /\ e.kernel = g.kernel
  BY <1>2, WithConnection DEF Queues, InBounds, Arms
<1> HIDE DEF e
<1>4. Queues(e, ended) /\ Live(e, ended) = Live(d, ended) \cup {op}
  BY <1>2, <1>3 DEF Queues, Live
<1>5. Accounts(d.fd, l, Live(d, ended) \cup {op}, held)
  BY <1>1, AccountsArmed DEF Good
<1>6. Good(e, ended, held)
  BY <1>2, <1>3, <1>4, <1>5 DEF Good
<1>7. Grows(d, e, ended, ConnectionOps(d.fd))
  BY <1>2, <1>3, <1>4 DEF Grows
<1>. QED  BY <1>3, <1>6, <1>7 DEF e, g

LEMMA PolledConnection ==
    ASSUME NEW k, InBounds(k), NEW events \in {"in", "out"}
    PROVE  LET l == Polled(k, events)
           IN /\ InBounds(l) /\ l.references = k.references + 1 /\ l.dead = k.dead
              /\ l.input_active /\ l.output_active = k.output_active
              /\ l.input_cancelled = k.input_cancelled
              /\ l.output_cancelled = k.output_cancelled
              /\ l.phase = k.phase /\ l.input = k.input /\ l.reply = k.reply
              /\ l.read_eof = k.read_eof /\ l.poll_events = events /\ SameWire(k, l)
<1> DEFINE l == Polled(k, events)
<1>1. k \in Connection /\ k.references + 1 \in Nat
  BY DEF InBounds, Connection
<1>2. ASSUME NEW n \in Nat
      PROVE  LET m == [k EXCEPT !.references = n, !.input_active = TRUE,
                                !.poll_events = events]
             IN /\ m \in Connection /\ m.references = n /\ m.dead = k.dead
                /\ m.input_active /\ m.output_active = k.output_active
                /\ m.input_cancelled = k.input_cancelled
                /\ m.output_cancelled = k.output_cancelled
                /\ m.phase = k.phase /\ m.input = k.input /\ m.reply = k.reply
                /\ m.read_eof = k.read_eof /\ m.poll_events = events /\ SameWire(k, m)
  BY <1>1 DEF Connection, SameWire
<1>3. /\ l \in Connection /\ l.references = k.references + 1 /\ l.dead = k.dead
      /\ l.input_active /\ l.output_active = k.output_active
      /\ l.input_cancelled = k.input_cancelled
      /\ l.output_cancelled = k.output_cancelled
      /\ l.phase = k.phase /\ l.input = k.input /\ l.reply = k.reply
      /\ l.read_eof = k.read_eof /\ l.poll_events = events /\ SameWire(k, l)
  BY <1>1, <1>2 DEF Polled
<1> HIDE DEF l
<1>4. InBounds(l)
  BY <1>3 DEF InBounds
<1>. QED  BY <1>3, <1>4 DEF l

LEMMA InputCancelledConnection ==
    ASSUME NEW k, InBounds(k)
    PROVE  LET l == InputCancelled(k)
           IN /\ InBounds(l) /\ l.references = k.references + 1 /\ l.dead = k.dead
              /\ l.input_cancelled /\ l.output_cancelled = k.output_cancelled
              /\ l.input_active = k.input_active /\ l.output_active = k.output_active
              /\ l.staged = k.staged
<1> DEFINE l == InputCancelled(k)
<1>1. k \in Connection /\ k.references + 1 \in Nat
  BY DEF InBounds, Connection
<1>2. ASSUME NEW n \in Nat
      PROVE  LET m == [k EXCEPT !.references = n, !.input_cancelled = TRUE]
             IN /\ m \in Connection /\ m.references = n /\ m.dead = k.dead
                /\ m.phase = k.phase /\ m.input = k.input /\ m.reply = k.reply
                /\ m.input_cancelled /\ m.output_cancelled = k.output_cancelled
                /\ m.input_active = k.input_active /\ m.output_active = k.output_active
                /\ m.staged = k.staged
  BY <1>1 DEF Connection
<1>3. /\ l \in Connection /\ l.references = k.references + 1 /\ l.dead = k.dead
      /\ l.phase = k.phase /\ l.input = k.input /\ l.reply = k.reply
      /\ l.input_cancelled /\ l.output_cancelled = k.output_cancelled
      /\ l.input_active = k.input_active /\ l.output_active = k.output_active
      /\ l.staged = k.staged
  BY <1>1, <1>2 DEF InputCancelled
<1> HIDE DEF l
<1>4. InBounds(l)
  BY <1>3 DEF InBounds
<1>. QED  BY <1>3, <1>4 DEF l

LEMMA OutputCancelledConnection ==
    ASSUME NEW k, InBounds(k)
    PROVE  LET l == OutputCancelled(k)
           IN /\ InBounds(l) /\ l.references = k.references + 1 /\ l.dead = k.dead
              /\ l.output_cancelled /\ l.input_cancelled = k.input_cancelled
              /\ l.input_active = k.input_active /\ l.output_active = k.output_active
              /\ l.staged = k.staged
<1> DEFINE l == OutputCancelled(k)
<1>1. k \in Connection /\ k.references + 1 \in Nat
  BY DEF InBounds, Connection
<1>2. ASSUME NEW n \in Nat
      PROVE  LET m == [k EXCEPT !.references = n, !.output_cancelled = TRUE]
             IN /\ m \in Connection /\ m.references = n /\ m.dead = k.dead
                /\ m.phase = k.phase /\ m.input = k.input /\ m.reply = k.reply
                /\ m.output_cancelled /\ m.input_cancelled = k.input_cancelled
                /\ m.input_active = k.input_active /\ m.output_active = k.output_active
                /\ m.staged = k.staged
  BY <1>1 DEF Connection
<1>3. /\ l \in Connection /\ l.references = k.references + 1 /\ l.dead = k.dead
      /\ l.phase = k.phase /\ l.input = k.input /\ l.reply = k.reply
      /\ l.output_cancelled /\ l.input_cancelled = k.input_cancelled
      /\ l.input_active = k.input_active /\ l.output_active = k.output_active
      /\ l.staged = k.staged
  BY <1>1, <1>2 DEF OutputCancelled
<1> HIDE DEF l
<1>4. InBounds(l)
  BY <1>3 DEF InBounds
<1>. QED  BY <1>3, <1>4 DEF l

LEMMA SubmitInputGood ==
    ASSUME NEW d, NEW ended, NEW held \in Nat, Good(d, ended, held), ~d.k.input_active,
           NEW events \in {"in", "out"}
    PROVE  LET e == SubmitInput(d, events)
           IN /\ Good(e, ended, held) /\ Grows(d, e, ended, ConnectionOps(d.fd))
              /\ e.k.dead = d.k.dead /\ e.k.input_active /\ e.k.poll_events = events
              /\ e.k.phase = d.k.phase /\ e.k.input = d.k.input /\ e.k.reply = d.k.reply
              /\ e.k.read_eof = d.k.read_eof
              /\ e.k.output_active = d.k.output_active /\ SameWire(d.k, e.k)
<1> DEFINE op == Input(d.fd)
           g == GetSqe(d, op)
           l == Polled(d.k, events)
<1>1. d \in Contexts /\ d.fd \in Fds /\ d.k \in Connection /\ InBounds(d.k)
  BY DEF Good, Queues, Contexts, Accounts
<1>2. op \in ConnectionOps(d.fd) /\ op \in Operations /\ op \notin Live(d, ended)
  BY <1>1, OperationNames DEF Good, Accounts, ConnectionOps
<1>3. g \in Contexts /\ g.k = d.k
  BY <1>2, GetSqeAdds DEF Good, Queues
<1>4. SubmitInput(d, events) = With(g, l)
  <2>1. Prepare(d, op) = [g EXCEPT !.k = [g.k EXCEPT !.references = g.k.references + 1]]
    BY <1>3 DEF Prepare, Contexts, Connection
  <2>2. SubmitInput(d, events)
            = [Prepare(d, op) EXCEPT !.k = [Prepare(d, op).k EXCEPT !.input_active = TRUE,
                                                                    !.poll_events = events]]
    BY DEF SubmitInput
  <2>. QED  BY <2>1, <2>2, <1>1, <1>3 DEF Contexts, Connection, With, Polled
<1>5. /\ op = Input(d.fd)
      /\ op # Output(d.fd) /\ op # CancelInput(d.fd) /\ op # CancelOutput(d.fd)
  BY <1>1, OperationNames
<1> HIDE DEF op
<1>6. /\ InBounds(l) /\ l.references = d.k.references + 1 /\ l.input_active
      /\ l.dead = d.k.dead /\ l.output_active = d.k.output_active
      /\ l.input_cancelled = d.k.input_cancelled /\ l.output_cancelled = d.k.output_cancelled
      /\ l.phase = d.k.phase /\ l.input = d.k.input /\ l.reply = d.k.reply
      /\ l.read_eof = d.k.read_eof /\ l.poll_events = events /\ SameWire(d.k, l)
  BY <1>1, PolledConnection
<1> HIDE DEF l
<1>7. Arms(d.fd, d.k, op, l)
  BY <1>5, <1>6 DEF Arms
<1>8. LET e == With(g, l)
      IN Good(e, ended, held) /\ Grows(d, e, ended, ConnectionOps(d.fd)) /\ e.k = l
  BY <1>2, <1>7, ArmedContext
<1>. QED  BY <1>4, <1>6, <1>8

LEMMA FinishInputGood ==
    ASSUME NEW d, NEW ended, NEW held \in Nat, Good(d, ended, held), d.k.dead
    PROVE  LET e == FinishInput(d)
           IN /\ Good(e, ended, held) /\ Grows(d, e, ended, ConnectionOps(d.fd)) /\ e.k.dead
              /\ e.k.staged = d.k.staged
<1> DEFINE op == CancelInput(d.fd)
           g == GetSqe(d, op)
           l == InputCancelled(d.k)
<1>1. d \in Contexts /\ d.fd \in Fds /\ d.k \in Connection /\ InBounds(d.k)
  BY DEF Good, Queues, Contexts, Accounts
<1>2. CASE ~(d.k.input_active /\ ~d.k.input_cancelled)
  <2>1. FinishInput(d) = d
    BY <1>2 DEF FinishInput
  <2>. QED  BY <2>1 DEF Good, Grows
<1>3. CASE d.k.input_active /\ ~d.k.input_cancelled
  <2>1. op \in ConnectionOps(d.fd) /\ op \in Operations /\ op \notin Live(d, ended)
    BY <1>1, <1>3, OperationNames DEF Good, Accounts, ConnectionOps
  <2>2. g \in Contexts /\ g.k = d.k
    BY <2>1, GetSqeAdds DEF Good, Queues
  <2>3. FinishInput(d) = With(g, l)
    <3>1. Prepare(d, op) = [g EXCEPT !.k = [g.k EXCEPT !.references = g.k.references + 1]]
      BY <2>2 DEF Prepare, Contexts, Connection
    <3>2. FinishInput(d)
              = [Prepare(d, op) EXCEPT !.k = [Prepare(d, op).k EXCEPT !.input_cancelled = TRUE]]
      BY <1>3 DEF FinishInput
    <3>. QED  BY <3>1, <3>2, <2>2, <1>1 DEF Contexts, Connection, With, InputCancelled
  <2>4. /\ op = CancelInput(d.fd)
        /\ op # Input(d.fd) /\ op # Output(d.fd) /\ op # CancelOutput(d.fd)
    BY <1>1, OperationNames
  <2> HIDE DEF op
  <2>5. /\ InBounds(l) /\ l.references = d.k.references + 1 /\ l.input_cancelled
        /\ l.dead = d.k.dead /\ l.staged = d.k.staged
        /\ l.output_active = d.k.output_active
        /\ l.input_active = d.k.input_active /\ l.output_cancelled = d.k.output_cancelled
    BY <1>1, InputCancelledConnection
  <2> HIDE DEF l
  <2>6. Arms(d.fd, d.k, op, l)
    BY <2>4, <2>5 DEF Arms
  <2>7. LET e == With(g, l)
        IN Good(e, ended, held) /\ Grows(d, e, ended, ConnectionOps(d.fd)) /\ e.k = l
    BY <2>1, <2>6, ArmedContext
  <2>. QED  BY <2>3, <2>5, <2>7
<1>. QED  BY <1>2, <1>3

LEMMA FinishOutputGood ==
    ASSUME NEW d, NEW ended, NEW held \in Nat, Good(d, ended, held), d.k.dead
    PROVE  LET e == FinishOutput(d)
           IN /\ Good(e, ended, held) /\ Grows(d, e, ended, ConnectionOps(d.fd)) /\ e.k.dead
              /\ e.k.staged = d.k.staged
<1> DEFINE op == CancelOutput(d.fd)
           g == GetSqe(d, op)
           l == OutputCancelled(d.k)
<1>1. d \in Contexts /\ d.fd \in Fds /\ d.k \in Connection /\ InBounds(d.k)
  BY DEF Good, Queues, Contexts, Accounts
<1>2. CASE ~(d.k.output_active /\ ~d.k.output_cancelled)
  <2>1. FinishOutput(d) = d
    BY <1>2 DEF FinishOutput
  <2>. QED  BY <2>1 DEF Good, Grows
<1>3. CASE d.k.output_active /\ ~d.k.output_cancelled
  <2>1. op \in ConnectionOps(d.fd) /\ op \in Operations /\ op \notin Live(d, ended)
    BY <1>1, <1>3, OperationNames DEF Good, Accounts, ConnectionOps
  <2>2. g \in Contexts /\ g.k = d.k
    BY <2>1, GetSqeAdds DEF Good, Queues
  <2>3. FinishOutput(d) = With(g, l)
    <3>1. Prepare(d, op) = [g EXCEPT !.k = [g.k EXCEPT !.references = g.k.references + 1]]
      BY <2>2 DEF Prepare, Contexts, Connection
    <3>2. FinishOutput(d)
              = [Prepare(d, op) EXCEPT !.k = [Prepare(d, op).k EXCEPT !.output_cancelled = TRUE]]
      BY <1>3 DEF FinishOutput
    <3>. QED  BY <3>1, <3>2, <2>2, <1>1 DEF Contexts, Connection, With, OutputCancelled
  <2>4. /\ op = CancelOutput(d.fd)
        /\ op # Input(d.fd) /\ op # Output(d.fd) /\ op # CancelInput(d.fd)
    BY <1>1, OperationNames
  <2> HIDE DEF op
  <2>5. /\ InBounds(l) /\ l.references = d.k.references + 1 /\ l.output_cancelled
        /\ l.dead = d.k.dead /\ l.staged = d.k.staged
        /\ l.output_active = d.k.output_active
        /\ l.input_active = d.k.input_active /\ l.input_cancelled = d.k.input_cancelled
    BY <1>1, OutputCancelledConnection
  <2> HIDE DEF l
  <2>6. Arms(d.fd, d.k, op, l)
    BY <2>4, <2>5 DEF Arms
  <2>7. LET e == With(g, l)
        IN Good(e, ended, held) /\ Grows(d, e, ended, ConnectionOps(d.fd)) /\ e.k = l
    BY <2>1, <2>6, ArmedContext
  <2>. QED  BY <2>3, <2>5, <2>7
<1>. QED  BY <1>2, <1>3

\* release(), by the one that holds a reference.
LEMMA ReleaseGood ==
    ASSUME NEW d, NEW ended, NEW held \in Nat, Good(d, ended, held + 1)
    PROVE  LET e == Release(d)
           IN /\ Good(e, ended, held) /\ Grows(d, e, ended, {})
              /\ e.k = Released(d.k) /\ e.sq = d.sq /\ e.kernel = d.kernel
              /\ e.k.dead = d.k.dead /\ e.k.references = d.k.references - 1
<1> DEFINE n == d.k.references - 1
           l == Released(d.k)
           e == With(d, l)
<1>1. d \in Contexts /\ d.k \in Connection /\ InBounds(d.k) /\ d.k.references \in Nat
  BY DEF Good, Queues, Contexts, Accounts, Connection
<1>2. n \in Nat
  BY <1>1 DEF Good, Accounts, Count
<1>3. Release(d) = e
  BY <1>1 DEF Release, Contexts, Connection, With, Released
<1> HIDE DEF n
<1>4. /\ l \in Connection /\ l.references = n /\ l.dead = d.k.dead
      /\ l.input_active = d.k.input_active /\ l.output_active = d.k.output_active
      /\ l.input_cancelled = d.k.input_cancelled /\ l.output_cancelled = d.k.output_cancelled
      /\ l.phase = d.k.phase /\ l.input = d.k.input /\ l.reply = d.k.reply
  <2>1. l = [d.k EXCEPT !.references = n]
    BY DEF Released, n
  <2>. QED  BY <2>1, <1>1, <1>2 DEF Connection
<1> HIDE DEF l
<1>5. InBounds(l)
  BY <1>1, <1>4 DEF InBounds
<1>6. /\ e \in Contexts /\ e.k = l /\ e.fd = d.fd /\ e.s = d.s
      /\ e.sq = d.sq /\ e.kernel = d.kernel
  BY <1>1, <1>4, WithConnection
<1> HIDE DEF e
<1>7. Queues(e, ended) /\ Live(e, ended) = Live(d, ended)
  BY <1>6 DEF Good, Queues, Live
<1>8. Accounts(d.fd, l, Live(d, ended), held)
  <2>1. Accounts(d.fd, d.k, Live(d, ended), held + 1)
    BY DEF Good
  <2>2. l.references = Count(~l.dead) + held
                       + Count(Input(d.fd) \in Live(d, ended))
                       + Count(Output(d.fd) \in Live(d, ended))
                       + Count(CancelInput(d.fd) \in Live(d, ended))
                       + Count(CancelOutput(d.fd) \in Live(d, ended))
    BY <2>1, <1>4, <1>1 DEF Accounts, Count, n
  <2>. QED  BY <2>1, <2>2, <1>4, <1>5 DEF Accounts
<1>9. Good(e, ended, held) /\ Grows(d, e, ended, {})
  BY <1>6, <1>7, <1>8 DEF Good, Grows
<1>. QED  BY <1>3, <1>4, <1>6, <1>9 DEF l, n

\* finish() cancels what is in flight and drops the owner's reference, once.
LEMMA FinishGood ==
    ASSUME NEW d, NEW ended, NEW held \in Nat, Good(d, ended, held)
    PROVE  LET e == Finish(d)
           IN /\ Good(e, ended, held) /\ Grows(d, e, ended, ConnectionOps(d.fd)) /\ e.k.dead
              /\ e.k.staged = d.k.staged
<1>1. CASE d.k.dead
  <2>1. Finish(d) = d
    BY <1>1 DEF Finish
  <2>. QED  BY <1>1, <2>1 DEF Good, Grows
<1>2. CASE ~d.k.dead
  <2> DEFINE l == Killed(d.k)
             e == With(d, l)
             f == FinishInput(e)
             g == FinishOutput(f)
  <2>1. d \in Contexts /\ d.k \in Connection /\ InBounds(d.k)
    BY DEF Good, Queues, Contexts, Accounts
  <2>2. Finish(d) = Release(g)
    <3>1. [d EXCEPT !.k.dead = TRUE, !.k.poll_registered = FALSE] = e
      BY <2>1 DEF Contexts, Connection, With, Killed
    <3>. QED  BY <1>2, <3>1 DEF Finish
  <2>3. /\ l \in Connection /\ l.references = d.k.references /\ l.dead
        /\ l.staged = d.k.staged
        /\ l.input_active = d.k.input_active /\ l.output_active = d.k.output_active
        /\ l.input_cancelled = d.k.input_cancelled /\ l.output_cancelled = d.k.output_cancelled
        /\ l.phase = d.k.phase /\ l.input = d.k.input /\ l.reply = d.k.reply
    BY <2>1 DEF Connection, Killed
  <2>4. InBounds(l)
    BY <2>1, <2>3 DEF InBounds
  <2> HIDE DEF l
  <2>5. /\ e \in Contexts /\ e.k = l /\ e.fd = d.fd /\ e.s = d.s
        /\ e.sq = d.sq /\ e.kernel = d.kernel
    BY <2>1, <2>3, WithConnection
  <2> HIDE DEF e
  <2>6. Queues(e, ended) /\ Live(e, ended) = Live(d, ended)
    BY <2>5 DEF Good, Queues, Live
  <2>7. Accounts(d.fd, l, Live(d, ended), held + 1)
    BY <1>2, <2>3, <2>4 DEF Good, Accounts, Count
  <2>8. Good(e, ended, held + 1) /\ Grows(d, e, ended, ConnectionOps(d.fd)) /\ e.k.dead
    BY <2>3, <2>5, <2>6, <2>7 DEF Good, Grows
  <2>9. held + 1 \in Nat
    OBVIOUS
  <2>10. /\ Good(f, ended, held + 1) /\ Grows(e, f, ended, ConnectionOps(d.fd)) /\ f.k.dead
         /\ f.k.staged = e.k.staged
    BY <2>5, <2>8, <2>9, FinishInputGood
  <2> HIDE DEF f
  <2>11. f.fd = d.fd
    BY <2>5, <2>10 DEF Grows
  <2>12. /\ Good(g, ended, held + 1) /\ Grows(f, g, ended, ConnectionOps(d.fd)) /\ g.k.dead
         /\ g.k.staged = f.k.staged
    BY <2>9, <2>10, <2>11, FinishOutputGood
  <2> HIDE DEF g
  <2>13. /\ Good(Release(g), ended, held) /\ Grows(g, Release(g), ended, {})
         /\ Release(g).k.dead = g.k.dead /\ Release(g).k = Released(g.k)
    BY <2>12, ReleaseGood
  <2>14. Grows(d, Release(g), ended, ConnectionOps(d.fd))
    BY <2>8, <2>10, <2>12, <2>13 DEF Grows
  <2>15. Release(g).k.staged = d.k.staged
    <3>1. g.k.staged = d.k.staged
      BY <2>3, <2>5, <2>10, <2>12
    <3>2. \A k \in Connection : Released(k).staged = k.staged
      BY DEF Released, Connection
    <3>3. g.k \in Connection
      BY <2>12 DEF Good, Accounts, InBounds
    <3>. QED  BY <2>13, <3>1, <3>2, <3>3
  <2>. QED  BY <2>2, <2>12, <2>13, <2>14, <2>15
<1>. QED  BY <1>1, <1>2

-----------------------------------------------------------------------------
(* The inductive invariant the workers share.                              *)

EndedOps == {op \in Operations : Ended(op)}
Pending  == sq \cup kernel \cup EndedOps
Held(c)  == Count(task = Task(c, "release"))

\* The descriptors in the completion queue, and whether an accept CQE in it
\* leaves the listener armed.
CqFds       == {cq[i].fd : i \in DOMAIN cq} \ {NULL}
MorePending == \E i \in DOMAIN cq : cq[i].more

\* Only a listener's CQEs may be followed by others, and only they hand over a
\* descriptor, each its own.
CqWellFormed ==
    /\ \A i, j \in DOMAIN cq : i < j /\ cq[i].op = cq[j].op => cq[i].more
    /\ \A i \in DOMAIN cq :
          /\ cq[i].more => cq[i].op = AcceptOp /\ cq[i].res = "ok"
          /\ cq[i].fd # NULL <=> cq[i].op = AcceptOp /\ cq[i].res = "ok"
    /\ \A i, j \in DOMAIN cq : cq[i].fd = cq[j].fd /\ cq[i].fd # NULL => i = j

\* An operation is in one place, and a cancel has found only what is submitted.
QueuesOk ==
    /\ sq \cap kernel = {}
    /\ EndedOps \cap (sq \cup kernel) = {}
    /\ doomed \subseteq kernel
    /\ MorePending => AcceptOp \in kernel \cup EndedOps

ConnectionsOk ==
    \A c \in connections : Accounts(c, conn[c], Pending, Held(c)) /\ conn[c].references > 0

OthersOk ==
    \A c \in Fds \ connections :
        /\ conn[c] = Freed /\ ssl[c] = NewSsl /\ task.fd # c
        /\ \A op \in ConnectionOps(c) : op \notin Pending

ListenerOk ==
    /\ accept_active <=> AcceptOp \in Pending
    /\ accept_cancel_active <=> CancelAccept \in Pending
    /\ accept_cancel_active => shutdown_started

\* drive() runs for a connection that is alive.
TaskOk ==
    /\ pc = "drive" <=> task # NoTask
    /\ pc = "drive" => task.fd \in connections /\ ~conn[task.fd].dead /\ task.then # "none"

DescriptorsOk ==
    /\ open = connections \cup CqFds
    /\ connections \cap CqFds = {}

\* OpenSSL takes what has arrived, and no more arrives than the peer sends.
SocketsOk ==
    \A c \in Fds :
        /\ ssl[c].fetched <= socket[c].arrived
        /\ socket[c].arrived <= RecordPieces * Len(socket[c].script)
        /\ "fragments" \in Environment \/ socket[c].arrived % RecordPieces = 0

CoreInv ==
    /\ TypeOK /\ CqWellFormed /\ QueuesOk
    /\ ConnectionsOk /\ OthersOk
    /\ ListenerOk /\ TaskOk /\ DescriptorsOk /\ SocketsOk

\* What the shared steps do to the poll of the epoll descriptor.
EpollKept == \A op \in {EpollOp, CancelEpoll} : (op \in Pending)' <=> op \in Pending

-----------------------------------------------------------------------------
(* The completion queue.                                                   *)

LEMMA OldestCqe ==
    ASSUME cq \in Seq(Cqes), cq # <<>>
    PROVE  1 \in DOMAIN cq /\ Head(cq) = cq[1] /\ Head(cq) \in Cqes /\ Head(cq).op \in Operations
<1>1. DOMAIN cq = 1..Len(cq) /\ Len(cq) \in Nat /\ Len(cq) >= 1
  BY LenProperties, EmptySeq
<1>2. Head(cq) = cq[1]
  BY HeadTailProperties
<1>3. 1 \in DOMAIN cq /\ cq[1] \in Cqes
  BY <1>1, ElementOfSeq
<1>. QED  BY <1>2, <1>3 DEF Cqes

LEMMA QueuedCqes ==
    ASSUME cq \in Seq(Cqes)
    PROVE  \A i \in DOMAIN cq : cq[i] \in Cqes /\ cq[i].op \in Operations /\ cq[i].fd \in Fds \cup {NULL}
<1>1. DOMAIN cq = 1..Len(cq)
  BY LenProperties
<1>2. \A i \in DOMAIN cq : cq[i] \in Cqes
  BY <1>1, ElementOfSeq
<1>. QED  BY <1>2 DEF Cqes

\* The oldest CQE is taken: its operation has ended unless more are to come.
LEMMA TailQueue ==
    ASSUME cq \in Seq(Cqes), cq # <<>>, CqWellFormed, cq' = Tail(cq), NEW h, h = Head(cq)
    PROVE  /\ cq' \in Seq(Cqes) /\ CqWellFormed'
           /\ h \in Cqes /\ h.op \in Operations
           /\ h.more => h.op = AcceptOp /\ h.res = "ok" /\ MorePending
           /\ h.fd # NULL <=> h.op = AcceptOp /\ h.res = "ok"
           /\ ~h.more => h.op \in EndedOps
           /\ EndedOps' = IF h.more THEN EndedOps ELSE EndedOps \ {h.op}
           /\ MorePending' => MorePending /\ (h.op = AcceptOp => h.more)
           /\ CqFds' = CqFds \ {h.fd}
           /\ h.fd # NULL => h.fd \in CqFds
<1>1. /\ Len(cq) \in Nat /\ Len(cq) >= 1 /\ DOMAIN cq = 1..Len(cq)
      /\ cq' \in Seq(Cqes) /\ Len(cq') = Len(cq) - 1 /\ DOMAIN cq' = 1..Len(cq')
      /\ h = cq[1] /\ h \in Cqes /\ h.op \in Operations /\ 1 \in DOMAIN cq
  BY HeadTailProperties, LenProperties, EmptySeq, OldestCqe
<1>2. \A i \in 1..Len(cq') : cq'[i] = cq[i + 1]
  BY HeadTailProperties
<1>3. \A i \in DOMAIN cq' : i \in Nat /\ i + 1 \in DOMAIN cq /\ 1 < i + 1 /\ cq'[i] = cq[i + 1]
  BY <1>1, <1>2
<1>4. ASSUME NEW i \in DOMAIN cq, i # 1
      PROVE  i - 1 \in DOMAIN cq' /\ cq'[i - 1] = cq[i] /\ i \in Nat /\ 1 < i
  <2>1. i - 1 \in 1..Len(cq') /\ (i - 1) + 1 = i /\ i \in Nat /\ 1 < i
    BY <1>1, <1>4
  <2>. QED  BY <1>1, <1>2, <2>1
<1>5. CqWellFormed'
  <2>1. ASSUME NEW i \in DOMAIN cq', NEW j \in DOMAIN cq', i < j, cq'[i].op = cq'[j].op
        PROVE  cq'[i].more
    <3>1. i + 1 \in DOMAIN cq /\ j + 1 \in DOMAIN cq /\ i + 1 < j + 1
      BY <2>1, <1>3
    <3>. QED  BY <2>1, <3>1, <1>3 DEF CqWellFormed
  <2>2. ASSUME NEW i \in DOMAIN cq'
        PROVE  /\ cq'[i].more => cq'[i].op = AcceptOp /\ cq'[i].res = "ok"
               /\ cq'[i].fd # NULL <=> cq'[i].op = AcceptOp /\ cq'[i].res = "ok"
    BY <1>3 DEF CqWellFormed
  <2>3. ASSUME NEW i \in DOMAIN cq', NEW j \in DOMAIN cq', cq'[i].fd = cq'[j].fd, cq'[i].fd # NULL
        PROVE  i = j
    <3>1. i + 1 \in DOMAIN cq /\ j + 1 \in DOMAIN cq /\ i \in Nat /\ j \in Nat
      BY <1>3
    <3>2. i + 1 = j + 1
      BY <2>3, <3>1, <1>3 DEF CqWellFormed
    <3>. QED  BY <3>1, <3>2
  <2>. QED  BY <2>1, <2>2, <2>3 DEF CqWellFormed
<1>6. /\ h.more => h.op = AcceptOp /\ h.res = "ok" /\ MorePending
      /\ h.fd # NULL <=> h.op = AcceptOp /\ h.res = "ok"
      /\ ~h.more => h.op \in EndedOps
      /\ h.fd # NULL => h.fd \in CqFds
  BY <1>1 DEF CqWellFormed, MorePending, EndedOps, Ended, CqFds
<1>7. EndedOps' = IF h.more THEN EndedOps ELSE EndedOps \ {h.op}
  <2>1. ASSUME NEW op \in Operations, Ended(op)'
        PROVE  Ended(op) /\ (h.op = op => h.more)
    <3>1. PICK i \in DOMAIN cq' : cq'[i].op = op /\ ~cq'[i].more
      BY <2>1 DEF Ended
    <3>2. i + 1 \in DOMAIN cq /\ 1 < i + 1 /\ cq[i + 1].op = op /\ ~cq[i + 1].more
      BY <3>1, <1>3
    <3>. QED  BY <3>2, <1>1 DEF Ended, CqWellFormed
  <2>2. ASSUME NEW op \in Operations, Ended(op), h.op # op \/ h.more
        PROVE  Ended(op)'
    <3>1. PICK i \in DOMAIN cq : cq[i].op = op /\ ~cq[i].more
      BY <2>2 DEF Ended
    <3>2. i # 1
      BY <3>1, <2>2, <1>1
    <3>. QED  BY <3>1, <3>2, <1>4 DEF Ended
  <2>3. \A op : op \in EndedOps' <=> op \in Operations /\ Ended(op)'
    BY DEF EndedOps
  <2>4. \A op : op \in EndedOps <=> op \in Operations /\ Ended(op)
    BY DEF EndedOps
  <2>5. \A op : op \in EndedOps' <=> op \in EndedOps /\ (h.op = op => h.more)
    BY <2>1, <2>2, <2>3, <2>4
  <2>6. CASE h.more
    BY <2>5, <2>6
  <2>7. CASE ~h.more
    BY <2>5, <2>7
  <2>. QED  BY <2>6, <2>7
<1>8. ASSUME MorePending'
      PROVE  MorePending /\ (h.op = AcceptOp => h.more)
  <2>1. PICK i \in DOMAIN cq' : cq'[i].more
    BY <1>8 DEF MorePending
  <2>2. i + 1 \in DOMAIN cq /\ 1 < i + 1 /\ cq[i + 1].more
    BY <2>1, <1>3
  <2>3. cq[i + 1].op = AcceptOp
    BY <2>2 DEF CqWellFormed
  <2>. QED  BY <2>2, <2>3, <1>1 DEF MorePending, CqWellFormed
<1>9. CqFds' = CqFds \ {h.fd}
  <2>1. ASSUME NEW fd, fd \in CqFds'
        PROVE  fd \in CqFds /\ fd # h.fd
    <3>1. PICK i \in DOMAIN cq' : cq'[i].fd = fd /\ fd # NULL
      BY <2>1 DEF CqFds
    <3>2. i + 1 \in DOMAIN cq /\ i + 1 # 1 /\ cq[i + 1].fd = fd
      BY <3>1, <1>3
    <3>. QED  BY <3>1, <3>2, <1>1 DEF CqFds, CqWellFormed
  <2>2. ASSUME NEW fd, fd \in CqFds, fd # h.fd
        PROVE  fd \in CqFds'
    <3>1. PICK i \in DOMAIN cq : cq[i].fd = fd /\ fd # NULL
      BY <2>2 DEF CqFds
    <3>2. i # 1
      BY <3>1, <2>2, <1>1
    <3>. QED  BY <3>1, <3>2, <1>4 DEF CqFds
  <2>. QED  BY <2>1, <2>2
<1>. QED  BY <1>1, <1>5, <1>6, <1>7, <1>8, <1>9

\* A CQE is appended.
LEMMA AppendQueue ==
    ASSUME cq \in Seq(Cqes), CqWellFormed, NEW cqe \in Cqes, Post(cqe), cqe.op \notin EndedOps,
           cqe.more => cqe.op = AcceptOp /\ cqe.res = "ok",
           cqe.fd # NULL <=> cqe.op = AcceptOp /\ cqe.res = "ok",
           cqe.fd \notin CqFds
    PROVE  /\ cq' \in Seq(Cqes) /\ CqWellFormed'
           /\ EndedOps' = IF cqe.more THEN EndedOps ELSE EndedOps \cup {cqe.op}
           /\ MorePending' <=> MorePending \/ cqe.more
           /\ CqFds' = IF cqe.fd = NULL THEN CqFds ELSE CqFds \cup {cqe.fd}
<1>1. /\ Len(cq) \in Nat /\ DOMAIN cq = 1..Len(cq)
      /\ cq' = Append(cq, cqe) /\ cq' \in Seq(Cqes) /\ Len(cq') = Len(cq) + 1
      /\ \A i \in 1..Len(cq) : cq'[i] = cq[i]
      /\ cq'[Len(cq) + 1] = cqe
  BY LenProperties, AppendProperties DEF Post
<1> DEFINE n == Len(cq) + 1
<1>2. DOMAIN cq' = 1..n
  BY <1>1, LenProperties
<1>3. /\ DOMAIN cq' = DOMAIN cq \cup {n} /\ n \notin DOMAIN cq
      /\ \A i \in DOMAIN cq : i \in Nat /\ i < n /\ cq'[i] = cq[i]
      /\ cq'[n] = cqe /\ n \in Nat
  BY <1>1, <1>2
<1> HIDE DEF n
<1>4. \A i \in DOMAIN cq : cq[i].op \in Operations
  BY QueuedCqes
<1>5. CqWellFormed'
  <2>1. ASSUME NEW i \in DOMAIN cq', NEW j \in DOMAIN cq', i < j, cq'[i].op = cq'[j].op
        PROVE  cq'[i].more
    <3>1. i \in DOMAIN cq
      BY <2>1, <1>3
    <3>2. CASE j \in DOMAIN cq
      BY <3>1, <3>2, <2>1, <1>3 DEF CqWellFormed
    <3>3. CASE j = n
      BY <3>1, <3>3, <2>1, <1>3, <1>4 DEF EndedOps, Ended
    <3>. QED  BY <3>2, <3>3, <1>3
  <2>2. ASSUME NEW i \in DOMAIN cq'
        PROVE  /\ cq'[i].more => cq'[i].op = AcceptOp /\ cq'[i].res = "ok"
               /\ cq'[i].fd # NULL <=> cq'[i].op = AcceptOp /\ cq'[i].res = "ok"
    BY <1>3 DEF CqWellFormed
  <2>3. ASSUME NEW i \in DOMAIN cq', NEW j \in DOMAIN cq', cq'[i].fd = cq'[j].fd, cq'[i].fd # NULL
        PROVE  i = j
    <3>1. i \in DOMAIN cq => cq'[i].fd # cqe.fd
      BY <2>3, <1>3 DEF CqFds
    <3>2. j \in DOMAIN cq => cq'[j].fd # cqe.fd
      BY <2>3, <1>3 DEF CqFds
    <3>. QED  BY <2>3, <3>1, <3>2, <1>3 DEF CqWellFormed
  <2>. QED  BY <2>1, <2>2, <2>3 DEF CqWellFormed
<1>6. EndedOps' = IF cqe.more THEN EndedOps ELSE EndedOps \cup {cqe.op}
  <2>1. \A op : Ended(op)' <=> Ended(op) \/ (op = cqe.op /\ ~cqe.more)
    BY <1>3 DEF Ended
  <2>2. cqe.op \in Operations
    BY DEF Cqes
  <2>3. \A op : op \in EndedOps' <=> op \in Operations /\ Ended(op)'
    BY DEF EndedOps
  <2>4. \A op : op \in EndedOps <=> op \in Operations /\ Ended(op)
    BY DEF EndedOps
  <2>5. CASE cqe.more
    BY <2>1, <2>3, <2>4, <2>5
  <2>6. CASE ~cqe.more
    BY <2>1, <2>2, <2>3, <2>4, <2>6
  <2>. QED  BY <2>5, <2>6
<1>7. MorePending' <=> MorePending \/ cqe.more
  BY <1>3 DEF MorePending
<1>8. CqFds' = IF cqe.fd = NULL THEN CqFds ELSE CqFds \cup {cqe.fd}
  <2>1. \A fd : fd \in CqFds' <=> fd # NULL /\ \E i \in DOMAIN cq' : cq'[i].fd = fd
    BY DEF CqFds
  <2>2. \A fd : fd \in CqFds <=> fd # NULL /\ \E i \in DOMAIN cq : cq[i].fd = fd
    BY DEF CqFds
  <2>3. \A fd : (\E i \in DOMAIN cq' : cq'[i].fd = fd)
                    <=> (\E i \in DOMAIN cq : cq[i].fd = fd) \/ cqe.fd = fd
    BY <1>3
  <2>4. \A fd : fd \in CqFds' <=> fd \in CqFds \/ (fd # NULL /\ cqe.fd = fd)
    BY <2>1, <2>2, <2>3
  <2>5. CASE cqe.fd = NULL
    BY <2>4, <2>5
  <2>6. CASE cqe.fd # NULL
    BY <2>4, <2>6
  <2>. QED  BY <2>5, <2>6
<1>. QED  BY <1>1, <1>5, <1>6, <1>7, <1>8

LEMMA SameQueue ==
    ASSUME cq' = cq
    PROVE  /\ EndedOps' = EndedOps /\ CqFds' = CqFds /\ MorePending' = MorePending
           /\ CqWellFormed' = CqWellFormed
  BY DEF EndedOps, Ended, CqFds, MorePending, CqWellFormed

LEMMA FreshTypes ==
    /\ NewConnection \in Connection /\ Freed \in Connection
    /\ NewSsl \in Ssl /\ NewSsl.fetched = 0
    /\ InBounds(NewConnection) /\ NewConnection.references = 1 /\ ~NewConnection.dead
    /\ ~NewConnection.input_active /\ ~NewConnection.output_active
    /\ ~NewConnection.input_cancelled /\ ~NewConnection.output_cancelled
<1>1. <<>> \in Seq(Line) /\ <<>> \in Seq(Produced) /\ Len(<<>>) = 0 /\ InputCapacity \in Nat
  BY EmptySeq, FramingAssumption
<1>2. NewConnection \in Connection /\ NewSsl \in Ssl /\ NewSsl.fetched = 0
  BY <1>1 DEF NewConnection, NewSsl, Connection, Ssl, Phases
<1>3. Freed \in Connection
  BY <1>2 DEF Freed, Connection
<1>4. InBounds(NewConnection)
  BY <1>1, <1>2 DEF InBounds, NewConnection
<1>. QED  BY <1>2, <1>3, <1>4 DEF NewConnection

-----------------------------------------------------------------------------
(* A function under complete() ends: its context becomes the state.        *)

ShutdownUnchanged ==
    UNCHANGED <<shutdown_started, accept_cancel_active, doomed, arrivals, socket>>

\* Of the completion queue at most CQEs that end operations of c were taken.
QueueKept(c) ==
    /\ cq' \in Seq(Cqes) /\ CqWellFormed'
    /\ EndedOps' \subseteq EndedOps /\ EndedOps \ EndedOps' \subseteq ConnectionOps(c)
    /\ CqFds' = CqFds
    /\ MorePending' => MorePending

\* No others than operations of `ops' were prepared.
Prepares(e, ops) ==
    /\ kernel \subseteq e.kernel
    /\ sq \cup kernel \subseteq e.sq \cup e.kernel
    /\ e.sq \cup e.kernel \subseteq sq \cup kernel \cup ops

\* The thread drives c, or nothing, before and after.
TaskMoves(c, e) ==
    /\ pc' \in {"loop", "wait", "reap", "drive", "events", "exited"}
    /\ task' \in Tasks /\ stopping' \in BOOLEAN
    /\ task.fd \in {NULL, c} /\ task'.fd \in {NULL, c}
    /\ pc' = "drive" <=> task' # NoTask
    /\ task' # NoTask =>
          task'.fd = c /\ task'.then # "none" /\ e.k.references > 0 /\ ~e.k.dead

LEMMA ContextGood ==
    ASSUME CoreInv, NEW c \in connections
    PROVE  /\ c \in Fds /\ Context(c).fd = c
           /\ Context(c).k = conn[c] /\ Context(c).s = ssl[c]
           /\ Context(c).sq = sq /\ Context(c).kernel = kernel
           /\ Context(c) \in Contexts
           /\ Live(Context(c), EndedOps) = Pending
           /\ Good(Context(c), EndedOps, Held(c))
<1> DEFINE d == Context(c)
<1>1. /\ c \in Fds /\ conn[c] \in Connection /\ ssl[c] \in Ssl
      /\ sq \subseteq Operations /\ kernel \subseteq Operations
  BY DEF CoreInv, TypeOK
<1>2. /\ d.fd = c /\ d.k = conn[c] /\ d.s = ssl[c] /\ d.sq = sq /\ d.kernel = kernel
      /\ d \in Contexts
  BY <1>1 DEF Context, Contexts
<1> HIDE DEF d
<1>3. Live(d, EndedOps) = Pending
  BY <1>2 DEF Live, Pending
<1>4. Accounts(c, conn[c], Pending, Held(c)) /\ sq \cap kernel = {}
      /\ EndedOps \cap (sq \cup kernel) = {}
  BY DEF CoreInv, ConnectionsOk, QueuesOk
<1>5. Good(d, EndedOps, Held(c))
  BY <1>2, <1>3, <1>4 DEF Good, Queues
<1>. QED  BY <1>1, <1>2, <1>3, <1>5 DEF d

LEMMA StoreKeeps ==
    ASSUME CoreInv, NEW c \in connections, NEW e, Good(e, EndedOps', Held(c)'), e.fd = c,
           Store(e), e.s.fetched <= socket[c].arrived,
           Prepares(e, ConnectionOps(c) \cup {AcceptOp}), QueueKept(c), TaskMoves(c, e), ShutdownUnchanged,
           accept_active' \in BOOLEAN, accept_active' <=> AcceptOp \in Live(e, EndedOps')
    PROVE  CoreInv' /\ EpollKept
<1> DEFINE freed == e.k.references = 0
<1>1. /\ c \in Fds /\ conn \in [Fds -> Connection] /\ ssl \in [Fds -> Ssl]
      /\ connections \subseteq Fds /\ open \subseteq Fds
  BY DEF CoreInv, TypeOK
<1>2. /\ e \in Contexts /\ e.k \in Connection /\ e.s \in Ssl /\ e.k.references \in Nat
      /\ e.sq \cap e.kernel = {} /\ EndedOps' \cap (e.sq \cup e.kernel) = {}
      /\ Accounts(c, e.k, Live(e, EndedOps'), Held(c)')
  BY DEF Good, Queues, Contexts, Connection
<1>3. /\ sq' = e.sq /\ kernel' = e.kernel
      /\ conn' = [conn EXCEPT ![c] = IF freed THEN Freed ELSE e.k]
      /\ ssl' = [ssl EXCEPT ![c] = IF freed THEN NewSsl ELSE e.s]
      /\ connections' = IF freed THEN connections \ {c} ELSE connections
      /\ open' = IF freed THEN open \ {c} ELSE open
  BY DEF Store
<1>4. /\ conn'[c] = IF freed THEN Freed ELSE e.k
      /\ ssl'[c] = IF freed THEN NewSsl ELSE e.s
      /\ \A b \in Fds : b # c => conn'[b] = conn[b] /\ ssl'[b] = ssl[b]
  BY <1>1, <1>3
<1>5. Freed \in Connection /\ NewSsl \in Ssl /\ NewSsl.fetched = 0
  BY FreshTypes
<1>6. Pending' = Live(e, EndedOps')
  BY <1>3 DEF Pending, Live
<1>7. \A op : op \notin ConnectionOps(c) => (op \in EndedOps' <=> op \in EndedOps)
  BY DEF QueueKept
<1>8. \A op : op \notin ConnectionOps(c) /\ op # AcceptOp =>
           (op \in Pending' <=> op \in Pending)
  BY <1>3, <1>7 DEF Pending, Prepares
<1>9. /\ AcceptOp \notin ConnectionOps(c) /\ CancelAccept \notin ConnectionOps(c)
      /\ EpollOp \notin ConnectionOps(c) /\ CancelEpoll \notin ConnectionOps(c)
      /\ CancelAccept # AcceptOp /\ EpollOp # AcceptOp /\ CancelEpoll # AcceptOp
  BY <1>1, OperationNames DEF WorkerOps
<1>10. \A b \in Fds : b # c =>
          \A op \in ConnectionOps(b) : op \notin ConnectionOps(c) /\ op # AcceptOp
  BY <1>1, OperationNames DEF WorkerOps
<1>11. freed => e.k.dead /\ Held(c)' = 0 /\ \A op \in ConnectionOps(c) : op \notin Pending'
  BY <1>2, <1>6 DEF Accounts, Count, Held, ConnectionOps
<1>12. freed => task' = NoTask
  BY DEF TaskMoves
<1>13. \A b \in Fds : b # c => task.fd # b /\ task'.fd # b /\ Held(b)' = Held(b)
  BY WorkerAssumption DEF TaskMoves, Held, Task, Count
<1> HIDE DEF freed
<1>14. conn' \in [Fds -> Connection] /\ ssl' \in [Fds -> Ssl]
  BY <1>1, <1>2, <1>3, <1>5
<1>15. TypeOK'
  BY <1>1, <1>2, <1>3, <1>14
     DEF CoreInv, TypeOK, ShutdownUnchanged, QueueKept, TaskMoves, Contexts
<1>16. QueuesOk'
  <2>1. doomed' \subseteq kernel'
    BY <1>3 DEF CoreInv, QueuesOk, ShutdownUnchanged, Prepares
  <2>2. MorePending' => AcceptOp \in kernel' \cup EndedOps'
    BY <1>3, <1>7, <1>9 DEF CoreInv, QueuesOk, QueueKept, Prepares
  <2>. QED  BY <1>2, <1>3, <2>1, <2>2 DEF QueuesOk
<1>17. ConnectionsOk'
  <2>1. ASSUME NEW b \in connections'
        PROVE  Accounts(b, conn'[b], Pending', Held(b)') /\ conn'[b].references > 0
    <3>1. CASE b = c
      <4>1. ~freed
        BY <1>3, <3>1, <2>1
      <4>2. conn'[b] = e.k
        BY <1>4, <3>1, <4>1
      <4>. QED  BY <1>2, <1>6, <3>1, <4>1, <4>2 DEF freed
    <3>2. CASE b # c
      <4>1. b \in connections /\ b \in Fds /\ conn'[b] = conn[b]
        BY <1>1, <1>3, <1>4, <2>1, <3>2
      <4>2. Accounts(b, conn[b], Pending, Held(b)) /\ conn[b].references > 0
        BY <4>1 DEF CoreInv, ConnectionsOk
      <4>3. \A op \in ConnectionOps(b) : op \in Pending' <=> op \in Pending
        BY <1>8, <1>10, <3>2, <4>1
      <4>4. Accounts(b, conn[b], Pending', Held(b))
        BY <4>2, <4>3, AccountsLocal
      <4>. QED  BY <1>13, <3>2, <4>1, <4>2, <4>4
    <3>. QED  BY <3>1, <3>2
  <2>. QED  BY <2>1 DEF ConnectionsOk
<1>18. OthersOk'
  <2>1. ASSUME NEW b \in Fds \ connections'
        PROVE  /\ conn'[b] = Freed /\ ssl'[b] = NewSsl /\ task'.fd # b
               /\ \A op \in ConnectionOps(b) : op \notin Pending'
    <3>1. CASE b = c
      <4>1. freed
        BY <1>3, <3>1, <2>1
      <4>2. task'.fd # b
        BY <1>1, <1>12, <3>1, <4>1, WorkerAssumption DEF NoTask, Task
      <4>. QED  BY <1>4, <1>11, <3>1, <4>1, <4>2
    <3>2. CASE b # c
      <4>1. b \in Fds \ connections
        BY <1>3, <2>1, <3>2
      <4>2. /\ conn[b] = Freed /\ ssl[b] = NewSsl
            /\ \A op \in ConnectionOps(b) : op \notin Pending
        BY <4>1 DEF CoreInv, OthersOk
      <4>. QED  BY <1>4, <1>8, <1>10, <1>13, <3>2, <4>1, <4>2
    <3>. QED  BY <3>1, <3>2
  <2>. QED  BY <2>1 DEF OthersOk
<1>19. ListenerOk'
  BY <1>6, <1>8, <1>9 DEF CoreInv, ListenerOk, ShutdownUnchanged
<1>20. TaskOk'
  <2>1. CASE task' = NoTask
    BY <2>1 DEF TaskMoves, TaskOk
  <2>2. CASE task' # NoTask
    <3>1. pc' = "drive" /\ task'.fd = c /\ task'.then # "none" /\ ~freed /\ ~e.k.dead
      BY <1>2, <2>2 DEF TaskMoves, freed
    <3>. QED  BY <1>3, <1>4, <2>2, <3>1 DEF TaskOk
  <2>. QED  BY <2>1, <2>2
<1>21. DescriptorsOk'
  <2>1. open = connections \cup CqFds /\ connections \cap CqFds = {} /\ CqFds' = CqFds
    BY DEF CoreInv, DescriptorsOk, QueueKept
  <2>. QED  BY <1>3, <2>1 DEF DescriptorsOk
<1>22. SocketsOk'
  <2>1. ASSUME NEW b \in Fds
        PROVE  ssl'[b].fetched <= socket[b].arrived
    <3>1. ssl[b].fetched <= socket[b].arrived /\ socket[b].arrived \in Nat
      BY DEF CoreInv, SocketsOk, TypeOK, Socket
    <3>2. CASE b = c
      BY <1>4, <1>5, <3>1, <3>2
    <3>3. CASE b # c
      BY <1>4, <3>1, <3>3
    <3>. QED  BY <3>2, <3>3
  <2>. QED  BY <2>1 DEF CoreInv, SocketsOk, ShutdownUnchanged
<1>23. CqWellFormed'
  BY DEF QueueKept
<1>24. EpollKept
  BY <1>8, <1>9 DEF EpollKept
<1>. QED  BY <1>15, <1>16, <1>17, <1>18, <1>19, <1>20, <1>21, <1>22, <1>23, <1>24 DEF CoreInv

-----------------------------------------------------------------------------
(* Completions of operations that belong to no connection.                 *)

\* The connections do not see what happens to other operations.
LEMMA ConnectionsKept ==
    ASSUME CoreInv, UNCHANGED <<task, connections, conn, ssl>>,
           \A c \in Fds : \A op \in ConnectionOps(c) : op \in Pending' <=> op \in Pending
    PROVE  ConnectionsOk' /\ OthersOk'
<1>1. connections \subseteq Fds
  BY DEF CoreInv, TypeOK
<1>2. ASSUME NEW c \in connections
      PROVE  Accounts(c, conn[c], Pending', Held(c)')
  <2>1. Accounts(c, conn[c], Pending, Held(c))
    BY DEF CoreInv, ConnectionsOk
  <2>2. Accounts(c, conn[c], Pending', Held(c))
    BY <1>1, <2>1, AccountsLocal
  <2>3. Held(c)' = Held(c)
    BY DEF Held
  <2>. QED  BY <2>2, <2>3
<1>3. ConnectionsOk'
  BY <1>2 DEF CoreInv, ConnectionsOk
<1>4. OthersOk'
  BY DEF CoreInv, OthersOk
<1>. QED  BY <1>3, <1>4

\* The oldest CQE is taken and nothing is prepared.
LEMMA CqeTaken ==
    ASSUME CoreInv, cq # <<>>, cq' = Tail(cq), UNCHANGED <<sq, kernel, doomed>>,
           NEW h, h = Head(cq)
    PROVE  /\ cq' \in Seq(Cqes) /\ CqWellFormed' /\ QueuesOk'
           /\ h \in Cqes /\ h.op \in Operations /\ h.op \in Pending
           /\ h.fd # NULL <=> h.op = AcceptOp /\ h.res = "ok"
           /\ h.fd # NULL => h.fd \in CqFds
           /\ CqFds' = CqFds \ {h.fd}
           /\ h.more => h.op = AcceptOp /\ h.res = "ok" /\ h.op \in Pending'
           /\ ~h.more => h.op \notin Pending' /\ h.op \in EndedOps
           /\ \A op : op # h.op => (op \in Pending' <=> op \in Pending)
           /\ EndedOps' = IF h.more THEN EndedOps ELSE EndedOps \ {h.op}
           /\ MorePending' => MorePending
<1>1. cq \in Seq(Cqes) /\ CqWellFormed
  BY DEF CoreInv, TypeOK
<1>2. /\ cq' \in Seq(Cqes) /\ CqWellFormed'
      /\ h \in Cqes /\ h.op \in Operations
      /\ h.more => h.op = AcceptOp /\ h.res = "ok" /\ MorePending
      /\ h.fd # NULL <=> h.op = AcceptOp /\ h.res = "ok"
      /\ ~h.more => h.op \in EndedOps
      /\ EndedOps' = IF h.more THEN EndedOps ELSE EndedOps \ {h.op}
      /\ MorePending' => MorePending /\ (h.op = AcceptOp => h.more)
      /\ CqFds' = CqFds \ {h.fd}
      /\ h.fd # NULL => h.fd \in CqFds
  BY <1>1, TailQueue
<1>3. \A op : op \in EndedOps' <=> op \in EndedOps /\ (op = h.op => h.more)
  <2>1. CASE h.more
    BY <1>2, <2>1
  <2>2. CASE ~h.more
    BY <1>2, <2>2
  <2>. QED  BY <2>1, <2>2
<1>4. /\ sq \cap kernel = {} /\ EndedOps \cap (sq \cup kernel) = {} /\ doomed \subseteq kernel
      /\ MorePending => AcceptOp \in kernel \cup EndedOps
  BY DEF CoreInv, QueuesOk
<1>5. MorePending' => AcceptOp \in kernel \cup EndedOps'
  BY <1>2, <1>3, <1>4
<1>6. QueuesOk'
  <2>1. EndedOps' \cap (sq \cup kernel) = {}
    BY <1>3, <1>4
  <2>. QED  BY <1>4, <1>5, <2>1 DEF QueuesOk
<1>7. \A op : op \in Pending' <=> op \in Pending /\ (op = h.op => h.more)
  <2>1. ~h.more => h.op \notin sq \cup kernel
    BY <1>2, <1>4
  <2>2. h.more => h.op \in kernel \cup EndedOps
    BY <1>2, <1>4
  <2>. QED  BY <1>3, <2>1, <2>2 DEF Pending
<1>8. h.op \in Pending
  BY <1>2, <1>4 DEF Pending
<1>. QED  BY <1>2, <1>6, <1>7, <1>8

\* A CQE is taken and the connections stay as they are.
LEMMA WorkerCqeTaken ==
    ASSUME CoreInv, pc \in {"wait", "reap"}, pc' \in {"reap", "events"},
           cq # <<>>, cq' = Tail(cq), NEW h, h = Head(cq), h.op \in WorkerOps,
           UNCHANGED <<task, connections, conn, ssl, sq, kernel, doomed, socket, arrivals,
                       shutdown_started>>,
           stopping' \in BOOLEAN, open' = open \ {h.fd},
           accept_active' \in BOOLEAN, accept_cancel_active' \in BOOLEAN,
           accept_active' <=> AcceptOp \in Pending',
           accept_cancel_active' <=> CancelAccept \in Pending'
    PROVE  CoreInv'
<1>1. /\ cq' \in Seq(Cqes) /\ CqWellFormed' /\ QueuesOk'
      /\ \A op : op # h.op => (op \in Pending' <=> op \in Pending)
      /\ h.op \in Pending
      /\ CqFds' = CqFds \ {h.fd}
      /\ h.fd # NULL => h.fd \in CqFds
      /\ h \in Cqes
  BY CqeTaken
<1>2. \A c \in Fds : \A op \in ConnectionOps(c) : op \in Pending' <=> op \in Pending
  BY <1>1, OperationNames
<1>3. ConnectionsOk' /\ OthersOk'
  BY <1>2, ConnectionsKept
<1>4. TypeOK'
  BY <1>1 DEF CoreInv, TypeOK
<1>5. ListenerOk'
  BY <1>1 DEF CoreInv, ListenerOk
<1>6. TaskOk'
  BY DEF CoreInv, TaskOk
<1>7. DescriptorsOk'
  <2>1. open = connections \cup CqFds /\ connections \cap CqFds = {} /\ connections \subseteq Fds
    BY DEF CoreInv, DescriptorsOk, TypeOK
  <2>2. h.fd \notin connections
    BY <1>1, <2>1, WorkerAssumption
  <2>. QED  BY <1>1, <2>1, <2>2 DEF DescriptorsOk
<1>8. SocketsOk'
  BY DEF CoreInv, SocketsOk
<1>. QED  BY <1>1, <1>3, <1>4, <1>5, <1>6, <1>7, <1>8 DEF CoreInv

\* What an accept CQE leaves of the listener.
LEMMA AcceptCqe ==
    ASSUME CoreInv, cq # <<>>, Head(cq).op[1] = "accept", cq' = Tail(cq),
           UNCHANGED <<sq, kernel, doomed>>
    PROVE  /\ Head(cq).op = AcceptOp /\ Head(cq).op \in WorkerOps
           /\ (accept_active /\ Head(cq).more) \in BOOLEAN
           /\ (accept_active /\ Head(cq).more) <=> AcceptOp \in Pending'
           /\ \A op : op # AcceptOp => (op \in Pending' <=> op \in Pending)
           /\ Head(cq).res # "ok" => AcceptOp \notin Pending'
           /\ EpollKept
<1> DEFINE h == Head(cq)
<1>1. /\ h \in Cqes /\ h.op \in Operations /\ h.op \in Pending
      /\ h.more => h.op = AcceptOp /\ h.res = "ok" /\ h.op \in Pending'
      /\ ~h.more => h.op \notin Pending'
      /\ \A op : op # h.op => (op \in Pending' <=> op \in Pending)
  BY CqeTaken
<1> HIDE DEF h
<1>2. h.op = AcceptOp
  BY <1>1, OperationKinds DEF h
<1>3. accept_active
  BY <1>1, <1>2 DEF CoreInv, ListenerOk
<1>4. h.op \in WorkerOps
  BY <1>2 DEF WorkerOps
<1>5. EpollKept
  BY <1>1, <1>2, OperationNames DEF EpollKept
<1>6. /\ (accept_active /\ h.more) \in BOOLEAN
      /\ (accept_active /\ h.more) <=> AcceptOp \in Pending'
  BY <1>1, <1>2, <1>3
<1>7. h.res # "ok" => AcceptOp \notin Pending'
  BY <1>1, <1>2
<1>. QED  BY <1>1, <1>2, <1>4, <1>5, <1>6, <1>7 DEF h

LEMMA AcceptedWhileStoppingKeeps ==
    ASSUME CoreInv, AcceptedWhileStopping
    PROVE  CoreInv' /\ EpollKept
<1>1. /\ pc \in {"wait", "reap"} /\ pc' = "reap" /\ cq # <<>> /\ cq' = Tail(cq)
      /\ Head(cq).op[1] = "accept"
      /\ UNCHANGED <<task, stopping, connections, conn, ssl, sq, kernel, doomed, socket, arrivals,
                     shutdown_started, accept_cancel_active>>
      /\ open' = open \ {Head(cq).fd}
      /\ accept_active' = (accept_active /\ Head(cq).more)
  BY DEF AcceptedWhileStopping, Completes
<1>2. /\ Head(cq).op \in WorkerOps /\ EpollKept
      /\ accept_active' \in BOOLEAN /\ (accept_active' <=> AcceptOp \in Pending')
      /\ \A op : op # AcceptOp => (op \in Pending' <=> op \in Pending)
  BY <1>1, AcceptCqe
<1>3. /\ accept_cancel_active' \in BOOLEAN /\ stopping' \in BOOLEAN
      /\ accept_cancel_active' <=> CancelAccept \in Pending'
  BY <1>1, <1>2, OperationNames DEF CoreInv, ListenerOk, TypeOK
<1>. QED  BY <1>1, <1>2, <1>3, WorkerCqeTaken

LEMMA AcceptEndedKeeps ==
    ASSUME CoreInv, AcceptEnded
    PROVE  CoreInv' /\ EpollKept
<1>1. /\ pc \in {"wait", "reap"} /\ pc' = "reap" /\ cq # <<>> /\ cq' = Tail(cq)
      /\ Head(cq).op[1] = "accept" /\ Head(cq).res # "ok"
      /\ UNCHANGED <<task, connections, conn, ssl, sq, kernel, doomed, socket, arrivals, open,
                     shutdown_started, accept_cancel_active>>
      /\ accept_active' = FALSE
      /\ stopping' = (stopping \/ Head(cq).res = "error")
  BY DEF AcceptEnded, Completes
<1>2. /\ Head(cq).op \in WorkerOps /\ EpollKept
      /\ AcceptOp \notin Pending'
      /\ \A op : op # AcceptOp => (op \in Pending' <=> op \in Pending)
  BY <1>1, AcceptCqe
<1>3. /\ accept_cancel_active' \in BOOLEAN /\ stopping' \in BOOLEAN
      /\ accept_cancel_active' <=> CancelAccept \in Pending'
      /\ accept_active' \in BOOLEAN /\ (accept_active' <=> AcceptOp \in Pending')
  BY <1>1, <1>2, OperationNames DEF CoreInv, ListenerOk, TypeOK
<1>4. open' = open \ {Head(cq).fd}
  <2>1. Head(cq).fd = NULL
    BY <1>1, CqeTaken
  <2>. QED  BY <1>1, <2>1, WorkerAssumption DEF CoreInv, TypeOK
<1>. QED  BY <1>1, <1>2, <1>3, <1>4, WorkerCqeTaken

LEMMA CancelAcceptCompletedKeeps ==
    ASSUME CoreInv, CancelAcceptCompleted
    PROVE  CoreInv' /\ EpollKept
<1>1. /\ pc \in {"wait", "reap"} /\ pc' = "reap" /\ cq # <<>> /\ cq' = Tail(cq)
      /\ Head(cq).op = CancelAccept
      /\ UNCHANGED <<task, connections, conn, ssl, sq, kernel, doomed, socket, arrivals, open,
                     shutdown_started, accept_active, stopping>>
      /\ accept_cancel_active' = FALSE
  BY DEF CancelAcceptCompleted
<1>2. /\ CancelAccept \notin Pending' /\ Head(cq).fd = NULL
      /\ \A op : op # CancelAccept => (op \in Pending' <=> op \in Pending)
  BY <1>1, CqeTaken, OperationNames
<1>3. /\ accept_cancel_active' \in BOOLEAN /\ stopping' \in BOOLEAN
      /\ accept_cancel_active' <=> CancelAccept \in Pending'
      /\ accept_active' \in BOOLEAN /\ (accept_active' <=> AcceptOp \in Pending')
  BY <1>1, <1>2, OperationNames DEF CoreInv, ListenerOk, TypeOK
<1>4. open' = open \ {Head(cq).fd} /\ Head(cq).op \in WorkerOps
  BY <1>1, <1>2, WorkerAssumption DEF CoreInv, TypeOK, WorkerOps
<1>5. EpollKept
  BY <1>2, OperationNames DEF EpollKept
<1>. QED  BY <1>1, <1>3, <1>4, <1>5, WorkerCqeTaken

\* A new connection has the owner's reference only.
LEMMA NewAccounts ==
    ASSUME NEW c \in Fds, NEW live, \A op \in ConnectionOps(c) : op \notin live
    PROVE  Accounts(c, NewConnection, live, 0)
<1>1. /\ Input(c) \notin live /\ Output(c) \notin live
      /\ CancelInput(c) \notin live /\ CancelOutput(c) \notin live
  BY DEF ConnectionOps
<1>. QED  BY <1>1, FreshTypes DEF Accounts, Count

LEMMA AcceptedConnectionKeeps ==
    ASSUME CoreInv, AcceptedConnection
    PROVE  /\ CoreInv' /\ EpollKept
           /\ Head(cq).fd \in Fds \ connections
           /\ conn' = [conn EXCEPT ![Head(cq).fd] = NewConnection]
<1> DEFINE h == Head(cq)
           c == h.fd
<1>1. /\ pc \in {"wait", "reap"} /\ pc' = "drive" /\ cq # <<>> /\ cq' = Tail(cq)
      /\ h.op[1] = "accept" /\ h.res = "ok"
      /\ UNCHANGED <<stopping, sq, kernel, doomed, socket, arrivals, open,
                     shutdown_started, accept_cancel_active>>
      /\ accept_active' = (accept_active /\ h.more)
      /\ connections' = connections \cup {c}
      /\ conn' = [conn EXCEPT ![c] = NewConnection]
      /\ ssl' = [ssl EXCEPT ![c] = NewSsl]
      /\ task' = Task(c, "accept")
  BY DEF AcceptedConnection, Completes
<1>2. /\ h.op = AcceptOp /\ EpollKept
      /\ accept_active' \in BOOLEAN /\ (accept_active' <=> AcceptOp \in Pending')
      /\ \A op : op # AcceptOp => (op \in Pending' <=> op \in Pending)
  BY <1>1, AcceptCqe
<1>3. /\ cq' \in Seq(Cqes) /\ CqWellFormed' /\ QueuesOk' /\ h \in Cqes
      /\ CqFds' = CqFds \ {c} /\ c # NULL /\ c \in CqFds
  BY <1>1, <1>2, CqeTaken
<1> HIDE DEF h
<1>4. /\ c \in Fds \ connections
      /\ conn \in [Fds -> Connection] /\ ssl \in [Fds -> Ssl] /\ connections \subseteq Fds
  BY <1>3 DEF CoreInv, DescriptorsOk, TypeOK, Cqes
<1> HIDE DEF c
<1>5. task = NoTask
  BY <1>1 DEF CoreInv, TaskOk
<1>6. \A b \in Fds : \A op \in ConnectionOps(b) : op \in Pending' <=> op \in Pending
  BY <1>2, OperationNames DEF WorkerOps
<1>7. \A b \in Fds : Held(b) = 0 /\ Held(b)' = 0
  BY <1>1, <1>5 DEF Held, Count, NoTask, Task
<1>8. /\ conn'[c] = NewConnection /\ ssl'[c] = NewSsl
      /\ \A b \in Fds : b # c => conn'[b] = conn[b] /\ ssl'[b] = ssl[b]
  BY <1>1, <1>4
<1>9. TypeOK'
  <2>1. conn' \in [Fds -> Connection] /\ ssl' \in [Fds -> Ssl]
    BY <1>1, <1>4, FreshTypes
  <2>2. task' \in Tasks
    BY <1>1, <1>4 DEF Task, Tasks
  <2>3. accept_cancel_active' \in BOOLEAN
    BY <1>1 DEF CoreInv, TypeOK
  <2>. QED  BY <1>1, <1>2, <1>3, <1>4, <2>1, <2>2, <2>3 DEF CoreInv, TypeOK
<1>10. ConnectionsOk'
  <2>1. ASSUME NEW b \in connections'
        PROVE  Accounts(b, conn'[b], Pending', Held(b)') /\ conn'[b].references > 0
    <3>1. CASE b = c
      <4>1. \A op \in ConnectionOps(c) : op \notin Pending'
        BY <1>4, <1>6 DEF CoreInv, OthersOk
      <4>2. Accounts(c, NewConnection, Pending', 0)
        BY <1>4, <4>1, NewAccounts
      <4>. QED  BY <1>4, <1>7, <1>8, <3>1, <4>2, FreshTypes
    <3>2. CASE b # c
      <4>1. b \in connections /\ b \in Fds
        BY <1>1, <1>4, <2>1, <3>2
      <4>2. Accounts(b, conn[b], Pending, Held(b)) /\ conn[b].references > 0
        BY <4>1 DEF CoreInv, ConnectionsOk
      <4>3. Accounts(b, conn[b], Pending', Held(b))
        BY <1>6, <4>1, <4>2, AccountsLocal
      <4>. QED  BY <1>7, <1>8, <3>2, <4>1, <4>2, <4>3
    <3>. QED  BY <3>1, <3>2
  <2>. QED  BY <2>1 DEF ConnectionsOk
<1>11. OthersOk'
  BY <1>1, <1>4, <1>6, <1>8 DEF CoreInv, OthersOk, Task
<1>12. ListenerOk'
  <2>1. CancelAccept \in Pending' <=> CancelAccept \in Pending
    BY <1>2, OperationNames
  <2>. QED  BY <1>1, <1>2, <2>1 DEF CoreInv, ListenerOk
<1>13. TaskOk'
  <2>1. task' # NoTask /\ task'.fd = c /\ task'.then = "accept"
    BY <1>1 DEF Task, NoTask
  <2>. QED  BY <1>1, <1>8, <2>1, FreshTypes DEF TaskOk
<1>14. DescriptorsOk'
  BY <1>1, <1>3 DEF CoreInv, DescriptorsOk
<1>15. SocketsOk'
  <2>1. ASSUME NEW b \in Fds
        PROVE  ssl'[b].fetched <= socket[b].arrived
    <3>1. ssl[b].fetched <= socket[b].arrived /\ socket[b].arrived \in Nat
      BY DEF CoreInv, SocketsOk, TypeOK, Socket
    <3>. QED  BY <1>8, <3>1, FreshTypes
  <2>. QED  BY <1>1, <2>1 DEF CoreInv, SocketsOk
<1>16. CoreInv'
  BY <1>3, <1>9, <1>10, <1>11, <1>12, <1>13, <1>14, <1>15 DEF CoreInv
<1>. QED  BY <1>1, <1>2, <1>4, <1>16 DEF c, h

LEMMA ListenKeeps ==
    ASSUME CoreInv, Listen
    PROVE  CoreInv' /\ EpollKept
  BY AcceptedConnectionKeeps, AcceptedWhileStoppingKeeps, AcceptEndedKeeps,
     CancelAcceptCompletedKeeps DEF Listen

-----------------------------------------------------------------------------
(* Steps that leave the outstanding operations as they are.                *)

\* Operations may be submitted, or be found by a cancel, and sockets move.
LEMMA QuietStep ==
    ASSUME CoreInv,
           UNCHANGED <<task, shutdown_started, accept_active, accept_cancel_active,
                       connections, conn, ssl, cq, open, arrivals>>,
           pc' \in {"loop", "wait", "reap", "drive", "events", "exited"},
           pc' = "drive" <=> pc = "drive", stopping' \in BOOLEAN,
           sq' \cap kernel' = {}, sq' \cup kernel' = sq \cup kernel,
           doomed' \subseteq kernel', kernel \subseteq kernel',
           socket' \in [Fds -> Socket], SocketsOk'
    PROVE  CoreInv' /\ EpollKept
<1>1. /\ EndedOps' = EndedOps /\ CqFds' = CqFds /\ MorePending' = MorePending
      /\ CqWellFormed' = CqWellFormed
  BY SameQueue
<1>2. Pending' = Pending
  BY <1>1 DEF Pending
<1>3. ConnectionsOk' /\ OthersOk'
  BY <1>2, ConnectionsKept
<1>4. QueuesOk'
  <2>1. /\ EndedOps \cap (sq \cup kernel) = {}
        /\ MorePending => AcceptOp \in kernel \cup EndedOps
    BY DEF CoreInv, QueuesOk
  <2>2. MorePending' => AcceptOp \in kernel' \cup EndedOps'
    BY <1>1, <2>1
  <2>. QED  BY <1>1, <2>1, <2>2 DEF QueuesOk
<1>5. TypeOK'
  <2>1. sq' \subseteq Operations /\ kernel' \subseteq Operations /\ doomed' \subseteq Operations
    BY DEF CoreInv, TypeOK
  <2>. QED  BY <2>1 DEF CoreInv, TypeOK
<1>6. CqWellFormed' /\ ListenerOk' /\ TaskOk' /\ DescriptorsOk'
  BY <1>1, <1>2 DEF CoreInv, ListenerOk, TaskOk, DescriptorsOk
<1>7. EpollKept
  BY <1>2 DEF EpollKept
<1>. QED  BY <1>3, <1>4, <1>5, <1>6, <1>7 DEF CoreInv

\* The parts of the invariant those steps need.
LEMMA QuietFacts ==
    ASSUME CoreInv
    PROVE  /\ pc \in {"loop", "wait", "reap", "drive", "events", "exited"} /\ stopping \in BOOLEAN
           /\ sq \cap kernel = {} /\ doomed \subseteq kernel
           /\ socket \in [Fds -> Socket] /\ SocketsOk
           /\ socket' = socket /\ ssl' = ssl => SocketsOk'
  BY DEF CoreInv, TypeOK, QueuesOk, SocketsOk

LEMMA MainKeeps ==
    ASSUME CoreInv, NEW draining,
           Submit(draining) \/ SubmitInterrupted(draining) \/ NoCqeLeft \/ Exit(draining)
    PROVE  CoreInv' /\ EpollKept
<1>1. CASE Submit(draining)
  <2>1. sq' \cap kernel' = {} /\ sq' \cup kernel' = sq \cup kernel
        /\ doomed' \subseteq kernel' /\ kernel \subseteq kernel'
    BY <1>1, QuietFacts DEF Submit
  <2>. QED  BY <1>1, <2>1, QuietFacts, QuietStep DEF Submit, listening
<1>2. CASE SubmitInterrupted(draining)
  BY <1>2, QuietFacts, QuietStep DEF SubmitInterrupted, listening
<1>3. CASE NoCqeLeft
  BY <1>3, QuietFacts, QuietStep DEF NoCqeLeft, listening
<1>4. CASE Exit(draining)
  BY <1>4, QuietFacts, QuietStep DEF Exit, listening
<1>. QED  BY <1>1, <1>2, <1>3, <1>4

LEMMA SignalStopKeeps ==
    ASSUME CoreInv, SignalStop
    PROVE  CoreInv' /\ EpollKept
<1>1. /\ pc' \in {"loop", "wait", "reap", "drive", "events", "exited"}
      /\ pc' = "drive" <=> pc = "drive"
  BY QuietFacts DEF SignalStop
<1>. QED  BY <1>1, QuietFacts, QuietStep DEF SignalStop, listening

\* Only the peers' side of a socket moves.
LEMMA SocketStep ==
    ASSUME CoreInv, UNCHANGED <<worker, sq, kernel, doomed, cq, open, arrivals>>,
           NEW c \in Fds, NEW sock \in Socket, socket' = [socket EXCEPT ![c] = sock],
           sock.script = socket[c].script, socket[c].arrived <= sock.arrived,
           sock.arrived <= RecordPieces * Len(sock.script),
           "fragments" \in Environment \/ sock.arrived % RecordPieces = 0
    PROVE  CoreInv' /\ EpollKept
<1>1. socket' \in [Fds -> Socket]
  BY QuietFacts
<1>2. SocketsOk'
  <2>1. ASSUME NEW b \in Fds
        PROVE  /\ ssl[b].fetched <= socket'[b].arrived
               /\ socket'[b].arrived <= RecordPieces * Len(socket'[b].script)
               /\ "fragments" \in Environment \/ socket'[b].arrived % RecordPieces = 0
    <3>1. /\ ssl[b].fetched <= socket[b].arrived
          /\ socket[b].arrived <= RecordPieces * Len(socket[b].script)
          /\ "fragments" \in Environment \/ socket[b].arrived % RecordPieces = 0
      BY QuietFacts DEF SocketsOk
    <3>2. ssl[b].fetched \in Nat /\ socket[b].arrived \in Nat /\ sock.arrived \in Nat
      BY QuietFacts DEF CoreInv, TypeOK, Ssl, Socket
    <3>3. CASE b = c
      <4>1. socket'[b] = sock
        BY <3>3, QuietFacts
      <4>. QED  BY <3>1, <3>2, <3>3, <4>1
    <3>4. CASE b # c
      BY <3>1, <3>4, QuietFacts
    <3>. QED  BY <3>3, <3>4
  <2>. QED  BY <2>1 DEF SocketsOk, worker
<1>. QED  BY <1>1, <1>2, QuietFacts, QuietStep DEF worker

LEMMA PeerSendsKeeps ==
    ASSUME CoreInv, NEW c \in Fds, PeerSends(c)
    PROVE  CoreInv' /\ EpollKept
<1> DEFINE n == socket[c].arrived
           more == IF "fragments" \in Environment THEN 1 ELSE RecordPieces
           sock == [socket[c] EXCEPT !.arrived = n + more]
           size == Len(socket[c].script)
<1>1. socket[c] \in Socket /\ n \in Nat /\ n + more \in Nat
  BY QuietFacts DEF Socket, RecordPieces
<1>2. size \in Nat /\ DOMAIN socket[c].script = 1..size
  <2>1. socket[c].script \in Seq(PeerRecord)
    BY <1>1, WorkerAssumption, EmptySeq DEF Socket
  <2>. QED  BY <2>1, LenProperties
<1>3. n <= 2 * size /\ ("fragments" \in Environment \/ n % 2 = 0)
  BY QuietFacts DEF SocketsOk, RecordPieces
<1>4. n \div 2 + 1 <= size
  BY <1>1, <1>2 DEF PeerSends, NextToSend, RecordPieces
<1>5. socket' = [socket EXCEPT ![c] = sock]
  BY QuietFacts DEF PeerSends
<1> HIDE DEF n, size
<1>6. /\ n + more <= RecordPieces * size
      /\ "fragments" \in Environment \/ (n + more) % RecordPieces = 0
      /\ n <= n + more
  BY <1>1, <1>2, <1>3, <1>4 DEF RecordPieces
<1> HIDE DEF more
<1>7. sock \in Socket /\ sock.arrived = n + more /\ sock.script = socket[c].script
  BY <1>1 DEF Socket
<1> HIDE DEF sock
<1>. QED  BY <1>5, <1>6, <1>7, SocketStep DEF PeerSends, n, size

LEMMA PeerLeavesKeeps ==
    ASSUME CoreInv, NEW c \in Fds, PeerLeaves(c)
    PROVE  CoreInv' /\ EpollKept
<1>1. PICK how \in {"eof", "reset"} : socket' = [socket EXCEPT ![c].behind = how]
  BY DEF PeerLeaves
<1> DEFINE sock == [socket[c] EXCEPT !.behind = how]
<1>2. socket[c] \in Socket /\ socket[c].arrived \in Nat
  BY QuietFacts DEF Socket
<1>3. /\ sock \in Socket /\ sock.arrived = socket[c].arrived /\ sock.script = socket[c].script
  BY <1>1, <1>2 DEF Socket
<1>4. socket' = [socket EXCEPT ![c] = sock]
  BY <1>1, QuietFacts
<1> HIDE DEF sock
<1>5. /\ sock.arrived <= RecordPieces * Len(sock.script)
      /\ "fragments" \in Environment \/ sock.arrived % RecordPieces = 0
      /\ socket[c].arrived <= sock.arrived
  BY <1>2, <1>3, QuietFacts DEF SocketsOk
<1>. QED  BY <1>3, <1>4, <1>5, SocketStep DEF PeerLeaves

LEMMA PeerReadsKeeps ==
    ASSUME CoreInv, NEW c \in Fds, NEW sent \in Nat, PeerReads(c, sent)
    PROVE  CoreInv' /\ EpollKept
<1> DEFINE sock == [socket[c] EXCEPT !.read = sent]
<1>1. socket[c] \in Socket /\ socket[c].arrived \in Nat
  BY QuietFacts DEF Socket
<1>2. sock \in Socket /\ sock.arrived = socket[c].arrived /\ sock.script = socket[c].script
  BY <1>1 DEF Socket
<1>3. socket' = [socket EXCEPT ![c] = sock]
  BY QuietFacts DEF PeerReads
<1> HIDE DEF sock
<1>4. /\ sock.arrived <= RecordPieces * Len(sock.script)
      /\ "fragments" \in Environment \/ sock.arrived % RecordPieces = 0
      /\ socket[c].arrived <= sock.arrived
  BY <1>1, <1>2, QuietFacts DEF SocketsOk
<1>. QED  BY <1>2, <1>3, <1>4, SocketStep DEF PeerReads

-----------------------------------------------------------------------------
(* The kernel completes an operation.                                      *)

LEMMA CqePosted ==
    ASSUME CoreInv, UNCHANGED <<worker, sq>>,
           NEW cqe \in Cqes, cqe.op \in kernel, Post(cqe), EndUnlessMore(cqe.op, cqe.more),
           cqe.more => cqe.op = AcceptOp /\ cqe.res = "ok",
           cqe.fd # NULL <=> cqe.op = AcceptOp /\ cqe.res = "ok",
           cqe.fd \notin open, open' = open \cup ({cqe.fd} \ {NULL}),
           arrivals' \in 0..MaxArrivals, socket' \in [Fds -> Socket], SocketsOk'
    PROVE  CoreInv' /\ EpollKept
<1> DEFINE op == cqe.op
<1>1. UNCHANGED <<pc, task, stopping, shutdown_started, accept_active, accept_cancel_active,
                  connections, conn, ssl, sq>>
  BY DEF worker
<1>2. /\ kernel' = IF cqe.more THEN kernel ELSE kernel \ {op}
      /\ doomed' = IF cqe.more THEN doomed ELSE doomed \ {op}
  BY DEF EndUnlessMore, Terminate
<1>3. /\ sq \cap kernel = {} /\ EndedOps \cap (sq \cup kernel) = {} /\ doomed \subseteq kernel
      /\ MorePending => AcceptOp \in kernel \cup EndedOps
  BY DEF CoreInv, QueuesOk
<1>4. CqFds \subseteq open /\ open = connections \cup CqFds /\ connections \cap CqFds = {}
  BY DEF CoreInv, DescriptorsOk
<1>5. /\ cq' \in Seq(Cqes) /\ CqWellFormed'
      /\ EndedOps' = IF cqe.more THEN EndedOps ELSE EndedOps \cup {op}
      /\ MorePending' <=> MorePending \/ cqe.more
      /\ CqFds' = IF cqe.fd = NULL THEN CqFds ELSE CqFds \cup {cqe.fd}
  <2>1. cqe.fd \notin CqFds /\ cqe.op \notin EndedOps
    BY <1>3, <1>4
  <2>2. cq \in Seq(Cqes) /\ CqWellFormed
    BY DEF CoreInv, TypeOK
  <2>. QED  BY <2>1, <2>2, AppendQueue
<1>6. QueuesOk'
  <2>1. CASE cqe.more
    <3>1. op = AcceptOp /\ AcceptOp \in kernel'
      BY <1>2, <2>1
    <3>. QED  BY <1>1, <1>2, <1>3, <1>5, <2>1, <3>1 DEF QueuesOk
  <2>2. CASE ~cqe.more
    <3>1. sq' \cap kernel' = {} /\ EndedOps' \cap (sq' \cup kernel') = {} /\ doomed' \subseteq kernel'
      BY <1>1, <1>2, <1>3, <1>5, <2>2
    <3>2. MorePending' => AcceptOp \in kernel' \cup EndedOps'
      BY <1>2, <1>3, <1>5, <2>2
    <3>. QED  BY <3>1, <3>2 DEF QueuesOk
  <2>. QED  BY <2>1, <2>2
<1>7. Pending' = Pending
  <2>1. CASE cqe.more
    BY <1>1, <1>2, <1>5, <2>1 DEF Pending
  <2>2. CASE ~cqe.more
    BY <1>1, <1>2, <1>5, <2>2 DEF Pending
  <2>. QED  BY <2>1, <2>2
<1>8. ConnectionsOk' /\ OthersOk'
  BY <1>1, <1>7, ConnectionsKept
<1>9. TypeOK'
  <2>1. kernel' \subseteq Operations /\ doomed' \subseteq Operations /\ open' \subseteq Fds
    BY <1>2 DEF CoreInv, TypeOK, Cqes
  <2>. QED  BY <1>1, <1>5, <2>1 DEF CoreInv, TypeOK
<1>10. ListenerOk' /\ TaskOk'
  BY <1>1, <1>7 DEF CoreInv, ListenerOk, TaskOk
<1>11. DescriptorsOk'
  <2>1. CASE cqe.fd = NULL
    BY <1>1, <1>4, <1>5, <2>1 DEF DescriptorsOk
  <2>2. CASE cqe.fd # NULL
    BY <1>1, <1>4, <1>5, <2>2 DEF DescriptorsOk
  <2>. QED  BY <2>1, <2>2
<1>12. EpollKept
  BY <1>7 DEF EpollKept
<1>. QED  BY <1>5, <1>6, <1>8, <1>9, <1>10, <1>11, <1>12 DEF CoreInv

\* A CQE that ends an operation and hands over no descriptor.
LEMMA LastCqePosted ==
    ASSUME CoreInv, NEW op \in kernel, NEW res \in {"ok", "eof", "error", "canceled"},
           op # AcceptOp \/ res # "ok", Completed(Cqe(op, res, FALSE)), UNCHANGED socket
    PROVE  CoreInv' /\ EpollKept
<1> DEFINE cqe == Cqe(op, res, FALSE)
<1>1. /\ cqe \in Cqes /\ cqe.op = op /\ cqe.res = res /\ ~cqe.more /\ cqe.fd = NULL
  BY DEF Cqe, Cqes, CoreInv, TypeOK
<1> HIDE DEF cqe
<1>2. /\ UNCHANGED <<worker, sq, open, arrivals>> /\ Post(cqe) /\ EndUnlessMore(cqe.op, cqe.more)
  BY DEF Completed, cqe
<1>3. /\ NULL \notin open /\ arrivals' \in 0..MaxArrivals /\ open' = open \cup ({cqe.fd} \ {NULL})
  BY <1>1, <1>2, WorkerAssumption DEF CoreInv, TypeOK
<1>4. socket' \in [Fds -> Socket] /\ SocketsOk'
  BY <1>2, QuietFacts DEF worker
<1>. QED  BY <1>1, <1>2, <1>3, <1>4, CqePosted

LEMMA KernelAcceptsKeeps ==
    ASSUME CoreInv, NEW c \in Fds, KernelAccepts(c)
    PROVE  CoreInv' /\ EpollKept
<1>1. PICK more \in MayContinue, script \in Scripts :
          /\ Post([Cqe(AcceptOp, "ok", more) EXCEPT !.fd = c])
          /\ EndUnlessMore(AcceptOp, more)
          /\ socket' = [socket EXCEPT ![c] = [NoSocket EXCEPT !.script = script]]
  BY DEF KernelAccepts
<1> DEFINE cqe == [Cqe(AcceptOp, "ok", more) EXCEPT !.fd = c]
           sock == [NoSocket EXCEPT !.script = script]
<1>2. more \in BOOLEAN
  BY DEF MayContinue
<1>3. /\ cqe \in Cqes /\ cqe.op = AcceptOp /\ cqe.res = "ok" /\ cqe.more = more /\ cqe.fd = c
  BY <1>2, OperationNames DEF Cqe, Cqes, WorkerOps
<1>4. /\ Post(cqe) /\ EndUnlessMore(cqe.op, cqe.more) /\ socket' = [socket EXCEPT ![c] = sock]
  BY <1>1, <1>3
<1>5. /\ sock \in Socket /\ sock.arrived = 0 /\ sock.script = script
      /\ Len(script) \in Nat
  BY WorkerAssumption, LenProperties DEF NoSocket, Socket
<1> HIDE DEF cqe, sock
<1>6. /\ AcceptOp \in kernel /\ c \notin open /\ open' = open \cup {c} /\ c # NULL
      /\ UNCHANGED <<worker, sq>>
  BY WorkerAssumption DEF KernelAccepts
<1>7. arrivals' \in 0..MaxArrivals
  BY WorkerAssumption DEF KernelAccepts, CoreInv, TypeOK
<1>8. socket' \in [Fds -> Socket]
  BY <1>4, <1>5, QuietFacts
<1>9. SocketsOk'
  <2>1. ASSUME NEW b \in Fds
        PROVE  /\ ssl[b].fetched <= socket'[b].arrived
               /\ socket'[b].arrived <= RecordPieces * Len(socket'[b].script)
               /\ "fragments" \in Environment \/ socket'[b].arrived % RecordPieces = 0
    <3>1. CASE b = c
      <4>1. c \notin connections
        BY <1>6 DEF CoreInv, DescriptorsOk
      <4>2. ssl[b].fetched = 0
        BY <3>1, <4>1, FreshTypes DEF CoreInv, OthersOk
      <4>3. socket'[b] = sock
        BY <1>4, <3>1, QuietFacts
      <4>. QED  BY <1>5, <4>2, <4>3 DEF RecordPieces
    <3>2. CASE b # c
      <4>1. socket'[b] = socket[b]
        BY <1>4, <3>2, QuietFacts
      <4>. QED  BY <4>1, QuietFacts DEF SocketsOk
    <3>. QED  BY <3>1, <3>2
  <2>. QED  BY <1>6, <2>1 DEF SocketsOk, worker
<1>. QED  BY <1>3, <1>4, <1>6, <1>7, <1>8, <1>9, CqePosted

LEMMA KernelFailsKeeps ==
    ASSUME CoreInv, KernelAcceptFails \/ \E op \in Operations : KernelFails(op)
    PROVE  CoreInv' /\ EpollKept
<1>1. CASE KernelAcceptFails
  BY <1>1, LastCqePosted DEF KernelAcceptFails
<1>2. ASSUME NEW op \in Operations, KernelFails(op)
      PROVE  CoreInv' /\ EpollKept
  BY <1>2, LastCqePosted DEF KernelFails
<1>. QED  BY <1>1, <1>2

LEMMA CancelStepsKeep ==
    ASSUME CoreInv, CancelSteps
    PROVE  CoreInv' /\ EpollKept
<1>1. PICK op \in Operations : KernelFindsTarget(op) \/ KernelEndsTarget(op) \/ KernelCancels(op)
  BY DEF CancelSteps
<1>2. CASE KernelFindsTarget(op)
  <2>1. doomed' \subseteq kernel' /\ kernel' = kernel
    BY <1>2, QuietFacts DEF KernelFindsTarget
  <2>. QED  BY <1>2, <2>1, QuietFacts, QuietStep DEF KernelFindsTarget, worker
<1>3. CASE KernelEndsTarget(op)
  <2>1. op \in kernel
    BY <1>3, QuietFacts DEF KernelEndsTarget
  <2>. QED  BY <1>3, <2>1, LastCqePosted DEF KernelEndsTarget
<1>4. CASE KernelCancels(op)
  <2>1. op \in kernel /\ op # AcceptOp
    <3>1. op \in Cancels /\ op \in kernel
      BY <1>4 DEF KernelCancels
    <3>2. op[1] # "accept"
      BY <3>1 DEF Cancels, Target, CancelInput, CancelOutput, CancelAccept, CancelEpoll
    <3>. QED  BY <3>1, <3>2, OperationKinds
  <2>. QED  BY <1>4, <2>1, LastCqePosted DEF KernelCancels
<1>. QED  BY <1>1, <1>2, <1>3, <1>4

\* The listener is armed as it was.
LEMMA AcceptKept ==
    ASSUME CoreInv, NEW c \in connections, QueueKept(c), NEW e, Prepares(e, ConnectionOps(c))
    PROVE  /\ accept_active \in BOOLEAN
           /\ accept_active <=> AcceptOp \in Live(e, EndedOps')
<1>1. AcceptOp \notin ConnectionOps(c)
  BY OperationNames DEF CoreInv, TypeOK, WorkerOps
<1>2. AcceptOp \in Live(e, EndedOps') <=> AcceptOp \in Pending
  BY <1>1 DEF Live, Pending, QueueKept, Prepares
<1>. QED  BY <1>2 DEF CoreInv, ListenerOk, TypeOK

-----------------------------------------------------------------------------
(* Completions of a connection's operations.                               *)

\* A reference whose operation has ended is the completion's to release.
LEMMA AccountsEnded ==
    ASSUME NEW c \in Fds, NEW k, NEW l, NEW live, NEW op \in ConnectionOps(c), op \in live,
           Accounts(c, k, live, 0), InBounds(l),
           l.references = k.references, l.dead = k.dead,
           l.input_active <=> k.input_active /\ op # Input(c),
           l.output_active <=> k.output_active /\ op # Output(c),
           l.input_cancelled = k.input_cancelled, l.output_cancelled = k.output_cancelled
    PROVE  Accounts(c, l, live \ {op}, 1)
<1> DEFINE rest == live \ {op}
<1>1. /\ Input(c) # Output(c) /\ Input(c) # CancelInput(c) /\ Input(c) # CancelOutput(c)
      /\ Output(c) # CancelInput(c) /\ Output(c) # CancelOutput(c)
      /\ CancelInput(c) # CancelOutput(c)
  BY OperationNames
<1>2. \A p : p \in rest <=> p \in live /\ p # op
  OBVIOUS
<1> HIDE DEF rest
<1>3. op \in {Input(c), Output(c), CancelInput(c), CancelOutput(c)}
  BY DEF ConnectionOps
<1>4. l.references = Count(~l.dead) + 1
                     + Count(Input(c) \in rest) + Count(Output(c) \in rest)
                     + Count(CancelInput(c) \in rest) + Count(CancelOutput(c) \in rest)
  BY <1>1, <1>2, <1>3 DEF Accounts, Count
<1>5. /\ l.input_active <=> Input(c) \in rest
      /\ l.output_active <=> Output(c) \in rest
      /\ CancelInput(c) \in rest => l.input_cancelled
      /\ CancelOutput(c) \in rest => l.output_cancelled
      /\ l.input_cancelled \/ l.output_cancelled => l.dead
  BY <1>2 DEF Accounts
<1>6. Accounts(c, l, rest, 1)
  BY <1>4, <1>5 DEF Accounts
<1>. QED  BY <1>6 DEF rest

\* The last CQE of an operation of c is taken, and d is what complete() makes
\* of c before it goes on.
LEMMA ConnectionCqe ==
    ASSUME CoreInv, pc \in {"wait", "reap"}, cq # <<>>, cq' = Tail(cq),
           NEW c \in Fds, Head(cq).op \in ConnectionOps(c)
    PROVE  /\ c \in connections /\ task = NoTask /\ Held(c) = 0
           /\ QueueKept(c) /\ Head(cq).op \in Pending
           /\ Accounts(c, conn[c], Pending, 0) /\ conn[c].references > 0
           /\ \A d : d.sq = sq /\ d.kernel = kernel => Live(d, EndedOps') = Pending \ {Head(cq).op}
           /\ \A d : Queues(d, EndedOps) => Queues(d, EndedOps')
<1> DEFINE h == Head(cq)
<1>1. cq \in Seq(Cqes) /\ CqWellFormed
  BY DEF CoreInv, TypeOK
<1>2. h.op # AcceptOp
  BY OperationNames DEF WorkerOps
<1>3. /\ cq' \in Seq(Cqes) /\ CqWellFormed' /\ ~h.more /\ h.fd = NULL
      /\ h.op \in EndedOps /\ EndedOps' = EndedOps \ {h.op}
      /\ MorePending' => MorePending
      /\ CqFds' = CqFds \ {h.fd}
  BY <1>1, <1>2, TailQueue
<1>4. h.op \in ConnectionOps(c)
  OBVIOUS
<1> HIDE DEF h
<1>5. h.op \in Pending /\ h.op \notin sq \cup kernel
  BY <1>3 DEF Pending, CoreInv, QueuesOk
<1>6. c \in connections
  BY <1>4, <1>5 DEF CoreInv, OthersOk
<1>7. task = NoTask
  BY DEF CoreInv, TaskOk
<1>8. Held(c) = 0
  BY <1>7 DEF Held, Count, NoTask, Task
<1>9. Accounts(c, conn[c], Pending, 0) /\ conn[c].references > 0
  BY <1>6, <1>8 DEF CoreInv, ConnectionsOk
<1>10. QueueKept(c)
  <2>1. CqFds' = CqFds
    BY <1>3 DEF CqFds
  <2>. QED  BY <1>3, <1>4, <2>1 DEF QueueKept
<1>11. ASSUME NEW d, d.sq = sq, d.kernel = kernel
       PROVE  Live(d, EndedOps') = Pending \ {h.op}
  BY <1>3, <1>5, <1>11 DEF Live, Pending
<1>12. \A d : Queues(d, EndedOps) => Queues(d, EndedOps')
  BY <1>3 DEF Queues
<1>. QED  BY <1>5, <1>6, <1>7, <1>8, <1>9, <1>10, <1>11, <1>12 DEF h

\* A completion that ends with release(c), or calls drive(c).
LEMMA ConcludesKeeps ==
    ASSUME CoreInv, pc \in {"wait", "reap"}, NEW c \in connections, QueueKept(c), ShutdownUnchanged,
           NEW e, Good(e, EndedOps', 0), e.fd = c, Prepares(e, ConnectionOps(c)),
           e.s.fetched <= socket[c].arrived,
           Concludes(e)
    PROVE  CoreInv' /\ EpollKept
<1>1. task = NoTask /\ UNCHANGED <<task, stopping, accept_active>> /\ pc' = "reap" /\ Store(e)
  BY DEF CoreInv, TaskOk, Concludes
<1>2. Held(c)' = 0
  BY <1>1 DEF Held, Count, NoTask, Task
<1>3. TaskMoves(c, e)
  BY <1>1 DEF TaskMoves, CoreInv, TypeOK, NoTask, Task
<1>4. accept_active' \in BOOLEAN /\ (accept_active' <=> AcceptOp \in Live(e, EndedOps'))
  BY <1>1, AcceptKept
<1>5. Prepares(e, ConnectionOps(c) \cup {AcceptOp})
  BY DEF Prepares
<1>. QED  BY <1>1, <1>2, <1>3, <1>4, <1>5, StoreKeeps

LEMMA DrivesKeeps ==
    ASSUME CoreInv, pc \in {"wait", "reap"}, NEW c \in connections, QueueKept(c), ShutdownUnchanged,
           NEW e, Good(e, EndedOps', 1), e.fd = c, Prepares(e, ConnectionOps(c)),
           e.s.fetched <= socket[c].arrived, ~e.k.dead,
           Drives(e, "release")
    PROVE  CoreInv' /\ EpollKept
<1>1. /\ task = NoTask /\ task' = Task(c, "release") /\ pc' = "drive" /\ Store(e)
      /\ UNCHANGED <<stopping, accept_active>>
  BY DEF CoreInv, TaskOk, Drives
<1>2. c \in Fds /\ c # NULL
  BY WorkerAssumption DEF CoreInv, TypeOK
<1>3. Held(c)' = 1
  BY <1>1 DEF Held, Count
<1>4. e.k.references > 0
  BY DEF Good, Accounts, Count
<1>5. TaskMoves(c, e)
  BY <1>1, <1>2, <1>4 DEF TaskMoves, CoreInv, TypeOK, NoTask, Task, Tasks
<1>6. accept_active' \in BOOLEAN /\ (accept_active' <=> AcceptOp \in Live(e, EndedOps'))
  BY <1>1, AcceptKept
<1>7. Prepares(e, ConnectionOps(c) \cup {AcceptOp})
  BY DEF Prepares
<1>. QED  BY <1>1, <1>3, <1>5, <1>6, <1>7, StoreKeeps

LEMMA CancelCompletedKeeps ==
    ASSUME CoreInv, NEW c \in Fds, CancelCompleted(c)
    PROVE  /\ CoreInv' /\ EpollKept
           /\ c \in connections /\ conn[c].dead
           /\ Store(Release(Context(c)))
<1> DEFINE h == Head(cq)
           d == Context(c)
           e == Release(d)
<1>1. /\ pc \in {"wait", "reap"} /\ cq # <<>> /\ cq' = Tail(cq)
      /\ h.op[1] \in {"cancel_input", "cancel_output"} /\ h.op[2] = c
      /\ ShutdownUnchanged /\ Concludes(e)
  BY DEF CancelCompleted, Completes, ShutdownUnchanged
<1>2. h.op \in {CancelInput(c), CancelOutput(c)}
  BY <1>1, OldestCqe, OperationKinds DEF CoreInv, TypeOK
<1>3. h.op \in ConnectionOps(c) /\ h.op # Input(c) /\ h.op # Output(c)
  BY <1>2, OperationNames DEF ConnectionOps
<1>4. /\ c \in connections /\ Held(c) = 0 /\ QueueKept(c) /\ h.op \in Pending
      /\ Accounts(c, conn[c], Pending, 0)
      /\ \A f : f.sq = sq /\ f.kernel = kernel => Live(f, EndedOps') = Pending \ {h.op}
      /\ \A f : Queues(f, EndedOps) => Queues(f, EndedOps')
  BY <1>1, <1>3, ConnectionCqe
<1> HIDE DEF h
<1>5. /\ d.fd = c /\ d.k = conn[c] /\ d.s = ssl[c] /\ d.sq = sq /\ d.kernel = kernel
      /\ Queues(d, EndedOps)
  BY <1>4, ContextGood DEF Good
<1> HIDE DEF d
<1>6. Accounts(c, conn[c], Pending \ {h.op}, 1)
  BY <1>3, <1>4, AccountsEnded DEF Accounts
<1>7. Good(d, EndedOps', 0 + 1)
  BY <1>4, <1>5, <1>6 DEF Good
<1>8. /\ Good(e, EndedOps', 0) /\ e.sq = d.sq /\ e.kernel = d.kernel /\ e.fd = c /\ e.s = d.s
  BY <1>5, <1>7, ReleaseGood DEF Grows
<1> HIDE DEF e
<1>9. Prepares(e, ConnectionOps(c)) /\ e.s.fetched <= socket[c].arrived
  BY <1>5, <1>8 DEF Prepares, CoreInv, SocketsOk
<1>10. CoreInv' /\ EpollKept
  BY <1>1, <1>4, <1>8, <1>9, ConcludesKeeps
<1>11. conn[c].dead
  BY <1>2, <1>4 DEF Accounts
<1>. QED  BY <1>1, <1>4, <1>10, <1>11 DEF Concludes, e, d

-----------------------------------------------------------------------------
(* drive().                                                                *)

\* One iteration from any good context.
LEMMA TurnFrom ==
    ASSUME NEW d, NEW ended, NEW held \in Nat, Good(d, ended, held), d.k.phase # "draining",
           NEW bios, BiosOk(bios), d.s.fetched <= bios.available,
           NEW i, i = Iteration(d, bios)
    PROVE  /\ TurnResult(d, bios, i)
           /\ Good(i.d, ended, held) /\ i.d.fd = d.fd
           /\ i.d.sq = d.sq /\ i.d.kernel = d.kernel
           /\ i.performed = ParseInput(d.k).phase
<1>1. /\ d = [fd |-> d.fd, k |-> d.k, s |-> d.s, sq |-> d.sq, kernel |-> d.kernel]
      /\ InBounds(d.k) /\ d.s \in Ssl
  BY DEF Good, Queues, Accounts, Contexts
<1>2. TurnResult(d, bios, i) /\ i.performed = ParseInput(d.k).phase
  BY <1>1, IterationResult
<1> DEFINE k == i.d.k
           s == i.d.s
           f == [d EXCEPT !.s = s, !.k = k]
<1>3. /\ i.d = f /\ s \in Ssl /\ s.fetched <= bios.available
      /\ InBounds(k) /\ SameAccounts(d.k, k)
  BY <1>2 DEF TurnResult
<1> HIDE DEF k, s
<1>4. /\ f \in Contexts /\ f.fd = d.fd /\ f.k = k /\ f.s = s /\ f.sq = d.sq /\ f.kernel = d.kernel
  BY <1>3 DEF Contexts, InBounds, Good, Queues
<1> HIDE DEF f
<1>5. Accounts(d.fd, k, Live(d, ended), held)
  BY <1>3, AccountsSame DEF Good
<1>6. Good(f, ended, held)
  BY <1>4, <1>5 DEF Good, Queues, Live
<1>. QED  BY <1>2, <1>3, <1>4, <1>6

\* One iteration for a connection that is driven.
LEMMA TurnGood ==
    ASSUME CoreInv, NEW c \in Fds, Driving(c), conn[c].phase # "draining",
           NEW bios, BiosOk(bios), ssl[c].fetched <= bios.available,
           NEW i, i = Iteration(Context(c), bios)
    PROVE  /\ c \in connections /\ TurnResult(Context(c), bios, i)
           /\ Good(i.d, EndedOps, Held(c)) /\ i.d.fd = c /\ ~i.d.k.dead
           /\ i.d.sq = sq /\ i.d.kernel = kernel /\ i.d.k.references > 0
           /\ i.d.s.fetched <= bios.available
           /\ SameAccounts(conn[c], i.d.k) /\ InBounds(i.d.k) /\ i.d.s \in Ssl
           /\ i.performed = ParseInput(conn[c]).phase
<1> DEFINE d == Context(c)
<1>1. c \in connections /\ ~conn[c].dead /\ Held(c) \in Nat
  BY DEF Driving, CoreInv, TaskOk, Held, Count
<1>2. /\ d.fd = c /\ d.k = conn[c] /\ d.s = ssl[c] /\ d.sq = sq /\ d.kernel = kernel
      /\ Good(d, EndedOps, Held(c))
  BY <1>1, ContextGood
<1> HIDE DEF d
<1>3. /\ TurnResult(d, bios, i)
      /\ Good(i.d, EndedOps, Held(c)) /\ i.d.fd = d.fd
      /\ i.d.sq = d.sq /\ i.d.kernel = d.kernel
      /\ i.performed = ParseInput(d.k).phase
  BY <1>1, <1>2, TurnFrom DEF d
<1>4. ~i.d.k.dead /\ i.d.k.references > 0
  BY <1>1, <1>2, <1>3 DEF TurnResult, SameAccounts, CoreInv, ConnectionsOk
<1>. QED  BY <1>1, <1>2, <1>3, <1>4 DEF d, TurnResult

DriveUnchanged ==
    UNCHANGED <<stopping, shutdown_started, accept_cancel_active, doomed, cq, arrivals, socket>>

LEMMA SameQueueKept ==
    ASSUME CoreInv, cq' = cq, NEW c
    PROVE  QueueKept(c) /\ EndedOps' = EndedOps
<1>1. /\ EndedOps' = EndedOps /\ CqFds' = CqFds /\ MorePending' = MorePending
      /\ CqWellFormed' = CqWellFormed
  BY SameQueue
<1>. QED  BY <1>1 DEF QueueKept, CoreInv, TypeOK

LEMMA ContinueKeeps ==
    ASSUME CoreInv, NEW c \in Fds, Driving(c), DriveUnchanged,
           NEW e, Good(e, EndedOps, Held(c)), e.fd = c, ~e.k.dead, e.k.references > 0,
           Prepares(e, ConnectionOps(c)), e.s.fetched <= socket[c].arrived,
           Continue(e)
    PROVE  CoreInv' /\ EpollKept
<1>1. c \in connections /\ pc = "drive" /\ task.fd = c /\ task.then # "none" /\ task # NoTask
  BY DEF Driving, CoreInv, TaskOk
<1>2. Store(e) /\ UNCHANGED <<pc, task, accept_active>>
  BY DEF Continue
<1>3. QueueKept(c) /\ EndedOps' = EndedOps
  BY SameQueueKept DEF DriveUnchanged
<1>4. Held(c)' = Held(c)
  BY <1>2 DEF Held
<1>5. TaskMoves(c, e)
  BY <1>1, <1>2 DEF TaskMoves, CoreInv, TypeOK, DriveUnchanged
<1>6. Prepares(e, ConnectionOps(c) \cup {AcceptOp})
  BY DEF Prepares
<1>7. accept_active' \in BOOLEAN /\ (accept_active' <=> AcceptOp \in Live(e, EndedOps'))
  BY <1>1, <1>2, <1>3, <1>6, AcceptKept
<1>8. ShutdownUnchanged
  BY DEF DriveUnchanged, ShutdownUnchanged
<1>. QED  BY <1>1, <1>2, <1>3, <1>4, <1>5, <1>6, <1>7, <1>8, StoreKeeps

\* What drive() leaves is stored, less the reference that is released.
LEMMA LeaveKeeps ==
    ASSUME CoreInv, NEW c \in Fds, Driving(c), DriveUnchanged,
           NEW d, Good(d, EndedOps, Held(c)), d.fd = c,
           Prepares(d, ConnectionOps(c)), d.s.fetched <= socket[c].arrived,
           Leave(d)
    PROVE  /\ CoreInv' /\ EpollKept /\ c \in connections
           /\ \E e : /\ Store(e) /\ e.fd = c /\ e.s = d.s
                     /\ e.k \in {d.k, Released(d.k)}
                     /\ task.then # "release" => e.k = d.k
                     /\ ~d.k.dead => e.k.references > 0
<1>1. /\ c \in connections /\ pc = "drive" /\ task.fd = c /\ task.then # "none"
      /\ task \in Tasks /\ task = Task(c, task.then) /\ stopping \in BOOLEAN
      /\ accept_active \in BOOLEAN
  BY DEF Driving, CoreInv, TaskOk, TypeOK, Tasks, Task
<1>2. /\ QueueKept(c) /\ EndedOps' = EndedOps /\ ShutdownUnchanged
  BY SameQueueKept DEF DriveUnchanged, ShutdownUnchanged
<1>3. /\ task' = NoTask /\ pc' \in {"events", "reap"} /\ stopping' = stopping
  BY DEF Leave, DriveUnchanged
<1>4. Held(c)' = 0
  BY <1>3 DEF Held, Count, NoTask, Task
<1>5. ASSUME NEW e PROVE TaskMoves(c, e)
  BY <1>1, <1>3 DEF TaskMoves, NoTask, Task, Tasks
<1>6. AcceptOp \in Live(d, EndedOps) <=> accept_active
  BY <1>1, <1>2, AcceptKept
<1> DEFINE rearm == task.then = "accept" /\ ~accept_active /\ ~stopping
<1>7. accept_active' = (accept_active \/ rearm)
  BY DEF Leave
<1>8. CASE task.then = "release"
  <2> DEFINE e == Release(d)
  <2>1. Held(c) = 1
    BY <1>1, <1>8 DEF Held, Count
  <2>2. /\ Good(e, EndedOps, 0) /\ Grows(d, e, EndedOps, {}) /\ e.k = Released(d.k)
        /\ e.sq = d.sq /\ e.kernel = d.kernel /\ e.k.dead = d.k.dead
    <3>1. Good(d, EndedOps, 0 + 1)
      BY <2>1
    <3>. QED  BY <3>1, ReleaseGood
  <2>3. Store(e) /\ (accept_active' <=> accept_active) /\ accept_active' \in BOOLEAN
    BY <1>1, <1>8, <1>7 DEF Leave
  <2> HIDE DEF e
  <2>4. e.fd = c /\ e.s = d.s /\ Live(e, EndedOps) = Live(d, EndedOps)
    BY <2>2 DEF Grows, Live
  <2>5. Prepares(e, ConnectionOps(c) \cup {AcceptOp})
    BY <2>2 DEF Prepares
  <2>6. accept_active' <=> AcceptOp \in Live(e, EndedOps')
    BY <1>2, <1>6, <2>3, <2>4
  <2>7. CoreInv' /\ EpollKept
    BY <1>1, <1>2, <1>4, <1>5, <2>2, <2>3, <2>4, <2>5, <2>6, StoreKeeps
  <2>8. ~d.k.dead => e.k.references > 0
    BY <2>2 DEF Good, Accounts, Count
  <2>. QED  BY <1>1, <1>8, <2>2, <2>3, <2>4, <2>7, <2>8
<1>9. CASE task.then # "release"
  <2>1. Held(c) = 0
    BY <1>1, <1>9 DEF Held, Count, Task
  <2>2. ~d.k.dead => d.k.references > 0
    BY <2>1 DEF Good, Accounts, Count
  <2>3. CASE rearm
    <3> DEFINE e == GetSqe(d, AcceptOp)
    <3>1. AcceptOp \notin Live(d, EndedOps) /\ AcceptOp \in Operations
      BY <1>6, <2>3, OperationNames DEF WorkerOps
    <3>2. /\ Queues(e, EndedOps) /\ e.fd = d.fd /\ e.k = d.k /\ e.s = d.s
          /\ d.kernel \subseteq e.kernel
          /\ e.sq \cup e.kernel = (d.sq \cup d.kernel) \cup {AcceptOp}
      BY <3>1, GetSqeAdds DEF Good
    <3>3. Store(e)
      BY <2>3 DEF Leave
    <3>4. accept_active'
      BY <1>7, <2>3
    <3> HIDE DEF e
    <3>5. Prepares(e, ConnectionOps(c) \cup {AcceptOp})
      BY <3>2 DEF Prepares
    <3>6. Live(e, EndedOps) = Live(d, EndedOps) \cup {AcceptOp}
      BY <3>2 DEF Live
    <3>7. \A op \in ConnectionOps(c) : op \in Live(e, EndedOps) <=> op \in Live(d, EndedOps)
      BY <3>6, OperationNames DEF WorkerOps
    <3>8. Accounts(c, d.k, Live(e, EndedOps), 0)
      BY <2>1, <3>7, AccountsLocal DEF Good
    <3>9. Good(e, EndedOps, 0)
      BY <3>2, <3>8 DEF Good
    <3>10. accept_active' \in BOOLEAN /\ (accept_active' <=> AcceptOp \in Live(e, EndedOps'))
      BY <1>1, <1>2, <1>7, <3>4, <3>6
    <3>11. CoreInv' /\ EpollKept
      BY <1>1, <1>2, <1>4, <1>5, <3>2, <3>3, <3>5, <3>9, <3>10, StoreKeeps
    <3>. QED  BY <1>1, <1>9, <2>2, <3>2, <3>3, <3>11
  <2>4. CASE ~rearm
    <3>1. Store(d)
      BY <1>1, <1>9, <2>4 DEF Leave, Tasks
    <3>2. (accept_active' <=> accept_active) /\ accept_active' \in BOOLEAN
      BY <1>1, <1>7, <2>4
    <3>3. Prepares(d, ConnectionOps(c) \cup {AcceptOp})
      BY DEF Prepares
    <3>4. accept_active' <=> AcceptOp \in Live(d, EndedOps')
      BY <1>2, <1>6, <3>2
    <3>5. CoreInv' /\ EpollKept
      BY <1>1, <1>2, <1>4, <1>5, <2>1, <3>1, <3>2, <3>3, <3>4, StoreKeeps
    <3>. QED  BY <1>1, <1>9, <2>2, <3>1, <3>5
  <2>. QED  BY <2>3, <2>4
<1>. QED  BY <1>8, <1>9

LEMMA EmptyQueue ==
    ASSUME cq = <<>>
    PROVE  /\ EndedOps = {} /\ CqFds = {} /\ ~MorePending /\ CqWellFormed
           /\ cq \in Seq(Cqes)
<1>1. DOMAIN cq = {}
  OBVIOUS
<1>2. cq \in Seq(Cqes)
  BY EmptySeq
<1>. QED  BY <1>1, <1>2 DEF EndedOps, Ended, CqFds, MorePending, CqWellFormed

\* The invariant holds initially, whichever polls are prepared with the accept.
LEMMA CoreInit ==
    ASSUME pc = "loop", task = NoTask, stopping = FALSE, shutdown_started = FALSE,
           accept_active = TRUE, accept_cancel_active = FALSE,
           connections = {}, conn = [c \in Fds |-> Freed], ssl = [c \in Fds |-> NewSsl],
           sq \in {{AcceptOp}, {AcceptOp, EpollOp}}, kernel = {}, doomed = {}, cq = <<>>,
           open = {}, arrivals = 0, socket = [c \in Fds |-> NoSocket]
    PROVE  CoreInv /\ Pending = sq
<1>1. EndedOps = {} /\ CqFds = {} /\ ~MorePending /\ CqWellFormed /\ cq \in Seq(Cqes)
  BY EmptyQueue
<1>2. Pending = sq
  BY <1>1 DEF Pending
<1>3. NoSocket \in Socket /\ NoSocket.arrived = 0 /\ Len(NoSocket.script) = 0
  BY DEF NoSocket, Socket
<1>4. TypeOK
  <2>1. sq \subseteq Operations
    BY OperationNames DEF WorkerOps
  <2>2. task \in Tasks
    BY DEF NoTask, Task, Tasks
  <2>3. conn \in [Fds -> Connection] /\ ssl \in [Fds -> Ssl] /\ socket \in [Fds -> Socket]
    BY <1>3, FreshTypes
  <2>4. arrivals \in 0..MaxArrivals
    BY WorkerAssumption
  <2>. QED  BY <1>1, <2>1, <2>2, <2>3, <2>4 DEF TypeOK
<1>5. QueuesOk
  BY <1>1 DEF QueuesOk
<1>6. ConnectionsOk
  BY DEF ConnectionsOk
<1>7. OthersOk
  <2>1. \A c \in Fds : \A op \in ConnectionOps(c) : op \notin Pending
    BY <1>2, OperationNames DEF WorkerOps
  <2>. QED  BY <2>1, WorkerAssumption DEF OthersOk, NoTask, Task
<1>8. ListenerOk
  BY <1>2, OperationNames DEF ListenerOk
<1>9. TaskOk /\ DescriptorsOk
  BY <1>1 DEF TaskOk, DescriptorsOk
<1>10. SocketsOk
  BY <1>3, FreshTypes DEF SocketsOk, RecordPieces
<1>. QED  BY <1>1, <1>2, <1>4, <1>5, <1>6, <1>7, <1>8, <1>9, <1>10 DEF CoreInv

-----------------------------------------------------------------------------
(* The shutdown: every connection is finished in one iteration of main.    *)

\* A connection that is finished: its cancels are new, and all of it is in
\* agreement once they are outstanding as well.
LEMMA FinishedGood ==
    ASSUME CoreInv, pc = "loop", NEW c \in connections
    PROVE  LET e == Finished(c)
           IN /\ Accounts(c, e.k, Pending \cup e.sq \cup e.kernel, 0)
              /\ e.k.dead /\ e.s = ssl[c] /\ e.k.references \in Nat
              /\ e.k.staged = conn[c].staged
              /\ e.sq \cup e.kernel \subseteq ConnectionOps(c) \ Pending
<1> DEFINE d == [Context(c) EXCEPT !.sq = {}, !.kernel = {}]
           e == Finish(d)
<1>1. /\ c \in Fds /\ Context(c).fd = c /\ Context(c).k = conn[c] /\ Context(c).s = ssl[c]
      /\ Context(c) \in Contexts
  BY ContextGood
<1>2. /\ d \in Contexts /\ d.fd = c /\ d.k = conn[c] /\ d.s = ssl[c]
      /\ d.sq = {} /\ d.kernel = {}
  BY <1>1 DEF Contexts
<1>3. Finished(c) = e
  BY DEF Finished
<1> HIDE DEF d
<1>4. Held(c) = 0
  BY DEF CoreInv, TaskOk, Held, Count, NoTask, Task
<1>5. Live(d, Pending) = Pending /\ Queues(d, Pending)
  BY <1>2 DEF Live, Queues
<1>6. Good(d, Pending, 0)
  BY <1>2, <1>4, <1>5 DEF CoreInv, ConnectionsOk, Good
<1>7. /\ Good(e, Pending, 0) /\ Grows(d, e, Pending, ConnectionOps(c)) /\ e.k.dead
      /\ e.k.staged = conn[c].staged
  BY <1>2, <1>6, FinishGood
<1> HIDE DEF e
<1>8. /\ e.fd = c /\ e.s = ssl[c] /\ Pending \cap (e.sq \cup e.kernel) = {}
      /\ e.sq \cup e.kernel \subseteq ConnectionOps(c)
  BY <1>2, <1>7 DEF Grows, Queues
<1>9. Live(e, Pending) = Pending \cup e.sq \cup e.kernel
  BY DEF Live
<1>10. Accounts(c, e.k, Pending \cup e.sq \cup e.kernel, 0) /\ e.k.references \in Nat
  BY <1>7, <1>8, <1>9 DEF Good, Queues, Contexts, Connection
<1>. QED  BY <1>3, <1>7, <1>8, <1>10

LEMMA StartShutdownKeeps ==
    ASSUME CoreInv, NEW draining, NEW cancels \in SUBSET {CancelEpoll}, cancels \cap Pending = {},
           StartShutdown(draining, cancels)
    PROVE  /\ CoreInv'
           /\ EpollOp \in Pending' <=> EpollOp \in Pending
           /\ CancelEpoll \in Pending' <=> CancelEpoll \in Pending \cup cancels
           /\ \A c \in connections' :
                 /\ c \in connections /\ conn'[c].dead
                 /\ conn'[c].staged = conn[c].staged /\ ssl'[c] = ssl[c]
           /\ \A c \in connections : c \in connections' =>
                 \E op \in ConnectionOps(c) : op \in Pending'
<1> DEFINE finished == FinishedAll
           freed == {c \in connections : finished[c].k.references = 0}
           added(c) == finished[c].sq \cup finished[c].kernel
           listener == IF accept_active THEN {CancelAccept} ELSE {}
           prepared == UNION {added(c) : c \in connections}
<1>1. /\ pc = "loop" /\ ~shutdown_started /\ shutdown_started'
      /\ accept_cancel_active' = (accept_active \/ accept_cancel_active)
      /\ conn' = [c \in Fds |-> IF c \in freed THEN Freed
                                ELSE IF c \in connections THEN finished[c].k ELSE conn[c]]
      /\ ssl' = [c \in Fds |-> IF c \in freed THEN NewSsl ELSE ssl[c]]
      /\ connections' = connections \ freed
      /\ open' = open \ freed
      /\ kernel' = kernel \cup sq \cup listener \cup cancels \cup prepared
      /\ sq' = {} /\ pc' = "wait" /\ shutdown_started' = TRUE
      /\ UNCHANGED <<task, stopping, accept_active, doomed, cq, arrivals, socket>>
  BY DEF StartShutdown
<1>2. ASSUME NEW c \in connections
      PROVE  /\ Accounts(c, finished[c].k, Pending \cup added(c), 0)
             /\ finished[c].k.dead /\ finished[c].k \in Connection
             /\ finished[c].k.references \in Nat /\ finished[c].k.staged = conn[c].staged
             /\ added(c) \subseteq ConnectionOps(c) \ Pending
  <2>1. finished[c] = Finished(c)
    BY DEF FinishedAll
  <2> DEFINE e == Finished(c)
  <2>2. /\ Accounts(c, e.k, Pending \cup e.sq \cup e.kernel, 0)
        /\ e.k.dead /\ e.k.references \in Nat /\ e.k.staged = conn[c].staged
        /\ e.sq \cup e.kernel \subseteq ConnectionOps(c) \ Pending
    BY <1>1, FinishedGood
  <2> HIDE DEF e
  <2>3. Pending \cup e.sq \cup e.kernel = Pending \cup (e.sq \cup e.kernel)
    OBVIOUS
  <2>. QED  BY <2>1, <2>2, <2>3 DEF Accounts, InBounds, e
<1> HIDE DEF finished
<1>3. /\ connections \subseteq Fds /\ conn \in [Fds -> Connection] /\ ssl \in [Fds -> Ssl]
      /\ open \subseteq Fds
  BY DEF CoreInv, TypeOK
<1>4. \A c \in connections : c \in freed <=> finished[c].k.references = 0
  OBVIOUS
<1>5. freed \subseteq connections
  OBVIOUS
<1> HIDE DEF freed
<1>6. /\ EndedOps' = EndedOps /\ CqFds' = CqFds /\ MorePending' = MorePending
      /\ CqWellFormed' = CqWellFormed
  BY <1>1, SameQueue
<1>7. Pending' = Pending \cup listener \cup cancels \cup prepared
  BY <1>1, <1>6 DEF Pending
<1>8. /\ \A c \in connections : added(c) \subseteq prepared
      /\ \A op \in prepared : \E c \in connections : op \in added(c)
  OBVIOUS
<1> HIDE DEF added, prepared
<1>9. prepared \cap Pending = {} /\ prepared \cap WorkerOps = {}
  BY <1>2, <1>3, <1>8, OperationNames
<1>10. CancelAccept \notin Pending
  BY <1>1 DEF CoreInv, ListenerOk
<1>11. listener \subseteq {CancelAccept} /\ (CancelAccept \in listener <=> accept_active)
  OBVIOUS
<1> HIDE DEF listener
<1>12. \A c \in connections : \A op \in ConnectionOps(c) : op \in prepared <=> op \in added(c)
  <2>1. ASSUME NEW c \in connections, NEW op \in ConnectionOps(c), op \in prepared
        PROVE  op \in added(c)
    <3>1. PICK b \in connections : op \in added(b)
      BY <1>8, <2>1
    <3>2. op \in ConnectionOps(b)
      BY <1>2, <3>1
    <3>3. b = c
      BY <1>3, <2>1, <3>2, OperationNames
    <3>. QED  BY <3>1, <3>3
  <2>. QED  BY <1>8, <2>1
<1>13. \A c \in connections : \A op \in ConnectionOps(c) :
          op \in Pending' <=> op \in Pending \cup added(c)
  <2>1. \A c \in connections : \A op \in ConnectionOps(c) :
           op \notin listener /\ op \notin cancels
    BY <1>3, <1>11, OperationNames DEF WorkerOps
  <2>. QED  BY <1>7, <1>12, <2>1
<1>14. \A c \in Fds \ connections : \A op \in ConnectionOps(c) : op \notin Pending'
  <2>1. ASSUME NEW c \in Fds \ connections, NEW op \in ConnectionOps(c)
        PROVE  op \notin prepared
    <3>1. ASSUME op \in prepared PROVE FALSE
      <4>1. PICK b \in connections : op \in added(b)
        BY <1>8, <3>1
      <4>2. op \in ConnectionOps(b) /\ b # c
        BY <1>2, <2>1, <4>1
      <4>. QED  BY <1>3, <4>2, OperationNames
    <3>. QED  BY <3>1
  <2>2. \A c \in Fds \ connections : \A op \in ConnectionOps(c) :
           op \notin listener /\ op \notin cancels /\ op \notin Pending
    BY <1>11, OperationNames DEF WorkerOps, CoreInv, OthersOk
  <2>. QED  BY <1>7, <2>1, <2>2
<1>15. task = NoTask /\ \A c \in Fds : Held(c)' = 0
  <2>1. task = NoTask
    BY <1>1 DEF CoreInv, TaskOk
  <2>. QED  BY <1>1, <2>1 DEF Held, Count, NoTask, Task
<1>16. /\ \A c \in connections \ freed : conn'[c] = finished[c].k /\ ssl'[c] = ssl[c]
       /\ \A c \in freed : conn'[c] = Freed /\ ssl'[c] = NewSsl
       /\ \A c \in Fds \ connections : conn'[c] = conn[c] /\ ssl'[c] = ssl[c]
  BY <1>1, <1>3, <1>5
<1>17. TypeOK'
  <2>1. /\ conn' \in [Fds -> Connection] /\ ssl' \in [Fds -> Ssl]
    BY <1>1, <1>2, <1>3, FreshTypes
  <2>2. prepared \subseteq Operations
    BY <1>2, <1>3, <1>8, OperationNames
  <2>3. kernel' \subseteq Operations /\ sq' \subseteq Operations
    BY <1>1, <1>11, <2>2, OperationNames DEF CoreInv, TypeOK, WorkerOps
  <2>4. open' \subseteq Fds /\ connections' \subseteq Fds
    BY <1>1, <1>3
  <2>5. accept_active' \in BOOLEAN /\ accept_cancel_active' \in BOOLEAN
    BY <1>1 DEF CoreInv, TypeOK
  <2>. QED  BY <1>1, <2>1, <2>3, <2>4, <2>5 DEF CoreInv, TypeOK
<1>18. QueuesOk'
  <2>1. /\ EndedOps \cap (sq \cup kernel) = {} /\ doomed \subseteq kernel
        /\ MorePending => AcceptOp \in kernel \cup EndedOps
        /\ EndedOps \subseteq Pending
    BY DEF CoreInv, QueuesOk, Pending
  <2>2. EndedOps' \cap (sq' \cup kernel') = {}
    BY <1>1, <1>6, <1>9, <1>10, <1>11, <2>1
  <2>3. MorePending' => AcceptOp \in kernel' \cup EndedOps'
    BY <1>1, <1>6, <2>1
  <2>. QED  BY <1>1, <2>1, <2>2, <2>3 DEF QueuesOk
<1>19. ConnectionsOk'
  <2>1. ASSUME NEW c \in connections'
        PROVE  Accounts(c, conn'[c], Pending', Held(c)') /\ conn'[c].references > 0
    <3>1. c \in connections /\ c \notin freed /\ c \in Fds
      BY <1>1, <1>3, <2>1
    <3>2. Accounts(c, finished[c].k, Pending \cup added(c), 0)
      BY <1>2, <3>1 DEF added
    <3>3. Accounts(c, finished[c].k, Pending', 0)
      BY <1>13, <3>1, <3>2, AccountsLocal
    <3>4. finished[c].k.references > 0
      <4> DEFINE n == finished[c].k.references
      <4>1. n \in Nat /\ n # 0
        BY <1>2, <1>4, <3>1
      <4> HIDE DEF n
      <4>2. n > 0
        BY <4>1
      <4>. QED  BY <4>2 DEF n
    <3>. QED  BY <1>15, <1>16, <3>1, <3>3, <3>4
  <2>. QED  BY <2>1 DEF ConnectionsOk
<1>20. \A c \in freed : \A op \in ConnectionOps(c) : op \notin Pending'
  <2>1. ASSUME NEW c \in freed, NEW op \in ConnectionOps(c)
        PROVE  op \notin Pending'
    <3>1. c \in connections /\ finished[c].k.references = 0
      BY <1>4, <1>5
    <3>2. Accounts(c, finished[c].k, Pending \cup added(c), 0)
      BY <1>2, <3>1 DEF added
    <3>3. op \notin Pending \cup added(c)
      BY <3>1, <3>2 DEF Accounts, Count, ConnectionOps
    <3>. QED  BY <1>13, <3>1, <3>3
  <2>. QED  BY <2>1
<1>21. OthersOk'
  <2>1. ASSUME NEW c \in Fds \ connections'
        PROVE  /\ conn'[c] = Freed /\ ssl'[c] = NewSsl /\ task'.fd # c
               /\ \A op \in ConnectionOps(c) : op \notin Pending'
    <3>1. task'.fd # c
      BY <1>1, <1>15, WorkerAssumption DEF NoTask, Task
    <3>2. CASE c \in freed
      BY <1>16, <1>20, <3>1, <3>2
    <3>3. CASE c \notin freed
      <4>1. c \in Fds \ connections
        BY <1>1, <2>1, <3>3
      <4>. QED  BY <1>14, <1>16, <3>1, <4>1 DEF CoreInv, OthersOk
    <3>. QED  BY <3>2, <3>3
  <2>. QED  BY <2>1 DEF OthersOk
<1>22. ListenerOk'
  <2>1. AcceptOp \in Pending' <=> AcceptOp \in Pending
    BY <1>7, <1>9, <1>11, OperationNames DEF WorkerOps
  <2>2. CancelAccept \in Pending' <=> accept_active
    BY <1>7, <1>9, <1>10, <1>11, OperationNames DEF WorkerOps
  <2>. QED  BY <1>1, <1>10, <2>1, <2>2 DEF CoreInv, ListenerOk
<1>23. TaskOk'
  BY <1>1, <1>15 DEF TaskOk
<1>24. DescriptorsOk'
  BY <1>1, <1>5, <1>6 DEF CoreInv, DescriptorsOk
<1>25. SocketsOk'
  <2>1. ASSUME NEW c \in Fds
        PROVE  ssl'[c].fetched <= socket[c].arrived
    <3>1. ssl[c].fetched <= socket[c].arrived /\ socket[c].arrived \in Nat
      BY DEF CoreInv, SocketsOk, TypeOK, Socket
    <3>2. ssl'[c] = ssl[c] \/ ssl'[c] = NewSsl
      BY <1>1, <1>3
    <3>. QED  BY <3>1, <3>2, FreshTypes
  <2>. QED  BY <1>1, <2>1 DEF CoreInv, SocketsOk
<1>26. CqWellFormed'
  BY <1>6 DEF CoreInv
<1>27. EpollOp \in Pending' <=> EpollOp \in Pending
  BY <1>7, <1>9, <1>11, OperationNames DEF WorkerOps
<1>28. CancelEpoll \in Pending' <=> CancelEpoll \in Pending \cup cancels
  BY <1>7, <1>9, <1>11, OperationNames DEF WorkerOps
<1>29. \A c \in connections' :
          /\ c \in connections /\ conn'[c].dead
          /\ conn'[c].staged = conn[c].staged /\ ssl'[c] = ssl[c]
  BY <1>1, <1>2, <1>16
<1>30. ASSUME NEW c \in connections, c \in connections'
       PROVE  \E op \in ConnectionOps(c) : op \in Pending'
  <2>1. c \notin freed
    BY <1>1, <1>30
  <2>2. Accounts(c, finished[c].k, Pending \cup added(c), 0)
    BY <1>2 DEF added
  <2>3. finished[c].k.dead /\ finished[c].k.references # 0
    BY <1>2, <1>4, <2>1
  <2>4. \E op \in ConnectionOps(c) : op \in Pending \cup added(c)
    BY <2>2, <2>3 DEF Accounts, Count, ConnectionOps
  <2>. QED  BY <1>13, <2>4
<1>31. CoreInv'
  BY <1>17, <1>18, <1>19, <1>21, <1>22, <1>23, <1>24, <1>25, <1>26 DEF CoreInv
<1>. QED  BY <1>27, <1>28, <1>29, <1>30, <1>31

-----------------------------------------------------------------------------
(* What the invariant says, as the workers' properties.                    *)

LEMMA OutstandingIsPending ==
    ASSUME NEW op \in Operations
    PROVE  /\ Outstanding(op) <=> op \in Pending
           /\ Ended(op) <=> op \in EndedOps
  BY DEF Outstanding, Pending, EndedOps

LEMMA ReferencesFollow ==
    ASSUME CoreInv
    PROVE  ReferencesMatchOperations
<1>1. connections \subseteq Fds
  BY DEF CoreInv, TypeOK
<1>2. \A c \in Fds : \A op \in ConnectionOps(c) : Outstanding(op) <=> op \in Pending
  BY OutstandingIsPending, OperationNames
<1>3. ASSUME NEW c \in connections
      PROVE  LET k == conn[c]
             IN /\ k.references = Count(~k.dead) + Count(task = Task(c, "release"))
                        + Cardinality({op \in ConnectionOps(c) : Outstanding(op)})
                /\ k.references > 0
                /\ k.input_active <=> Outstanding(Input(c))
                /\ k.output_active <=> Outstanding(Output(c))
                /\ Outstanding(CancelInput(c)) => k.input_cancelled
                /\ Outstanding(CancelOutput(c)) => k.output_cancelled
                /\ k.input_cancelled \/ k.output_cancelled => k.dead
  <2> DEFINE live == {op \in ConnectionOps(c) : op \in Pending}
  <2>1. c \in Fds /\ {op \in ConnectionOps(c) : Outstanding(op)} = live
    BY <1>1, <1>2
  <2>2. Cardinality(live) = Count(Input(c) \in Pending) + Count(Output(c) \in Pending)
                 + Count(CancelInput(c) \in Pending) + Count(CancelOutput(c) \in Pending)
    BY <2>1, CountOfFour
  <2>3. /\ Outstanding(Input(c)) <=> Input(c) \in Pending
        /\ Outstanding(Output(c)) <=> Output(c) \in Pending
        /\ Outstanding(CancelInput(c)) <=> CancelInput(c) \in Pending
        /\ Outstanding(CancelOutput(c)) <=> CancelOutput(c) \in Pending
    BY <1>2, <2>1 DEF ConnectionOps
  <2>4. Accounts(c, conn[c], Pending, Held(c)) /\ conn[c].references > 0
    BY DEF CoreInv, ConnectionsOk
  <2> HIDE DEF live
  <2>5. conn[c].references = Count(~conn[c].dead) + Held(c) + Cardinality(live)
    BY <2>2, <2>4 DEF Accounts, Count, Held
  <2>6. {op \in ConnectionOps(c) : Outstanding(op)} = live
    BY <2>1
  <2>. QED  BY <2>3, <2>4, <2>5, <2>6 DEF Accounts, Held
<1>4. \A c \in Fds \ connections : task.fd # c /\ \A op \in ConnectionOps(c) : ~Outstanding(op)
  BY <1>2 DEF CoreInv, OthersOk
<1>5. /\ accept_active <=> Outstanding(AcceptOp)
      /\ accept_cancel_active <=> Outstanding(CancelAccept)
  BY OutstandingIsPending, OperationNames DEF CoreInv, ListenerOk, WorkerOps
<1>6. TypeOK
  BY DEF CoreInv
<1>. QED  BY <1>3, <1>4, <1>5, <1>6 DEF ReferencesMatchOperations

LEMMA CompletionsFollow ==
    ASSUME CoreInv
    PROVE  CompletionsAccounted
<1>1. cq \in Seq(Cqes) /\ CqWellFormed /\ connections \subseteq Fds
  BY DEF CoreInv, TypeOK
<1>2. CompletionsAreExclusive
  <2>1. \A op \in Operations : Ended(op) => op \notin sq \cup kernel
    BY OutstandingIsPending DEF CoreInv, QueuesOk
  <2>2. ASSUME NEW i \in DOMAIN cq, cq[i].more
        PROVE  cq[i].op \in kernel \/ Ended(cq[i].op)
    <3>1. cq[i].op = AcceptOp /\ MorePending /\ cq[i].op \in Operations
      BY <1>1, <2>2, QueuedCqes DEF CqWellFormed, MorePending
    <3>. QED  BY <3>1, OutstandingIsPending DEF CoreInv, QueuesOk
  <2>. QED  BY <1>1, <2>1, <2>2 DEF CompletionsAreExclusive, CqWellFormed, CoreInv, QueuesOk
<1>3. DescriptorsAccounted
  <2>1. CqFds = {cq[i].fd : i \in {j \in DOMAIN cq : cq[j].fd # NULL}}
    BY DEF CqFds
  <2>2. ASSUME NEW i \in DOMAIN cq
        PROVE  cq[i].fd \notin connections
    <3>1. CASE cq[i].fd = NULL
      BY <1>1, <3>1, WorkerAssumption
    <3>2. CASE cq[i].fd # NULL
      BY <3>2 DEF CqFds, CoreInv, DescriptorsOk
    <3>. QED  BY <3>1, <3>2
  <2>. QED  BY <1>1, <2>1, <2>2 DEF DescriptorsAccounted, CoreInv, DescriptorsOk, CqWellFormed
<1>. QED  BY <1>2, <1>3 DEF CompletionsAccounted

\* With no connection and no operation of the worker's own nothing is left.
LEMMA NothingLeft ==
    ASSUME CoreInv, connections = {}, ~accept_active, ~accept_cancel_active,
           EpollOp \notin Pending, CancelEpoll \notin Pending
    PROVE  sq = {} /\ kernel = {} /\ cq = <<>> /\ open = {}
<1>1. \A op \in Operations : op \notin Pending
  <2>1. \A op \in WorkerOps : op \notin Pending
    BY DEF CoreInv, ListenerOk, WorkerOps
  <2>2. \A c \in Fds : \A op \in ConnectionOps(c) : op \notin Pending
    BY DEF CoreInv, OthersOk
  <2>. QED  BY <2>1, <2>2, OperationNames
<1>2. sq = {} /\ kernel = {}
  BY <1>1 DEF CoreInv, TypeOK, Pending
<1>3. cq = <<>>
  <2>1. SUFFICES ASSUME cq # <<>> PROVE FALSE
    OBVIOUS
  <2>2. cq \in Seq(Cqes)
    BY DEF CoreInv, TypeOK
  <2>3. 1 \in DOMAIN cq /\ cq[1].op \in Operations
    BY <2>1, <2>2, OldestCqe
  <2>4. cq[1].more => cq[1].op = AcceptOp /\ MorePending
    BY <2>3 DEF CoreInv, CqWellFormed, MorePending
  <2>5. ~cq[1].more => cq[1].op \in EndedOps
    BY <2>3 DEF EndedOps, Ended
  <2>. QED  BY <1>1, <2>3, <2>4, <2>5 DEF CoreInv, QueuesOk, Pending
<1>4. open = {}
  BY <1>3, EmptyQueue DEF CoreInv, DescriptorsOk
<1>. QED  BY <1>2, <1>3, <1>4

-----------------------------------------------------------------------------
(* What a connection waits for survives the accounting.                    *)

LEMMA ReleasedFields ==
    ASSUME NEW k \in Connection
    PROVE  LET l == Released(k)
           IN /\ l.dead = k.dead /\ l.input_active = k.input_active
              /\ l.poll_registered = k.poll_registered /\ l.poll_events = k.poll_events
              /\ l.phase = k.phase /\ l.input = k.input /\ l.reply = k.reply
              /\ l.read_eof = k.read_eof /\ l.output_active = k.output_active
              /\ l.waiting_write = k.waiting_write /\ l.fed = k.fed /\ l.staged = k.staged
              /\ l.wire_length = k.wire_length /\ l.wire_offset = k.wire_offset
  BY DEF Released, Connection

LEMMA NeedsKept ==
    ASSUME NEW k \in Connection, NEW l, NEW s, l.phase = k.phase, l.input = k.input,
           l.reply = k.reply, l.read_eof = k.read_eof
    PROVE  /\ NeedsInput(k, s) => NeedsInput(l, s)
           /\ NeedsOutput(k, s) => NeedsOutput(l, s)
<1>1. ASSUME k.phase = "reading", ParseInput(k) = k
      PROVE  ParseInput(l) = l
  <2>1. Parsed(l) = Parsed(k)
    BY DEF Parsed
  <2>2. ~(k.read_eof /\ k.input = <<>>)
    <3>1. SUFFICES ASSUME k.read_eof, k.input = <<>> PROVE FALSE
      OBVIOUS
    <3>2. k = [k EXCEPT !.phase = "shutting_down"]
      BY <1>1, <3>1 DEF ParseInput
    <3>3. [k EXCEPT !.phase = "shutting_down"].phase = "shutting_down"
      BY DEF Connection
    <3>. QED  BY <1>1, <3>2, <3>3
  <2>3. Parsed(k).verdict = "incomplete"
    <3>1. SUFFICES ASSUME Parsed(k).verdict # "incomplete" PROVE FALSE
      OBVIOUS
    <3>2. ParseInput(k) = StartReply(k, Parsed(k))
      BY <1>1, <2>2, <3>1 DEF ParseInput
    <3>3. \A p : StartReply(k, p).phase = "writing"
      BY DEF StartReply, Connection
    <3>. QED  BY <1>1, <3>2, <3>3
  <2>. QED  BY <2>1, <2>2, <2>3 DEF ParseInput
<1>2. NeedsInput(k, s) => NeedsInput(l, s)
  BY <1>1 DEF NeedsInput
<1>3. NeedsOutput(k, s) => NeedsOutput(l, s)
  BY DEF NeedsOutput
<1>. QED  BY <1>2, <1>3

\* What grew from the state was prepared.
LEMMA GrowsPrepares ==
    ASSUME NEW d, NEW e, NEW c, Grows(d, e, EndedOps, ConnectionOps(c)),
           d.fd = c, d.sq = sq, d.kernel = kernel
    PROVE  Prepares(e, ConnectionOps(c)) /\ e.fd = c /\ e.s = d.s
  BY DEF Grows, Prepares

\* The connections other than the one that is stored stay as they are.
LEMMA StoredConnections ==
    ASSUME CoreInv, NEW c \in connections, NEW e, e.fd = c, Store(e)
    PROVE  /\ connections' \subseteq connections
           /\ \A b \in connections' : b # c => conn'[b] = conn[b] /\ ssl'[b] = ssl[b]
           /\ c \in connections' => conn'[c] = e.k /\ ssl'[c] = e.s
           /\ c \in connections' <=> e.k.references # 0
<1>1. /\ c \in Fds /\ conn \in [Fds -> Connection] /\ ssl \in [Fds -> Ssl]
      /\ connections \subseteq Fds
  BY DEF CoreInv, TypeOK
<1>. QED  BY <1>1 DEF Store

-----------------------------------------------------------------------------
(* The lines of a peer's records.                                          *)

LinesIn(records) == FoldLeft(LAMBDA lines, record : lines \o record.lines, <<>>, records)

\* The recursion of the fold, over the subsets of D.
Collects(g, D, records) ==
    g = [S \in SUBSET D |-> IF S = {} THEN <<>>
                            ELSE g[S \ {Max(S)}] \o records[Max(S)].lines]

LEMMA CollectsExists ==
    ASSUME NEW records, NEW n \in Nat
    PROVE  \E g : Collects(g, 1..n, records)
<1> DEFINE Gathered == {m \in Nat : \E g : Collects(g, 1..m, records)}
<1>1. 0 \in Gathered
  <2> DEFINE g == [S \in SUBSET (1..0) |-> <<>>]
  <2>1. \A S \in SUBSET (1..0) : S = {}
    OBVIOUS
  <2>2. g = [S \in SUBSET (1..0) |-> IF S = {} THEN <<>>
                                     ELSE g[S \ {Max(S)}] \o records[Max(S)].lines]
    BY <2>1
  <2>3. Collects(g, 1..0, records)
    BY <2>2 DEF Collects
  <2>. QED  BY <2>3
<1>2. ASSUME NEW m \in Nat, m \in Gathered PROVE m + 1 \in Gathered
  <2>1. PICK g : Collects(g, 1..m, records)
    BY <1>2
  <2> DEFINE h == [S \in SUBSET (1..(m + 1)) |->
                     IF m + 1 \in S THEN g[S \ {m + 1}] \o records[m + 1].lines ELSE g[S]]
  <2>2. \A S \in SUBSET (1..m) : S \in SUBSET (1..(m + 1)) /\ m + 1 \notin S
    OBVIOUS
  <2>3. \A S \in SUBSET (1..m) : h[S] = g[S]
    BY <2>2
  <2>4. \A S \in SUBSET (1..m) : g[S] = IF S = {} THEN <<>>
                                        ELSE g[S \ {Max(S)}] \o records[Max(S)].lines
    BY <2>1 DEF Collects
  <2>5. ASSUME NEW S \in SUBSET (1..(m + 1)), m + 1 \in S
        PROVE  h[S] = IF S = {} THEN <<>> ELSE h[S \ {Max(S)}] \o records[Max(S)].lines
    <3>1. Max(S) \in S /\ m + 1 <= Max(S)
      <4>1. m + 1 \in Nat
        OBVIOUS
      <4>. QED  BY <2>5, <4>1, MaxOfSome
    <3>2. Max(S) = m + 1
      <4>1. PICK x : x = Max(S)
        OBVIOUS
      <4>2. x \in 1..(m + 1) /\ m + 1 <= x
        BY <3>1, <4>1
      <4>3. x = m + 1
        BY <4>2
      <4>. QED  BY <4>1, <4>3
    <3>3. S \ {m + 1} \in SUBSET (1..m)
      OBVIOUS
    <3>4. h[S] = g[S \ {m + 1}] \o records[m + 1].lines
      BY <2>5
    <3>5. h[S \ {m + 1}] = g[S \ {m + 1}]
      BY <2>3, <3>3
    <3> HIDE DEF h
    <3>. QED  BY <2>5, <3>2, <3>4, <3>5
  <2>6. ASSUME NEW S \in SUBSET (1..(m + 1)), m + 1 \notin S
        PROVE  h[S] = IF S = {} THEN <<>> ELSE h[S \ {Max(S)}] \o records[Max(S)].lines
    <3>1. S \in SUBSET (1..m)
      BY <2>6
    <3>2. S \ {Max(S)} \in SUBSET (1..m)
      BY <3>1
    <3>3. h[S] = g[S] /\ h[S \ {Max(S)}] = g[S \ {Max(S)}]
      BY <2>3, <3>1, <3>2
    <3> HIDE DEF h
    <3>. QED  BY <2>4, <3>1, <3>3
  <2>7. h = [S \in SUBSET (1..(m + 1)) |-> IF S = {} THEN <<>>
                                           ELSE h[S \ {Max(S)}] \o records[Max(S)].lines]
    BY <2>5, <2>6
  <2>8. Collects(h, 1..(m + 1), records)
    BY <2>7 DEF Collects
  <2>. QED  BY <2>8
<1> HIDE DEF Gathered
<1>3. n \in Gathered
  BY <1>1, <1>2, NatSetInduction
<1>. QED  BY <1>3 DEF Gathered

LEMMA CollectsStep ==
    ASSUME NEW records, NEW n \in Nat, NEW g, Collects(g, 1..n, records)
    PROVE  /\ g[1..0] = <<>>
           /\ \A m \in Nat : m + 1 <= n => g[1..(m + 1)] = g[1..m] \o records[m + 1].lines
<1>1. \A S \in SUBSET (1..n) : g[S] = IF S = {} THEN <<>>
                                      ELSE g[S \ {Max(S)}] \o records[Max(S)].lines
  BY DEF Collects
<1>2. g[1..0] = <<>>
  <2>1. 1..0 = {} /\ 1..0 \in SUBSET (1..n)
    OBVIOUS
  <2>. QED  BY <1>1, <2>1
<1>3. ASSUME NEW m \in Nat, m + 1 <= n
      PROVE  g[1..(m + 1)] = g[1..m] \o records[m + 1].lines
  <2>1. /\ 1..(m + 1) \in SUBSET (1..n) /\ 1..(m + 1) # {}
        /\ 1..(m + 1) \in SUBSET (1..(m + 1)) /\ m + 1 \in 1..(m + 1)
    <3>1. m + 1 \in 1..(m + 1)
      OBVIOUS
    <3>2. \A j \in 1..(m + 1) : j \in 1..n
      BY <1>3
    <3>. QED  BY <3>1, <3>2
  <2>2. Max(1..(m + 1)) \in 1..(m + 1) /\ m + 1 <= Max(1..(m + 1))
    <3>1. m + 1 \in Nat
      OBVIOUS
    <3>. QED  BY <2>1, <3>1, MaxOfSome
  <2>3. Max(1..(m + 1)) = m + 1
    BY <2>2
  <2>4. (1..(m + 1)) \ {m + 1} = 1..m
    OBVIOUS
  <2>. QED  BY <1>1, <2>1, <2>3, <2>4
<1>. QED  BY <1>2, <1>3

LEMMA LinesInCollects ==
    ASSUME NEW records \in Seq(PeerRecord)
    PROVE  \E g : Collects(g, 1..Len(records), records) /\ LinesIn(records) = g[1..Len(records)]
<1> DEFINE g == CHOOSE g : Collects(g, 1..Len(records), records)
<1>1. Len(records) \in Nat /\ DOMAIN records = 1..Len(records)
  BY LenProperties
<1>2. LinesIn(records) = g[1..Len(records)]
  BY <1>1 DEF LinesIn, FoldLeft, MapThenFoldSet, Collects
<1>3. Collects(g, 1..Len(records), records)
  BY <1>1, CollectsExists
<1>. QED  BY <1>2, <1>3

\* One record more, and its lines follow those of the records before it.
LEMMA LinesOfRecords ==
    ASSUME NEW script \in Seq(PeerRecord), NEW n \in 0..Len(script)
    PROVE  /\ LinesIn(SubSeq(script, 1, n)) \in Seq(Line)
           /\ n = 0 => LinesIn(SubSeq(script, 1, n)) = <<>>
           /\ n < Len(script) => LinesIn(SubSeq(script, 1, n + 1))
                                     = LinesIn(SubSeq(script, 1, n)) \o script[n + 1].lines
<1>1. Len(script) \in Nat
  BY LenProperties
<1>2. ASSUME NEW m \in 0..Len(script)
      PROVE  /\ SubSeq(script, 1, m) \in Seq(PeerRecord) /\ Len(SubSeq(script, 1, m)) = m
             /\ \A j \in 1..m : SubSeq(script, 1, m)[j] = script[j] /\ script[j].lines \in Seq(Line)
  <2>1. \A j \in 1..m : script[j] \in PeerRecord
    BY <1>1, ElementOfSeq
  <2>2. \A record \in PeerRecord : record.lines \in Seq(Line)
    BY EmptySeq DEF PeerRecord
  <2>3. /\ SubSeq(script, 1, m) \in Seq(PeerRecord)
        /\ Len(SubSeq(script, 1, m)) = IF 1 <= m THEN m - 1 + 1 ELSE 0
        /\ \A j \in 1..(m - 1 + 1) : SubSeq(script, 1, m)[j] = script[1 + j - 1]
    BY <1>1, <2>1, SubSeqProperties
  <2>4. m \in Nat /\ \A j \in 1..m : 1 + j - 1 = j
    BY <1>1
  <2>. QED  BY <2>1, <2>2, <2>3, <2>4
<1>3. ASSUME NEW m \in 0..Len(script)
      PROVE  \E g : /\ LinesIn(SubSeq(script, 1, m)) = g[1..m]
                    /\ g[1..0] = <<>>
                    /\ \A j \in Nat : j + 1 <= m => g[1..(j + 1)] = g[1..j] \o script[j + 1].lines
  <2>1. PICK records \in Seq(PeerRecord) : records = SubSeq(script, 1, m)
    BY <1>2
  <2>2. Len(records) = m /\ m \in Nat /\ \A j \in 1..m : records[j] = script[j]
    BY <1>1, <1>2, <2>1
  <2>3. PICK g : Collects(g, 1..m, records) /\ LinesIn(records) = g[1..m]
    BY <2>2, LinesInCollects
  <2>4. /\ g[1..0] = <<>>
        /\ \A j \in Nat : j + 1 <= m => g[1..(j + 1)] = g[1..j] \o records[j + 1].lines
    BY <2>2, <2>3, CollectsStep
  <2>5. \A j \in Nat : j + 1 <= m => records[j + 1] = script[j + 1]
    BY <2>2
  <2>. QED  BY <2>1, <2>3, <2>4, <2>5
<1>4. ASSUME NEW m \in 0..Len(script), NEW g,
             g[1..0] = <<>>,
             \A j \in Nat : j + 1 <= m => g[1..(j + 1)] = g[1..j] \o script[j + 1].lines
      PROVE  g[1..m] \in Seq(Line)
  <2> DEFINE Typed == {j \in Nat : j <= m => g[1..j] \in Seq(Line)}
  <2>1. 0 \in Typed
    BY <1>4, EmptySeq
  <2>2. ASSUME NEW j \in Nat, j \in Typed PROVE j + 1 \in Typed
    <3>1. ASSUME j + 1 <= m PROVE g[1..(j + 1)] \in Seq(Line)
      <4>1. j <= m /\ j + 1 \in 1..m
        BY <1>1, <3>1
      <4>2. g[1..j] \in Seq(Line) /\ script[j + 1].lines \in Seq(Line)
        BY <1>2, <2>2, <4>1
      <4>3. g[1..j] \o script[j + 1].lines \in Seq(Line)
        BY <4>2, ConcatProperties
      <4>. QED  BY <1>4, <3>1, <4>3
    <3>. QED  BY <3>1
  <2> HIDE DEF Typed
  <2>3. m \in Typed
    BY <1>1, <2>1, <2>2, NatSetInduction
  <2>. QED  BY <1>1, <2>3 DEF Typed
<1>5. PICK g : /\ LinesIn(SubSeq(script, 1, n)) = g[1..n]
               /\ g[1..0] = <<>>
               /\ \A j \in Nat : j + 1 <= n => g[1..(j + 1)] = g[1..j] \o script[j + 1].lines
  BY <1>3
<1>6. LinesIn(SubSeq(script, 1, n)) \in Seq(Line)
  BY <1>4, <1>5
<1>7. n = 0 => LinesIn(SubSeq(script, 1, n)) = <<>>
  BY <1>5
<1>8. ASSUME n < Len(script)
      PROVE  LinesIn(SubSeq(script, 1, n + 1)) = LinesIn(SubSeq(script, 1, n)) \o script[n + 1].lines
  <2>1. n + 1 \in 0..Len(script) /\ n \in Nat
    BY <1>1, <1>8
  <2>2. PICK h : /\ LinesIn(SubSeq(script, 1, n + 1)) = h[1..(n + 1)]
                 /\ h[1..0] = <<>>
                 /\ \A j \in Nat : j + 1 <= n + 1 => h[1..(j + 1)] = h[1..j] \o script[j + 1].lines
    BY <1>3, <2>1
  <2> DEFINE Same == {j \in Nat : j <= n => h[1..j] = g[1..j]}
  <2>3. 0 \in Same
    BY <1>5, <2>2
  <2>4. ASSUME NEW j \in Nat, j \in Same PROVE j + 1 \in Same
    <3>1. ASSUME j + 1 <= n PROVE h[1..(j + 1)] = g[1..(j + 1)]
      <4>1. j <= n /\ j + 1 <= n + 1
        BY <2>1, <3>1
      <4>. QED  BY <1>5, <2>2, <2>4, <3>1, <4>1
    <3>. QED  BY <3>1
  <2> HIDE DEF Same
  <2>5. n \in Same
    BY <2>1, <2>3, <2>4, NatSetInduction
  <2>6. h[1..n] = g[1..n]
    BY <2>1, <2>5 DEF Same
  <2>7. h[1..(n + 1)] = h[1..n] \o script[n + 1].lines
    <3>1. n \in Nat /\ n + 1 <= n + 1
      BY <2>1
    <3>. QED  BY <2>2, <3>1
  <2>. QED  BY <1>5, <2>2, <2>6, <2>7
<1>. QED  BY <1>6, <1>7, <1>8

-----------------------------------------------------------------------------
(* What is encrypted for a peer, as a dialogue with the lines it sent.     *)

\* The records OpenSSL produced: flights of the handshake, replies and, when
\* `notified', close_notify.
Encrypts(out, flights, replies, notified) ==
    /\ Len(out) = flights + Len(replies) + Count(notified)
    /\ \A i \in 1..flights : out[i] = "flight"
    /\ \A n \in 1..Len(replies) : out[flights + n] = replies[n]
    /\ notified => out[Len(out)] = "close_notify"

\* s, from line i on, is the input and then what was decrypted.
Follows(s, i, input, plain) ==
    /\ i \in 1..(Len(s) + 1) /\ input \in Seq(Line)
    /\ SubSeq(s, i, Len(s)) = input \o plain

\* The worker took the requests that call for `replies', and what follows them
\* is in its input and then in what OpenSSL decrypted.
Takes(k, plain, heard, replies) ==
    /\ k.read_eof => plain = <<>>
    /\ \E i \in 1..(Len(heard) + 1) :
          Consumed(heard, i, replies) /\ Follows(heard, i, k.input, plain)

\* The replies, with the one that is being written.
Begun(k, writing, replies) == IF writing = k.reply THEN replies ELSE Append(replies, k.reply)

Talks(k, writing, plain, heard, replies, notified) ==
    /\ Dialogue(heard, k.read_eof, replies)
    /\ notified => k.phase \in {"shutting_down", "draining"} /\ (k.close_after \/ k.read_eof)
    /\ k.phase = "handshake" =>
          /\ replies = <<>> /\ heard = <<>> /\ k.input = <<>> /\ plain = <<>> /\ ~k.read_eof
          /\ writing \in {NULL, "flight"}
    /\ k.phase = "reading" =>
          Takes(k, plain, heard, replies) /\ writing \in {NULL, "flight"}
    /\ k.phase = "writing" =>
          /\ writing \in {NULL, "flight", k.reply}
          /\ Begun(k, writing, replies) \in Seq(Replies)
          /\ Dialogue(heard, k.read_eof, Begun(k, writing, replies))
          /\ ~k.close_after => Takes(k, plain, heard, Begun(k, writing, replies))
    /\ k.phase = "shutting_down" =>
          /\ k.close_after \/ k.read_eof
          /\ writing \in {NULL, "flight", "close_notify"}
          /\ notified => writing = "close_notify"

HeardOf(script, s) == LinesIn(SubSeq(script, 1, s.consumed))

Told(k, s, script) ==
    /\ s.consumed <= Len(script)
    /\ \E flights \in Nat, replies \in Seq(Replies), notified \in BOOLEAN :
          /\ Encrypts(s.out, flights, replies, notified)
          /\ Talks(k, s.writing, s.plain, HeardOf(script, s), replies, notified)

LEMMA NullIsNothing ==
    NULL \notin {"flight", "close_notify"} /\ NULL \notin Replies
    /\ "flight" \notin Replies /\ "close_notify" \notin Replies
  BY EngineAssumption DEF Replies

LEMMA EncryptsMore ==
    ASSUME NEW out \in Seq(Produced), NEW flights \in Nat, NEW replies \in Seq(Replies),
           Encrypts(out, flights, replies, FALSE)
    PROVE  /\ replies = <<>> => Encrypts(Append(out, "flight"), flights + 1, replies, FALSE)
           /\ \A reply \in Replies :
                 Encrypts(Append(out, reply), flights, Append(replies, reply), FALSE)
           /\ Encrypts(Append(out, "close_notify"), flights, replies, TRUE)
<1>1. Len(out) \in Nat /\ Len(replies) \in Nat /\ Len(out) = flights + Len(replies)
  BY LenProperties DEF Encrypts, Count
<1>2. ASSUME NEW what \in Produced
      PROVE  /\ Len(Append(out, what)) = Len(out) + 1
             /\ \A i \in 1..Len(out) : Append(out, what)[i] = out[i]
             /\ Append(out, what)[Len(out) + 1] = what
  BY AppendProperties
<1>3. \A i \in 1..flights : i \in 1..Len(out)
  BY <1>1
<1>4. \A n \in 1..Len(replies) : flights + n \in 1..Len(out)
  BY <1>1
<1>5. ASSUME replies = <<>>
      PROVE  Encrypts(Append(out, "flight"), flights + 1, replies, FALSE)
  <2>1. "flight" \in Produced
    BY DEF Produced
  <2>2. Len(replies) = 0 /\ Len(out) = flights
    BY <1>1, <1>5, EmptySeq
  <2>3. \A i \in 1..(flights + 1) : i \in 1..flights \/ i = Len(out) + 1
    BY <2>2
  <2>4. \A i \in 1..(flights + 1) : Append(out, "flight")[i] = "flight"
    BY <1>2, <1>3, <2>1, <2>3 DEF Encrypts
  <2>5. Len(Append(out, "flight")) = flights + 1 + Len(replies) + 0
    BY <1>2, <2>1, <2>2
  <2>6. \A n \in 1..Len(replies) : FALSE
    BY <2>2
  <2>. QED  BY <2>4, <2>5, <2>6 DEF Encrypts, Count
<1>6. ASSUME NEW reply \in Replies
      PROVE  Encrypts(Append(out, reply), flights, Append(replies, reply), FALSE)
  <2>1. reply \in Produced
    BY DEF Produced
  <2>2. /\ Len(Append(replies, reply)) = Len(replies) + 1
        /\ \A n \in 1..Len(replies) : Append(replies, reply)[n] = replies[n]
        /\ Append(replies, reply)[Len(replies) + 1] = reply
    BY AppendProperties
  <2>3. \A n \in 1..(Len(replies) + 1) :
           n \in 1..Len(replies) \/ (n = Len(replies) + 1 /\ flights + n = Len(out) + 1)
    BY <1>1
  <2>4. \A n \in 1..(Len(replies) + 1) : Append(out, reply)[flights + n] = Append(replies, reply)[n]
    BY <1>2, <1>4, <2>1, <2>2, <2>3 DEF Encrypts
  <2>5. \A i \in 1..flights : Append(out, reply)[i] = "flight"
    BY <1>2, <1>3, <2>1 DEF Encrypts
  <2>6. Len(Append(out, reply)) = flights + (Len(replies) + 1) + 0
    BY <1>1, <1>2, <2>1
  <2>. QED  BY <2>2, <2>4, <2>5, <2>6 DEF Encrypts, Count
<1>7. Encrypts(Append(out, "close_notify"), flights, replies, TRUE)
  <2>1. "close_notify" \in Produced
    BY DEF Produced
  <2>2. \A i \in 1..flights : Append(out, "close_notify")[i] = "flight"
    BY <1>2, <1>3, <2>1 DEF Encrypts
  <2>3. \A n \in 1..Len(replies) : Append(out, "close_notify")[flights + n] = replies[n]
    BY <1>2, <1>4, <2>1 DEF Encrypts
  <2>4. Len(Append(out, "close_notify")) = flights + Len(replies) + 1
    BY <1>1, <1>2, <2>1
  <2>. QED  BY <1>1, <1>2, <2>1, <2>2, <2>3, <2>4 DEF Encrypts, Count
<1>. QED  BY <1>5, <1>6, <1>7

\* rest is what input holds after its first n lines.
Drops(input, n, rest) ==
    /\ n \in 0..Len(input) /\ Len(rest) = Len(input) - n
    /\ \A j \in 1..(Len(input) - n) : rest[j] = input[n + j]

LEMMA RestOfRest ==
    ASSUME NEW s \in Seq(Line), NEW plain \in Seq(Line), NEW rest \in Seq(Line),
           NEW i \in Nat, NEW input \in Seq(Line), Follows(s, i, input, plain),
           NEW n \in Nat, Drops(input, n, rest), NEW m, m = i + n
    PROVE  Follows(s, m, rest, plain)
<1> USE DEF Follows
<1>0. /\ n \in 0..Len(input) /\ Len(rest) = Len(input) - n
      /\ \A j \in 1..(Len(input) - n) : rest[j] = input[n + j]
  BY DEF Drops
<1>1. Len(s) \in Nat /\ Len(input) \in Nat /\ Len(plain) \in Nat
  BY LenProperties
<1>2. /\ Len(SubSeq(s, i, Len(s))) = Len(s) - i + 1
      /\ \A j \in 1..(Len(s) - i + 1) : SubSeq(s, i, Len(s))[j] = s[i + j - 1]
  BY RestOfStream
<1>3. /\ input \o plain \in Seq(Line) /\ Len(input \o plain) = Len(input) + Len(plain)
      /\ \A j \in 1..(Len(input) + Len(plain)) :
            (input \o plain)[j] = IF j <= Len(input) THEN input[j] ELSE plain[j - Len(input)]
  BY ConcatProperties
<1>4. Len(s) - i + 1 = Len(input) + Len(plain)
  BY <1>0, <1>2, <1>3
<1>5. i + n \in 1..(Len(s) + 1)
  BY <1>0, <1>1, <1>4
<1>6. /\ SubSeq(s, i + n, Len(s)) \in Seq(Line)
      /\ Len(SubSeq(s, i + n, Len(s))) = Len(s) - (i + n) + 1
      /\ \A j \in 1..(Len(s) - (i + n) + 1) : SubSeq(s, i + n, Len(s))[j] = s[i + n + j - 1]
  BY <1>0, <1>5, RestOfStream
<1>7. /\ rest \o plain \in Seq(Line) /\ Len(rest \o plain) = Len(rest) + Len(plain)
      /\ \A j \in 1..(Len(rest) + Len(plain)) :
            (rest \o plain)[j] = IF j <= Len(rest) THEN rest[j] ELSE plain[j - Len(rest)]
  BY ConcatProperties
<1>8. Len(SubSeq(s, i + n, Len(s))) = Len(rest \o plain)
  <2>1. Len(SubSeq(s, i + n, Len(s))) = Len(s) - (i + n) + 1
    BY <1>0, <1>6
  <2>2. Len(rest \o plain) = (Len(input) - n) + Len(plain)
    BY <1>0, <1>7
  <2>3. Len(s) - (i + n) + 1 = (Len(input) - n) + Len(plain)
    BY <1>0, <1>1, <1>4
  <2>. QED  BY <1>0, <2>1, <2>2, <2>3
<1>9. ASSUME NEW j \in 1..Len(rest \o plain)
      PROVE  SubSeq(s, i + n, Len(s))[j] = (rest \o plain)[j]
  <2>1. /\ j \in 1..(Len(s) - (i + n) + 1) /\ j \in 1..(Len(rest) + Len(plain))
        /\ n + j \in 1..(Len(s) - i + 1) /\ n + j \in 1..(Len(input) + Len(plain))
        /\ i + n + j - 1 = i + (n + j) - 1
        /\ j <= Len(rest) <=> n + j <= Len(input)
        /\ j <= Len(rest) => j \in 1..(Len(input) - n)
        /\ j - Len(rest) = n + j - Len(input)
    BY <1>0, <1>1, <1>4, <1>7
  <2>2. SubSeq(s, i + n, Len(s))[j] = s[i + (n + j) - 1]
    BY <1>0, <1>6, <2>1
  <2>3. (input \o plain)[n + j] = s[i + (n + j) - 1]
    BY <1>0, <1>2, <2>1
  <2>4. (input \o plain)[n + j] = IF n + j <= Len(input) THEN input[n + j]
                                                       ELSE plain[n + j - Len(input)]
    BY <1>0, <1>3, <2>1
  <2>5. (rest \o plain)[j] = IF j <= Len(rest) THEN rest[j] ELSE plain[j - Len(rest)]
    BY <1>0, <1>7, <2>1
  <2>. QED  BY <1>0, <2>1, <2>2, <2>3, <2>4, <2>5
<1>10. SubSeq(s, i + n, Len(s)) = rest \o plain
  BY <1>0, <1>6, <1>7, <1>8, <1>9, SeqEqual
<1>. QED  BY <1>5, <1>10

\* Before OpenSSL is called: the reply to the request in the input, or the end
\* of the dialogue.
LEMMA ReplyContinues ==
    ASSUME NEW k \in Connection, NEW plain \in Seq(Line), NEW heard \in Seq(Line),
           NEW replies, Takes(k, plain, heard, replies), k.input # <<>>,
           Parsed(k).verdict # "incomplete"
    PROVE  LET l == StartReply(k, Parsed(k))
               all == Append(replies, l.reply)
           IN /\ l.reply \in Replies /\ replies \in Seq(Replies) /\ all \in Seq(Replies)
              /\ l.read_eof = k.read_eof /\ l.phase = "writing"
              /\ Dialogue(heard, k.read_eof, all)
              /\ ~l.close_after => Takes(l, plain, heard, all)
<1> DEFINE parsed == Parsed(k)
           rejected == parsed.verdict = "reject"
           rest == IF rejected THEN <<>> ELSE SubSeq(k.input, parsed.length + 1, Len(k.input))
           close == rejected \/ parsed.close_after \/ (k.read_eof /\ rest = <<>>)
           reply == IF rejected THEN "bad_request" ELSE Response(parsed.http10, close)
           l == [k EXCEPT !.input = rest, !.close_after = close, !.reply = reply,
                          !.phase = "writing"]
<1>1. k.input \in Seq(Line) /\ Len(k.input) \in Nat /\ Len(heard) \in Nat /\ k.read_eof \in BOOLEAN
  BY LenProperties DEF Connection
<1>2. PICK i \in 1..(Len(heard) + 1) :
         Consumed(heard, i, replies) /\ SubSeq(heard, i, Len(heard)) = k.input \o plain
  BY DEF Takes, Follows
<1>3. k.read_eof => plain = <<>>
  BY DEF Takes
<1>4. PICK request : request = ParseRequest(k.input)
  OBVIOUS
<1>5. /\ request.verdict \in Verdicts
      /\ request.close_after \in BOOLEAN /\ request.http10 \in BOOLEAN
      /\ request.verdict = "complete" => request.length \in 2..Len(k.input)
  BY <1>1, <1>4, ParseRequestResult
<1>6. /\ replies \in Seq(Replies)
      /\ \A r \in Replies : LastReply(heard, i, k.read_eof, r)
                                => Dialogue(heard, k.read_eof, Append(replies, r))
      /\ \A r \in Replies : Append(replies, r) \in Seq(Replies)
  <2>1. replies \in Seq(Replies)
    BY <1>2 DEF Consumed
  <2>. QED  BY <1>2, <2>1, AppendProperties DEF Dialogue
<1>7. Len(k.input) + Len(plain) = Len(heard) - i + 1 /\ Len(plain) \in Nat
  <2>1. Len(k.input \o plain) = Len(k.input) + Len(plain) /\ Len(plain) \in Nat
    BY <1>1, ConcatProperties, LenProperties
  <2>2. Len(SubSeq(heard, i, Len(heard))) = Len(heard) - i + 1
    BY RestOfStream
  <2>. QED  BY <1>2, <2>1, <2>2
<1>8. request.verdict # "incomplete" => parsed = request /\ ParseAt(heard, i) = request
  <2>1. ASSUME request.verdict # "incomplete" PROVE ParseAt(heard, i) = request
    BY <1>1, <1>2, <1>4, <2>1, FragmentationIndependence DEF ParseAt
  <2>. QED  BY <1>4, <2>1 DEF Parsed, AtEndOfStream
<1>9. StartReply(k, Parsed(k)) = l
  BY DEF StartReply
<1>10. l.read_eof = k.read_eof /\ l.phase = "writing" /\ l.input = rest /\ l.close_after = close /\ l.reply = reply
  BY DEF Connection
<1> HIDE DEF l
<1>11. CASE request.verdict = "reject"
  <2>1. rejected /\ close /\ reply = "bad_request"
    BY <1>8, <1>11
  <2>2. LastReply(heard, i, k.read_eof, "bad_request")
    BY <1>8, <1>11 DEF LastReply
  <2>3. "bad_request" \in Replies
    BY DEF Replies
  <2>. QED  BY <1>6, <1>9, <1>10, <2>1, <2>2, <2>3
<1>12. CASE request.verdict = "incomplete"
  <2>1. k.read_eof /\ rejected
    BY <1>4, <1>12 DEF Parsed, AtEndOfStream, Rejected, Result
  <2>2. close /\ reply = "bad_request"
    BY <2>1
  <2>3. plain = <<>> /\ k.input \o plain = k.input
    BY <1>1, <1>3, <2>1, ConcatEmptySeq
  <2>4. ParseAt(heard, i) = request
    BY <1>2, <1>4, <2>3 DEF ParseAt
  <2>5. Len(k.input) # 0 /\ Len(plain) = 0
    BY <1>1, <2>3, EmptySeq
  <2>6. i <= Len(heard)
    BY <1>1, <1>7, <2>5
  <2>7. LastReply(heard, i, k.read_eof, "bad_request")
    BY <1>12, <2>1, <2>4, <2>6 DEF LastReply
  <2>8. "bad_request" \in Replies
    BY DEF Replies
  <2>. QED  BY <1>6, <1>9, <1>10, <2>2, <2>7, <2>8
<1>13. CASE request.verdict = "complete"
  <2>1. /\ ~rejected /\ parsed = request /\ ParseAt(heard, i) = request
        /\ request.length \in 2..Len(k.input)
    BY <1>5, <1>8, <1>13
  <2>2. PICK length \in 2..Len(k.input) : length = request.length
    BY <2>1
  <2>3. rest = SubSeq(k.input, length + 1, Len(k.input)) /\ reply = Response(request.http10, close)
    BY <2>1, <2>2
  <2>4. close <=> request.close_after \/ (k.read_eof /\ rest = <<>>)
    BY <2>1
  <2>5. /\ rest \in Seq(Line) /\ Len(rest) = Len(k.input) - length
        /\ \A j \in 1..(Len(k.input) - length) : rest[j] = k.input[length + j]
    <3>1. length + 1 \in 1..(Len(k.input) + 1)
      BY <1>1
    <3>2. /\ rest \in Seq(Line) /\ Len(rest) = Len(k.input) - (length + 1) + 1
          /\ \A j \in 1..(Len(k.input) - (length + 1) + 1) : rest[j] = k.input[length + 1 + j - 1]
      BY <1>1, <2>3, <3>1, RestOfStream
    <3>3. Len(k.input) - (length + 1) + 1 = Len(k.input) - length
      BY <1>1
    <3>4. \A j \in Nat : length + 1 + j - 1 = length + j
      OBVIOUS
    <3> HIDE DEF rest
    <3>. QED  BY <3>2, <3>3, <3>4
  <2> HIDE DEF rest, close
  <2>6. reply \in Replies
    BY <1>5, <2>3, <2>4, ResponseIsReply DEF reply, Response, Replies
  <2> HIDE DEF reply
  <2>7. CASE request.close_after
    <3>1. LastReply(heard, i, k.read_eof, reply)
      BY <1>13, <2>1, <2>3, <2>4, <2>7 DEF LastReply, Response
    <3>2. close
      BY <2>4, <2>7
    <3>. QED  BY <1>6, <1>9, <1>10, <2>6, <3>1, <3>2
  <2>8. CASE ~request.close_after /\ k.read_eof /\ rest = <<>>
    <3>1. Len(k.input) = length /\ Len(plain) = 0
      BY <1>1, <1>3, <2>5, <2>8, EmptySeq
    <3>2. i + length = Len(heard) + 1
      BY <1>1, <1>7, <3>1
    <3>3. GoesOn(request)
      BY <1>13, <2>8 DEF GoesOn
    <3>4. LastReply(heard, i, k.read_eof, reply)
      BY <2>1, <2>2, <2>3, <2>4, <2>8, <3>2, <3>3 DEF LastReply, Response
    <3>5. close
      BY <2>4, <2>8
    <3>. QED  BY <1>6, <1>9, <1>10, <2>6, <3>4, <3>5
  <2>9. CASE ~request.close_after /\ ~(k.read_eof /\ rest = <<>>)
    <3>1. ~close /\ reply = Response(request.http10, FALSE)
      BY <2>3, <2>4, <2>9 DEF Response
    <3>2. GoesOn(ParseAt(heard, i))
      BY <1>13, <2>1, <2>9 DEF GoesOn
    <3>3. Consumed(heard, i + length, Append(replies, reply))
      BY <1>2, <2>1, <2>2, <3>1, <3>2, RequestConsumed
    <3>4. i + length \in 1..(Len(heard) + 1) /\ Append(replies, reply) \in Seq(Replies)
      BY <3>3 DEF Consumed
    <3>5. Dialogue(heard, k.read_eof, Append(replies, reply))
      BY <3>3, <3>4 DEF Dialogue
    <3>6. Follows(heard, i + length, rest, plain)
      <4>1. PICK m : m = i + length
        OBVIOUS
      <4>2. Follows(heard, i, k.input, plain) /\ Drops(k.input, length, rest)
        BY <1>1, <1>2, <2>5 DEF Drops, Follows
      <4>3. Follows(heard, m, rest, plain)
        BY <1>1, <2>5, <4>1, <4>2, RestOfRest
      <4>. QED  BY <4>1, <4>3
    <3>7. Takes(l, plain, heard, Append(replies, reply))
      BY <1>3, <1>10, <3>3, <3>4, <3>6 DEF Takes
    <3>. QED  BY <1>6, <1>9, <1>10, <2>6, <3>4, <3>5, <3>7
  <2>. QED  BY <2>7, <2>8, <2>9
<1>. QED  BY <1>5, <1>11, <1>12, <1>13 DEF Verdicts

\* A connection whose input is parsed is told the same: its reply is begun by
\* the next call, and one that goes on reading has a peer that goes on sending.
LEMMA ParseInputTold ==
    ASSUME NEW k \in Connection, NEW s \in Ssl, NEW script \in Seq(PeerRecord),
           HeardOf(script, s) \in Seq(Line), Told(k, s, script)
    PROVE  LET l == ParseInput(k)
           IN Told(l, s, script) /\ (l.phase = "reading" => ~l.read_eof)
<1>1. PICK flights \in Nat, replies \in Seq(Replies), notified \in BOOLEAN :
         /\ Encrypts(s.out, flights, replies, notified)
         /\ Talks(k, s.writing, s.plain, HeardOf(script, s), replies, notified)
  BY DEF Told
<1>2. PICK heard \in Seq(Line) : heard = HeardOf(script, s)
  OBVIOUS
<1>3. PICK plain \in Seq(Line) : plain = s.plain
  BY DEF Ssl
<1>4. PICK writing : writing = s.writing
  OBVIOUS
<1>5. Talks(k, writing, plain, heard, replies, notified)
  BY <1>1, <1>2, <1>3, <1>4
<1>6. ASSUME NEW l, Talks(l, writing, plain, heard, replies, notified)
      PROVE  Told(l, s, script)
  BY <1>1, <1>2, <1>3, <1>4, <1>6 DEF Told
<1>7. CASE k.phase # "reading"
  <2>1. ParseInput(k) = k
    BY <1>7 DEF ParseInput
  <2>. QED  BY <1>7, <2>1
<1>8. CASE k.phase = "reading"
  <2>1. /\ Dialogue(heard, k.read_eof, replies) /\ ~notified
        /\ Takes(k, plain, heard, replies) /\ writing \in {NULL, "flight"}
    BY <1>5, <1>8 DEF Talks
  <2>2. CASE k.read_eof /\ k.input = <<>>
    <3> DEFINE l == [k EXCEPT !.phase = "shutting_down"]
    <3>1. ParseInput(k) = l
      BY <1>8, <2>2 DEF ParseInput
    <3>2. l.phase = "shutting_down" /\ l.read_eof = k.read_eof
      BY DEF Connection
    <3> HIDE DEF l
    <3>3. Talks(l, writing, plain, heard, replies, notified)
      BY <2>1, <2>2, <3>2 DEF Talks
    <3>. QED  BY <1>6, <3>1, <3>2, <3>3
  <2>3. CASE ~(k.read_eof /\ k.input = <<>>) /\ Parsed(k).verdict = "incomplete"
    <3>1. ParseInput(k) = k
      BY <1>8, <2>3 DEF ParseInput
    <3>2. ~k.read_eof
      BY <2>3 DEF Parsed, AtEndOfStream, Rejected, Result
    <3>. QED  BY <3>1, <3>2
  <2>4. CASE ~(k.read_eof /\ k.input = <<>>) /\ Parsed(k).verdict # "incomplete"
    <3>1. k.input # <<>>
      <4>1. ASSUME k.input = <<>> PROVE FALSE
        <5>1. ~k.read_eof
          BY <2>4, <4>1
        <5>2. SubSeq(heard, Len(heard) + 1, Len(heard)) = <<>>
          BY LenProperties, SubSeqEmpty
        <5>3. ParseRequest(<<>>) = Incomplete
          BY <5>2, NoRequestInNothing DEF ParseAt
        <5>. QED  BY <2>4, <4>1, <5>1, <5>3 DEF Parsed, AtEndOfStream, Incomplete, Result
      <4>. QED  BY <4>1
    <3>2. PICK l : l = StartReply(k, Parsed(k))
      OBVIOUS
    <3>3. ParseInput(k) = l
      BY <1>8, <2>4, <3>2 DEF ParseInput
    <3>4. /\ l.reply \in Replies /\ Append(replies, l.reply) \in Seq(Replies)
          /\ l.read_eof = k.read_eof /\ l.phase = "writing"
          /\ Dialogue(heard, k.read_eof, Append(replies, l.reply))
          /\ ~l.close_after => Takes(l, plain, heard, Append(replies, l.reply))
      BY <2>1, <2>4, <3>1, <3>2, ReplyContinues
    <3>5. Begun(l, writing, replies) = Append(replies, l.reply)
      BY <2>1, <3>4, NullIsNothing DEF Begun
    <3>6. Talks(l, writing, plain, heard, replies, notified)
      BY <2>1, <3>4, <3>5 DEF Talks
    <3>. QED  BY <1>6, <3>3, <3>4, <3>6
  <2>. QED  BY <2>2, <2>3, <2>4
<1>. QED  BY <1>7, <1>8

-----------------------------------------------------------------------------
(* What a call of OpenSSL leaves as it was.                                *)

\* Nothing is read and nothing decrypted.
SameReading(s, t) == t.consumed = s.consumed /\ t.plain = s.plain

LEMMA FetchSilent ==
    ASSUME NEW s \in Ssl, NEW bios, BiosOk(bios), s.fetched <= bios.available
    PROVE  LET f == Fetch(s, bios)
           IN SameReading(s, f) /\ f.out = s.out /\ f.writing = s.writing
<1>1. Fetch(s, bios) = [s EXCEPT !.fetched = Fetch(s, bios).fetched]
  BY FetchResult
<1>. QED  BY <1>1 DEF Ssl, SameReading

LEMMA FlushSilent ==
    ASSUME NEW s \in Ssl, NEW bios
    PROVE  LET r == Flush(s, bios)
           IN /\ SameReading(s, r.s) /\ r.s.out = s.out
              /\ r.s.writing = IF r.verdict = "ok" THEN NULL ELSE s.writing
<1> DEFINE t == [s EXCEPT !.written = @ + Min({Unwritten(s), bios.limit - s.written})]
           u == [t EXCEPT !.writing = NULL]
<1>1. SameReading(s, t) /\ t.out = s.out /\ t.writing = s.writing
  BY DEF Ssl, SameReading
<1>2. SameReading(s, u) /\ u.out = s.out /\ u.writing = NULL
  BY DEF Ssl, SameReading
<1>3. Flush(s, bios) = IF bios.behind = "reset" THEN Return("failed", s)
                       ELSE IF Unwritten(t) = 0 THEN Return("ok", u)
                       ELSE Return("want_write", t)
  BY DEF Flush
<1>4. SameReading(s, s)
  BY DEF SameReading
<1> HIDE DEF t, u
<1>. QED  BY <1>1, <1>2, <1>3, <1>4 DEF Return

\* A record is produced once, however often the call is repeated.
ProducesOnce(s, r, what) ==
    /\ SameReading(s, r.s)
    /\ \/ /\ s.writing = NULL /\ r.s.out = Append(s.out, what)
          /\ r.s.writing = IF r.verdict = "ok" THEN NULL ELSE what
       \/ /\ s.writing = what /\ r.s.out = s.out
          /\ r.s.writing = IF r.verdict = "ok" THEN NULL ELSE what
       \/ s.writing \notin {NULL, what} /\ r.verdict = "failed" /\ r.s = s

LEMMA ProduceOnce ==
    ASSUME NEW s \in Ssl, NEW bios, NEW what \in Produced
    PROVE  ProducesOnce(s, Produce(s, bios, what), what)
<1>1. CASE s.writing = NULL
  <2> DEFINE t == [s EXCEPT !.out = Append(@, what), !.writing = what]
  <2>1. Append(s.out, what) \in Seq(Produced)
    BY DEF Ssl
  <2>2. t \in Ssl /\ SameReading(s, t) /\ t.out = Append(s.out, what) /\ t.writing = what
    BY <2>1 DEF Ssl, SameReading
  <2>3. Produce(s, bios, what) = Flush(t, bios)
    BY <1>1 DEF Produce
  <2> HIDE DEF t
  <2>4. PICK r : r = Flush(t, bios)
    OBVIOUS
  <2>5. /\ SameReading(t, r.s) /\ r.s.out = t.out
        /\ r.s.writing = IF r.verdict = "ok" THEN NULL ELSE t.writing
    BY <2>2, <2>4, FlushSilent
  <2>6. ProducesOnce(s, r, what)
    BY <1>1, <2>2, <2>5 DEF ProducesOnce, SameReading
  <2>. QED  BY <2>3, <2>4, <2>6
<1>2. CASE s.writing # NULL /\ s.writing = what
  <2>1. Produce(s, bios, what) = Flush(s, bios)
    BY <1>2 DEF Produce
  <2>2. PICK r : r = Flush(s, bios)
    OBVIOUS
  <2>3. /\ SameReading(s, r.s) /\ r.s.out = s.out
        /\ r.s.writing = IF r.verdict = "ok" THEN NULL ELSE s.writing
    BY <2>2, FlushSilent
  <2>4. ProducesOnce(s, r, what)
    BY <1>2, <2>3 DEF ProducesOnce
  <2>. QED  BY <2>1, <2>2, <2>4
<1>3. CASE s.writing # NULL /\ s.writing # what
  <2>1. Produce(s, bios, what) = Return("failed", s)
    BY <1>3 DEF Produce
  <2>. QED  BY <1>3, <2>1, ReturnType DEF ProducesOnce, SameReading
<1>. QED  BY <1>1, <1>2, <1>3

\* What was heard does not change while no record is consumed, ...
LEMMA HeardSame ==
    ASSUME NEW script, NEW s, NEW t, SameReading(s, t)
    PROVE  HeardOf(script, t) = HeardOf(script, s)
  BY DEF SameReading, HeardOf

LEMMA HeardType ==
    ASSUME NEW script \in Seq(PeerRecord), NEW s \in Ssl, s.consumed <= Len(script)
    PROVE  HeardOf(script, s) \in Seq(Line)
<1>1. Len(script) \in Nat /\ s.consumed \in 0..Len(script)
  BY LenProperties DEF Ssl
<1>2. PICK n \in 0..Len(script) : n = s.consumed
  BY <1>1
<1>3. LinesIn(SubSeq(script, 1, n)) \in Seq(Line)
  BY LinesOfRecords
<1>. QED  BY <1>2, <1>3 DEF HeardOf

\* ... and grows by the lines of the record that is.
LEMMA HeardNext ==
    ASSUME NEW s \in Ssl, NEW bios, BiosOk(bios), s.fetched <= bios.available, HasRecord(s),
           NEW t, t.consumed = s.consumed + 1
    PROVE  /\ t.consumed <= Len(bios.script)
           /\ NextRecord(s, bios) \in PeerRecord
           /\ HeardOf(bios.script, t) = HeardOf(bios.script, s) \o NextRecord(s, bios).lines
<1>1. s.fetched \in Nat /\ s.consumed \in Nat /\ bios.available \in Nat
  BY DEF Ssl, BiosOk
<1>2. bios.script \in Seq(PeerRecord) /\ Len(bios.script) \in Nat
  BY LenProperties DEF BiosOk
<1>3. s.consumed + 1 \in 1..Len(bios.script)
  BY <1>1, <1>2 DEF HasRecord, BiosOk, RecordPieces
<1>4. PICK script \in Seq(PeerRecord) : script = bios.script
  BY <1>2
<1>5. PICK n \in 0..Len(script) : n = s.consumed /\ n < Len(script)
  BY <1>1, <1>2, <1>3, <1>4
<1>6. LinesIn(SubSeq(script, 1, n + 1)) = LinesIn(SubSeq(script, 1, n)) \o script[n + 1].lines
  BY <1>5, LinesOfRecords
<1>7. NextRecord(s, bios) \in PeerRecord
  BY RecordOfScript
<1>8. HeardOf(bios.script, s) = LinesIn(SubSeq(script, 1, n))
  BY <1>4, <1>5 DEF HeardOf
<1>9. HeardOf(bios.script, t) = LinesIn(SubSeq(script, 1, n + 1))
  <2>1. t.consumed = n + 1
    BY <1>5
  <2>. QED  BY <1>4, <2>1 DEF HeardOf
<1>10. NextRecord(s, bios).lines = script[n + 1].lines
  BY <1>4, <1>5 DEF NextRecord
<1>11. t.consumed <= Len(bios.script)
  BY <1>3
<1>. QED  BY <1>6, <1>7, <1>8, <1>9, <1>10, <1>11

-----------------------------------------------------------------------------
(* The handshake.                                                          *)

\* A handshake tells its flights and hears nothing.
Silent(s, script) ==
    /\ s.consumed <= Len(script) /\ HeardOf(script, s) = <<>> /\ s.plain = <<>>
    /\ s.writing \in {NULL, "flight"}
    /\ \E flights \in Nat : Encrypts(s.out, flights, <<>>, FALSE)

LEMMA ReadFlightSilent ==
    ASSUME NEW s \in Ssl, NEW bios, BiosOk(bios), s.fetched <= bios.available,
           Silent(s, bios.script)
    PROVE  Silent(ReadFlight(Fetch(s, bios), bios).s, bios.script)
<1> DEFINE f == Fetch(s, bios)
           r == ReadFlight(f, bios)
           record == NextRecord(f, bios)
<1>1. f \in Ssl /\ f.fetched <= bios.available
  BY FetchResult
<1>2. SameReading(s, f) /\ f.out = s.out /\ f.writing = s.writing
  BY FetchSilent
<1> HIDE DEF f
<1>3. HeardOf(bios.script, f) = HeardOf(bios.script, s)
  BY <1>2, HeardSame
<1>4. Silent(f, bios.script)
  BY <1>2, <1>3 DEF Silent, SameReading
<1>5. CASE ~HasRecord(f)
  <2>1. r.s = f
    BY <1>5 DEF ReadFlight, Starved, Return
  <2>. QED  BY <1>4, <2>1 DEF f
<1>6. CASE HasRecord(f)
  <2> DEFINE t == [Consume(f) EXCEPT !.steps = @ + 1]
  <2>1. record \in PeerRecord
    BY <1>1, <1>6, RecordOfScript
  <2>2. r.s \in {f, Consume(f), t} /\ (r.s # f => record.kind # "data")
    BY <1>6, <2>1 DEF ReadFlight, Return, PeerRecord
  <2>3. /\ Consume(f).consumed = f.consumed + 1 /\ Consume(f).plain = f.plain
        /\ Consume(f).out = f.out /\ Consume(f).writing = f.writing
        /\ t.consumed = f.consumed + 1 /\ t.plain = f.plain
        /\ t.out = f.out /\ t.writing = f.writing
    BY <1>1 DEF Ssl, Consume
  <2> HIDE DEF r, t
  <2>4. CASE r.s = f
    BY <1>4, <2>4 DEF r, f
  <2>5. CASE r.s # f
    <3>1. PICK u : u = r.s
      OBVIOUS
    <3>2. /\ u.consumed = f.consumed + 1 /\ u.plain = f.plain
          /\ u.out = f.out /\ u.writing = f.writing
      BY <2>2, <2>3, <2>5, <3>1
    <3>3. /\ u.consumed <= Len(bios.script)
          /\ HeardOf(bios.script, u) = HeardOf(bios.script, f) \o record.lines
      BY <1>1, <1>6, <3>2, HeardNext
    <3>4. record.lines = <<>> /\ <<>> \o <<>> = <<>>
      BY <2>1, <2>2, <2>5, EmptySeq, ConcatEmptySeq DEF PeerRecord
    <3>5. HeardOf(bios.script, u) = <<>>
      BY <1>4, <3>3, <3>4 DEF Silent
    <3>6. Silent(u, bios.script)
      BY <1>4, <3>2, <3>3, <3>5 DEF Silent
    <3>. QED  BY <3>1, <3>6 DEF r, f
  <2>. QED  BY <2>4, <2>5
<1>. QED  BY <1>5, <1>6

LEMMA WriteFlightSilent ==
    ASSUME NEW s \in Ssl, NEW bios, BiosOk(bios), s.fetched <= bios.available,
           Silent(s, bios.script)
    PROVE  Silent(WriteFlight(Produce(s, bios, "flight")).s, bios.script)
<1> DEFINE p == Produce(s, bios, "flight")
           r == WriteFlight(p)
<1>1. "flight" \in Produced
  BY DEF Produced
<1>2. ProducesOnce(s, p, "flight") /\ p \in CallResults
  BY <1>1, ProduceOnce, ProduceResult
<1> HIDE DEF p
<1>3. /\ SameReading(p.s, r.s) /\ r.s.out = p.s.out /\ r.s.writing = p.s.writing
  <2>1. p.s \in Ssl
    BY <1>2 DEF CallResults
  <2> DEFINE q == [p EXCEPT !.s.steps = @ + 1]
  <2>2. q.s = [p.s EXCEPT !.steps = p.s.steps + 1]
    BY <1>2 DEF CallResults
  <2>3. SameReading(p.s, q.s) /\ q.s.out = p.s.out /\ q.s.writing = p.s.writing
    BY <2>1, <2>2 DEF Ssl, SameReading
  <2>4. r \in {p, q}
    BY DEF WriteFlight
  <2>5. SameReading(p.s, p.s)
    BY DEF SameReading
  <2> HIDE DEF q, r
  <2>. QED  BY <2>3, <2>4, <2>5
<1>4. PICK t : t = r.s
  OBVIOUS
<1>5. /\ SameReading(s, t) /\ t.writing \in {NULL, "flight"}
      /\ t.out = s.out \/ t.out = Append(s.out, "flight")
  BY <1>2, <1>3, <1>4 DEF ProducesOnce, SameReading, Silent
<1>6. HeardOf(bios.script, t) = HeardOf(bios.script, s)
  BY <1>5, HeardSame
<1>7. PICK flights \in Nat : Encrypts(s.out, flights, <<>>, FALSE)
  BY DEF Silent
<1>8. \E more \in Nat : Encrypts(Append(s.out, "flight"), more, <<>>, FALSE)
  <2>1. PICK out \in Seq(Produced) : out = s.out
    BY DEF Ssl
  <2>2. PICK replies \in Seq(Replies) : replies = <<>>
    BY EmptySeq
  <2>3. Encrypts(out, flights, replies, FALSE)
    BY <1>7, <2>1, <2>2
  <2>4. Encrypts(Append(out, "flight"), flights + 1, replies, FALSE)
    BY <2>2, <2>3, EncryptsMore
  <2>5. flights + 1 \in Nat
    OBVIOUS
  <2>. QED  BY <2>1, <2>2, <2>4, <2>5
<1>9. Silent(t, bios.script)
  BY <1>5, <1>6, <1>7, <1>8 DEF Silent, SameReading
<1>. QED  BY <1>4, <1>9 DEF r, p

\* One flight more, or none.
Shakes(r, bios) == HandshakeResult(r, bios) /\ Silent(r.s, bios.script)

LEMMA AdvanceSilent ==
    ASSUME NEW r, NEW bios, BiosOk(bios), Shakes(r, bios)
    PROVE  Shakes(Advance(r, bios), bios)
<1>1. HandshakeResult(Advance(r, bios), bios)
  BY AdvanceResult DEF Shakes
<1>2. r.s \in Ssl /\ r.s.fetched <= bios.available /\ Silent(r.s, bios.script)
  BY DEF Shakes, HandshakeResult, CallResults
<1>3. PICK s \in Ssl : s = r.s
  BY <1>2
<1>4. Silent(Advance(r, bios).s, bios.script)
  <2>1. Silent(ReadFlight(Fetch(s, bios), bios).s, bios.script)
    BY <1>2, <1>3, ReadFlightSilent
  <2>2. Silent(WriteFlight(Produce(s, bios, "flight")).s, bios.script)
    BY <1>2, <1>3, WriteFlightSilent
  <2>. QED  BY <1>2, <1>3, <2>1, <2>2 DEF Advance
<1>. QED  BY <1>1, <1>4 DEF Shakes

LEMMA DoHandshakeSilent ==
    ASSUME NEW s \in Ssl, NEW bios, BiosOk(bios), s.fetched <= bios.available,
           Silent(s, bios.script)
    PROVE  Silent(DoHandshake(s, bios).s, bios.script)
<1>1. Shakes(Return("ok", s), bios)
  BY ReturnType DEF Shakes, HandshakeResult
<1>2. Shakes(DoHandshake(s, bios), bios)
  BY <1>1, AdvanceSilent DEF DoHandshake
<1>. QED  BY <1>2 DEF Shakes

-----------------------------------------------------------------------------
(* What a call of OpenSSL makes of what a peer was told.                   *)

\* The connection after a call, as in Applied.
Outcome(k, r) ==
    CASE r.verdict = "ok" -> Succeeded(k, r.lines)
      [] r.verdict = "zero_return" -> StreamEnded(k)
      [] OTHER -> k

LEMMA NothingToldYet ==
    /\ \A closed \in BOOLEAN : Dialogue(<<>>, closed, <<>>)
    /\ Consumed(<<>>, 1, <<>>) /\ Follows(<<>>, 1, <<>>, <<>>)
<1>1. PICK s \in Seq(Line) : s = <<>>
  BY EmptySeq
<1>2. Consumed(s, 1, <<>>)
  BY NothingConsumed
<1>3. /\ <<>> \in Seq(Replies) /\ <<>> \in Seq(Line) /\ Len(<<>>) = 0
      /\ 1 \in 1..(0 + 1)
  BY EmptySeq
<1>4. SubSeq(<<>>, 1, 0) = <<>> \o <<>>
  <2>1. SubSeq(s, Len(s) + 1, Len(s)) = <<>>
    BY LenProperties, SubSeqEmpty
  <2>2. s \o <<>> = s
    BY ConcatEmptySeq
  <2>. QED  BY <1>1, <1>3, <2>1, <2>2
<1>. QED  BY <1>1, <1>2, <1>3, <1>4 DEF Dialogue, Follows

LEMMA HandshakeTold ==
    ASSUME NEW k \in Connection, k.phase = "handshake", NEW s \in Ssl, NEW bios, BiosOk(bios),
           s.fetched <= bios.available, Told(k, s, bios.script)
    PROVE  Told(Outcome(k, DoHandshake(s, bios)), DoHandshake(s, bios).s, bios.script)
<1>1. /\ k.input = <<>> /\ ~k.read_eof /\ Silent(s, bios.script)
  <2>1. PICK flights \in Nat, replies \in Seq(Replies), notified \in BOOLEAN :
           /\ Encrypts(s.out, flights, replies, notified)
           /\ Talks(k, s.writing, s.plain, HeardOf(bios.script, s), replies, notified)
    BY DEF Told
  <2>2. /\ replies = <<>> /\ HeardOf(bios.script, s) = <<>> /\ k.input = <<>> /\ s.plain = <<>>
        /\ ~k.read_eof /\ s.writing \in {NULL, "flight"} /\ ~notified
    BY <2>1 DEF Talks
  <2>3. Encrypts(s.out, flights, <<>>, FALSE) /\ s.consumed <= Len(bios.script)
    BY <2>1, <2>2 DEF Told
  <2>. QED  BY <2>2, <2>3 DEF Silent
<1>2. PICK r : r = DoHandshake(s, bios)
  OBVIOUS
<1>3. Silent(r.s, bios.script)
  BY <1>1, <1>2, DoHandshakeSilent
<1>4. PICK flights \in Nat : Encrypts(r.s.out, flights, <<>>, FALSE)
  BY <1>3 DEF Silent
<1>5. PICK l : l = Outcome(k, r)
  OBVIOUS
<1>6. \/ l = k
      \/ l.phase = "reading" /\ l.input = <<>> /\ ~l.read_eof
      \/ l.phase = "shutting_down" /\ l.read_eof
  BY <1>1, <1>5 DEF Outcome, Succeeded, StreamEnded, Connection
<1>7. l.read_eof \in BOOLEAN
  BY <1>5 DEF Outcome, Succeeded, StreamEnded, Connection
<1>8. Talks(l, r.s.writing, <<>>, <<>>, <<>>, FALSE)
  <2>1. 1 \in 1..(Len(<<>>) + 1)
    BY EmptySeq
  <2>2. l.input = <<>> => Takes(l, <<>>, <<>>, <<>>)
    BY <2>1, NothingToldYet DEF Takes
  <2>3. r.s.writing \in {NULL, "flight"}
    BY <1>3 DEF Silent
  <2>4. Dialogue(<<>>, l.read_eof, <<>>)
    BY <1>7, NothingToldYet
  <2>. QED  BY <1>1, <1>6, <2>2, <2>3, <2>4 DEF Talks
<1>9. Told(l, r.s, bios.script)
  <2>1. <<>> \in Seq(Replies) /\ FALSE \in BOOLEAN
    BY EmptySeq
  <2>. QED  BY <1>3, <1>4, <1>8, <2>1 DEF Told, Silent
<1>. QED  BY <1>2, <1>5, <1>9

\* What was decrypted is delivered in its order.
LEMMA DeliverTold ==
    ASSUME NEW k \in Connection, k.phase = "reading", ~k.read_eof, NEW s \in Ssl,
           NEW script \in Seq(PeerRecord), Told(k, s, script), NEW room \in Nat
    PROVE  LET r == Deliver(s, room) IN Told(Succeeded(k, r.lines), r.s, script)
<1> DEFINE n == Min({room, Len(s.plain)})
<1>1. s.plain \in Seq(Line) /\ Len(s.plain) \in Nat /\ k.input \in Seq(Line)
  BY LenProperties DEF Ssl, Connection
<1>2. n \in 0..Len(s.plain)
  BY <1>1, MinOfTwo
<1> HIDE DEF n
<1>3. PICK plain \in Seq(Line), input \in Seq(Line) : plain = s.plain /\ input = k.input
  BY <1>1
<1>4. PICK lines, rest : /\ lines = SubSeq(plain, 1, n)
                         /\ rest = SubSeq(plain, n + 1, Len(plain))
  OBVIOUS
<1>5. lines \in Seq(Line) /\ rest \in Seq(Line)
  <2>1. \A i \in 1..Len(plain) : plain[i] \in Line
    BY ElementOfSeq
  <2>2. n + 1 \in 1..(Len(plain) + 1) /\ n \in Nat
    BY <1>1, <1>2, <1>3
  <2>3. rest \in Seq(Line)
    BY <1>4, <2>2, RestOfStream
  <2>4. \A i \in 1..n : plain[i] \in Line
    BY <1>1, <1>2, <1>3, <2>1
  <2>5. lines \in Seq(Line)
    BY <1>4, <2>2, <2>4, SubSeqProperties
  <2>. QED  BY <2>3, <2>5
<1>6. lines \o rest = plain
  <2>1. 1 \in 1..(Len(plain) + 1) /\ n \in (1 - 1)..Len(plain) /\ Len(plain) \in n..Len(plain)
    BY <1>1, <1>2, <1>3
  <2>2. SubSeq(plain, 1, n) \o SubSeq(plain, n + 1, Len(plain)) = SubSeq(plain, 1, Len(plain))
    BY <2>1, ConcatAdjacentSubSeq
  <2>3. SubSeq(plain, 1, Len(plain)) = plain
    BY SubSeqFull
  <2>. QED  BY <1>4, <2>2, <2>3
<1>7. PICK t : t = [s EXCEPT !.plain = rest]
  OBVIOUS
<1>8. t.consumed = s.consumed /\ t.plain = rest /\ t.out = s.out /\ t.writing = s.writing
  BY <1>7 DEF Ssl
<1>9. PICK l : l = [k EXCEPT !.input = input \o lines]
  OBVIOUS
<1>10. /\ l.phase = "reading" /\ ~l.read_eof /\ l.input = input \o lines
       /\ l.read_eof = k.read_eof
  BY <1>9 DEF Connection
<1>11. Deliver(s, room).lines = lines /\ Deliver(s, room).s = t /\ Succeeded(k, lines) = l
  BY <1>3, <1>4, <1>7, <1>9 DEF Deliver, Succeeded, n
<1>12. PICK flights \in Nat, replies \in Seq(Replies), notified \in BOOLEAN :
         /\ Encrypts(s.out, flights, replies, notified)
         /\ Talks(k, s.writing, s.plain, HeardOf(script, s), replies, notified)
  BY DEF Told
<1>13. PICK heard : heard = HeardOf(script, s) /\ heard = HeardOf(script, t)
  BY <1>8 DEF HeardOf
<1>14. /\ Dialogue(heard, k.read_eof, replies) /\ ~notified
       /\ Takes(k, plain, heard, replies) /\ s.writing \in {NULL, "flight"}
  BY <1>3, <1>12, <1>13 DEF Talks
<1>15. Takes(l, rest, heard, replies)
  <2>1. PICK i \in 1..(Len(heard) + 1) : Consumed(heard, i, replies) /\ Follows(heard, i, input, plain)
    BY <1>3, <1>14 DEF Takes
  <2>2. input \o plain = (input \o lines) \o rest
    <3>1. (input \o lines) \o rest = input \o (lines \o rest)
      BY <1>5, ConcatAssociative
    <3>. QED  BY <1>6, <3>1
  <2>3. input \o lines \in Seq(Line)
    BY <1>5, ConcatProperties
  <2>4. Follows(heard, i, input \o lines, rest)
    BY <2>1, <2>2, <2>3 DEF Follows
  <2>. QED  BY <1>10, <2>1, <2>4 DEF Takes
<1>16. Talks(l, t.writing, t.plain, HeardOf(script, t), replies, notified)
  BY <1>8, <1>10, <1>13, <1>14, <1>15 DEF Talks
<1>17. Told(l, t, script)
  BY <1>8, <1>12, <1>16 DEF Told
<1>. QED  BY <1>11, <1>17

LEMMA ReadTold ==
    ASSUME NEW k \in Connection, k.phase = "reading", ~k.read_eof, NEW s \in Ssl, NEW bios,
           BiosOk(bios), s.fetched <= bios.available, Told(k, s, bios.script), NEW room \in Nat
    PROVE  Told(Outcome(k, SslRead(s, bios, room)), SslRead(s, bios, room).s, bios.script)
<1>1. bios.script \in Seq(PeerRecord)
  BY DEF BiosOk
<1>2. ASSUME NEW t \in Ssl, Told(k, t, bios.script)
      PROVE  Told(Outcome(k, Deliver(t, room)), Deliver(t, room).s, bios.script)
  <2>1. Told(Succeeded(k, Deliver(t, room).lines), Deliver(t, room).s, bios.script)
    BY <1>1, <1>2, DeliverTold
  <2>2. Deliver(t, room).verdict = "ok"
    BY DEF Deliver
  <2>. QED  BY <2>1, <2>2 DEF Outcome
<1>3. CASE s.plain # <<>>
  BY <1>2, <1>3 DEF SslRead
<1>4. CASE s.plain = <<>>
  <2>1. PICK f : f = Fetch(s, bios)
    OBVIOUS
  <2>2. /\ f \in Ssl /\ f.fetched <= bios.available
        /\ f.consumed = s.consumed /\ f.plain = <<>> /\ f.out = s.out /\ f.writing = s.writing
    BY <1>4, <2>1, FetchResult, FetchSilent DEF SameReading
  <2>3. HeardOf(bios.script, f) = HeardOf(bios.script, s)
    BY <2>2 DEF HeardOf
  <2>4. Told(k, f, bios.script)
    BY <1>4, <2>2, <2>3 DEF Told
  <2>5. SslRead(s, bios, room) = ReadRecord(f, bios, room)
    BY <1>4, <2>1 DEF SslRead
  <2>6. PICK flights \in Nat, replies \in Seq(Replies), notified \in BOOLEAN :
           /\ Encrypts(f.out, flights, replies, notified)
           /\ Talks(k, f.writing, f.plain, HeardOf(bios.script, f), replies, notified)
    BY <2>4 DEF Told
  <2>7. PICK heard : heard = HeardOf(bios.script, f)
    OBVIOUS
  <2>8. heard \in Seq(Line)
    BY <1>1, <2>2, <2>4, <2>7, HeardType DEF Told
  <2>9. /\ Dialogue(heard, FALSE, replies) /\ ~notified
        /\ Takes(k, <<>>, heard, replies) /\ f.writing \in {NULL, "flight"}
    BY <2>2, <2>6, <2>7 DEF Talks, Connection
  <2>10. PICK i \in 1..(Len(heard) + 1) : Consumed(heard, i, replies) /\ Follows(heard, i, k.input, <<>>)
    BY <2>9 DEF Takes
  <2>11. CASE ~HasRecord(f)
    <3>1. \E verdict \in {"want_read", "failed"} : ReadRecord(f, bios, room) = Return(verdict, f)
      BY <2>11 DEF ReadRecord, Starved
    <3>. QED  BY <2>4, <2>5, <3>1 DEF Outcome, Return
  <2>12. CASE HasRecord(f)
    <3>1. PICK record : record = NextRecord(f, bios)
      OBVIOUS
    <3>2. record \in PeerRecord
      BY <2>2, <2>12, <3>1, RecordOfScript
    <3>3. CASE record.kind = "data"
      <4>1. PICK lines \in Seq(Line) : lines = record.lines
        BY <3>2, EmptySeq DEF PeerRecord
      <4>2. PICK t : t = [Consume(f) EXCEPT !.plain = lines]
        OBVIOUS
      <4>3. /\ t \in Ssl /\ t.consumed = f.consumed + 1 /\ t.plain = lines
            /\ t.out = f.out /\ t.writing = f.writing
        <5>1. t \in Ssl
          BY <2>2, <4>2, ConsumeType
        <5>2. Consume(f) = [f EXCEPT !.consumed = f.consumed + 1]
          BY DEF Consume
        <5>. QED  BY <2>2, <4>2, <5>1, <5>2 DEF Ssl
      <4>4. t.consumed <= Len(bios.script) /\ HeardOf(bios.script, t) = heard \o lines
        BY <2>2, <2>7, <2>12, <3>1, <4>1, <4>3, HeardNext
      <4>5. Dialogue(heard \o lines, FALSE, replies)
        BY <2>8, <2>9, DialogueGrows
      <4>6. Consumed(heard \o lines, i, replies)
        BY <2>8, <2>10, ConsumedGrows
      <4>7. Follows(heard \o lines, i, k.input, lines)
        <5>1. SubSeq(heard \o lines, i, Len(heard \o lines)) = SubSeq(heard, i, Len(heard)) \o lines
          BY <2>8, RestOfConcat
        <5>2. SubSeq(heard, i, Len(heard)) = k.input \o <<>> /\ k.input \in Seq(Line)
          BY <2>10 DEF Follows
        <5>3. k.input \o <<>> = k.input
          BY <5>2, ConcatEmptySeq
        <5>4. i \in 1..(Len(heard \o lines) + 1)
          BY <4>6 DEF Consumed
        <5>. QED  BY <5>1, <5>2, <5>3, <5>4 DEF Follows
      <4>8. Takes(k, lines, heard \o lines, replies)
        <5>1. i \in 1..(Len(heard \o lines) + 1)
          BY <4>6 DEF Consumed
        <5>. QED  BY <4>6, <4>7, <5>1 DEF Takes
      <4>9. Talks(k, t.writing, t.plain, HeardOf(bios.script, t), replies, notified)
        <5>1. k.read_eof = FALSE
          BY DEF Connection
        <5>. QED  BY <2>9, <4>3, <4>4, <4>5, <4>8, <5>1 DEF Talks
      <4>10. Told(k, t, bios.script)
        BY <2>6, <4>3, <4>4, <4>9 DEF Told
      <4>11. ReadRecord(f, bios, room) = Deliver(t, room)
        BY <2>12, <3>1, <3>3, <4>1, <4>2 DEF ReadRecord
      <4>. QED  BY <1>2, <2>5, <4>3, <4>10, <4>11
    <3>4. CASE record.kind = "close_notify"
      <4>1. PICK t : t = Consume(f)
        OBVIOUS
      <4>2. /\ t.consumed = f.consumed + 1 /\ t.plain = <<>>
            /\ t.out = f.out /\ t.writing = f.writing
        BY <2>2, <4>1 DEF Ssl, Consume
      <4>3. t.consumed <= Len(bios.script) /\ HeardOf(bios.script, t) = heard \o record.lines
        BY <2>2, <2>7, <2>12, <3>1, <4>2, HeardNext
      <4>4. heard \o record.lines = heard
        BY <2>8, <3>2, <3>4, ConcatEmptySeq DEF PeerRecord
      <4>5. PICK l : l = StreamEnded(k)
        OBVIOUS
      <4>6. l.phase = "reading" /\ l.read_eof = TRUE /\ l.input = k.input
        BY <4>5 DEF StreamEnded, Connection
      <4>7. Dialogue(heard, TRUE, replies)
        BY <2>9, DialogueCloses
      <4>8. Takes(l, <<>>, heard, replies)
        BY <2>10, <4>6 DEF Takes
      <4>9. Talks(l, t.writing, t.plain, HeardOf(bios.script, t), replies, notified)
        BY <2>9, <4>2, <4>3, <4>4, <4>6, <4>7, <4>8 DEF Talks
      <4>10. Told(l, t, bios.script)
        BY <2>6, <4>2, <4>3, <4>9 DEF Told
      <4>11. ReadRecord(f, bios, room) = Return("zero_return", t)
        BY <2>12, <3>1, <3>4, <4>1 DEF ReadRecord
      <4>. QED  BY <2>5, <4>5, <4>10, <4>11 DEF Outcome, Return
    <3>5. CASE record.kind = "flight"
      <4>1. ReadRecord(f, bios, room) = Return("failed", f)
        BY <2>12, <3>1, <3>5 DEF ReadRecord
      <4>. QED  BY <2>4, <2>5, <4>1 DEF Outcome, Return
    <3>. QED  BY <3>2, <3>3, <3>4, <3>5 DEF PeerRecord
  <2>. QED  BY <2>11, <2>12
<1>. QED  BY <1>3, <1>4

LEMMA WriteTold ==
    ASSUME NEW k, InBounds(k), k.phase = "writing", NEW s \in Ssl, NEW bios, BiosOk(bios),
           Told(k, s, bios.script)
    PROVE  Told(Outcome(k, SslWrite(s, bios, k.reply)), SslWrite(s, bios, k.reply).s, bios.script)
<1>1. PICK reply : reply = k.reply
  OBVIOUS
<1>2. reply \in Replies /\ reply \in Produced /\ k \in Connection
  BY <1>1 DEF InBounds, Connection, Produced
<1>3. reply # NULL /\ reply # "flight"
  BY <1>2, NullIsNothing
<1>4. PICK r : r = Produce(s, bios, reply)
  OBVIOUS
<1>5. /\ ProducesOnce(s, r, reply)
      /\ r.verdict \in {"ok", "want_write", "failed"}
  BY <1>2, <1>4, ProduceOnce, ProduceResult
<1>6. PICK flights \in Nat, replies \in Seq(Replies), notified \in BOOLEAN :
         /\ Encrypts(s.out, flights, replies, notified)
         /\ Talks(k, s.writing, s.plain, HeardOf(bios.script, s), replies, notified)
  BY DEF Told
<1>7. PICK heard : heard = HeardOf(bios.script, s)
  OBVIOUS
<1>8. PICK all : all = Begun(k, s.writing, replies)
  OBVIOUS
<1>9. /\ ~notified /\ s.writing \in {NULL, "flight", reply} /\ all \in Seq(Replies)
      /\ Dialogue(heard, k.read_eof, all)
      /\ ~k.close_after => Takes(k, s.plain, heard, all)
  BY <1>1, <1>6, <1>7, <1>8 DEF Talks
<1>10. CASE s.writing \in {NULL, reply}
  <2>1. /\ HeardOf(bios.script, r.s) = heard /\ r.s.plain = s.plain
        /\ r.s.consumed = s.consumed
    BY <1>5, <1>7, HeardSame DEF ProducesOnce, SameReading
  <2>2. r.s.writing = IF r.verdict = "ok" THEN NULL ELSE reply
    BY <1>3, <1>5, <1>10 DEF ProducesOnce
  <2>3. Encrypts(r.s.out, flights, all, FALSE)
    <3>1. PICK out \in Seq(Produced) : out = s.out
      BY DEF Ssl
    <3>2. Encrypts(out, flights, replies, FALSE)
      BY <1>6, <1>9, <3>1
    <3>3. CASE s.writing = NULL
      <4>1. all = Append(replies, reply)
        BY <1>1, <1>3, <1>8, <3>3 DEF Begun
      <4>2. r.s.out = Append(out, reply)
        BY <1>3, <1>5, <3>1, <3>3 DEF ProducesOnce
      <4>3. Encrypts(Append(out, reply), flights, Append(replies, reply), FALSE)
        BY <1>2, <3>2, EncryptsMore
      <4>. QED  BY <4>1, <4>2, <4>3
    <3>4. CASE s.writing = reply
      <4>1. all = replies
        BY <1>1, <1>8, <3>4 DEF Begun
      <4>2. r.s.out = out
        BY <1>3, <1>5, <3>1, <3>4 DEF ProducesOnce
      <4>. QED  BY <3>2, <4>1, <4>2
    <3>. QED  BY <1>10, <3>3, <3>4
  <2>4. PICK l : l = Outcome(k, r)
    OBVIOUS
  <2>5. CASE r.verdict = "ok"
    <3>1. /\ l.phase = IF k.close_after THEN "shutting_down" ELSE "reading"
          /\ l.input = k.input /\ l.read_eof = k.read_eof /\ l.close_after = k.close_after
      BY <1>2, <2>4, <2>5 DEF Outcome, Succeeded, Connection
    <3>2. ~k.close_after => Takes(l, s.plain, heard, all)
      BY <1>9, <3>1 DEF Takes
    <3>. QED  BY <1>9, <2>1, <2>2, <2>3, <2>5, <3>1, <3>2, <1>1, <1>4, <2>4
              DEF Talks, Told, SslWrite
  <2>6. CASE r.verdict # "ok"
    <3>1. l = k
      BY <1>5, <2>4, <2>6 DEF Outcome
    <3>2. Begun(k, reply, all) = all
      BY <1>1 DEF Begun
    <3>3. Talks(k, r.s.writing, r.s.plain, heard, all, FALSE)
      BY <1>1, <1>9, <2>1, <2>2, <2>6, <3>2 DEF Talks
    <3>4. Told(k, r.s, bios.script)
      BY <1>9, <2>1, <2>3, <3>3 DEF Told
    <3>. QED  BY <1>1, <1>4, <2>4, <3>1, <3>4 DEF SslWrite
  <2>. QED  BY <2>5, <2>6
<1>11. CASE s.writing \notin {NULL, reply}
  <2>1. r.verdict = "failed" /\ r.s = s
    BY <1>5, <1>11 DEF ProducesOnce
  <2>. QED  BY <1>1, <1>4, <2>1 DEF SslWrite, Outcome
<1>. QED  BY <1>10, <1>11

LEMMA ShutdownTold ==
    ASSUME NEW k \in Connection, k.phase = "shutting_down", NEW s \in Ssl, NEW bios, BiosOk(bios),
           Told(k, s, bios.script)
    PROVE  Told(Outcome(k, SslShutdown(s, bios)), SslShutdown(s, bios).s, bios.script)
<1>1. CASE ~Handshaken(s)
  <2>1. SslShutdown(s, bios) = Return("failed", s)
    BY <1>1 DEF SslShutdown
  <2>. QED  BY <2>1 DEF Outcome, Return
<1>2. CASE Handshaken(s)
  <2>1. PICK what \in Produced : what = "close_notify"
    BY DEF Produced
  <2>2. PICK r : r = Produce(s, bios, what) /\ r = SslShutdown(s, bios)
    BY <1>2, <2>1 DEF SslShutdown
  <2>3. /\ ProducesOnce(s, r, what)
        /\ r.verdict \in {"ok", "want_write", "failed"} /\ what # NULL
    BY <2>1, <2>2, ProduceOnce, ProduceResult, NullIsNothing
  <2>4. PICK flights \in Nat, replies \in Seq(Replies), notified \in BOOLEAN :
           /\ Encrypts(s.out, flights, replies, notified)
           /\ Talks(k, s.writing, s.plain, HeardOf(bios.script, s), replies, notified)
    BY DEF Told
  <2>5. PICK heard : heard = HeardOf(bios.script, s)
    OBVIOUS
  <2>6. /\ Dialogue(heard, k.read_eof, replies)
        /\ k.close_after \/ k.read_eof
        /\ notified => s.writing = what
    BY <2>1, <2>4, <2>5 DEF Talks
  <2>7. CASE s.writing \in {NULL, what}
    <3>1. /\ HeardOf(bios.script, r.s) = heard /\ r.s.plain = s.plain
          /\ r.s.consumed = s.consumed
      BY <2>3, <2>5, HeardSame DEF ProducesOnce, SameReading
    <3>2. r.s.writing = IF r.verdict = "ok" THEN NULL ELSE what
      BY <2>3, <2>7 DEF ProducesOnce
    <3>3. \E sent \in BOOLEAN :
             /\ Encrypts(r.s.out, flights, replies, sent)
      <4>1. PICK out \in Seq(Produced) : out = s.out
        BY DEF Ssl
      <4>2. CASE s.writing = NULL
        <5>1. r.s.out = Append(out, "close_notify") /\ ~notified
          BY <2>1, <2>3, <2>6, <4>1, <4>2 DEF ProducesOnce
        <5>2. Encrypts(out, flights, replies, FALSE)
          BY <2>4, <4>1, <5>1
        <5>3. Encrypts(Append(out, "close_notify"), flights, replies, TRUE)
          BY <5>2, EncryptsMore
        <5>. QED  BY <5>1, <5>3
      <4>3. CASE s.writing = what
        <5>1. r.s.out = s.out
          BY <2>3, <4>3 DEF ProducesOnce
        <5>. QED  BY <2>4, <5>1
      <4>. QED  BY <2>7, <4>2, <4>3
    <3>4. PICK sent \in BOOLEAN : Encrypts(r.s.out, flights, replies, sent)
      BY <3>3
    <3>5. PICK l : l = Outcome(k, r)
      OBVIOUS
    <3>6. /\ l.read_eof = k.read_eof /\ l.close_after = k.close_after
          /\ l.phase = IF r.verdict = "ok" THEN "draining" ELSE "shutting_down"
      BY <2>3, <3>5 DEF Outcome, Succeeded, Connection
    <3>7. Talks(l, r.s.writing, r.s.plain, heard, replies, sent)
      <4>1. Dialogue(heard, l.read_eof, replies)
        BY <2>6, <3>6
      <4>2. l.close_after \/ l.read_eof
        BY <2>6, <3>6
      <4>3. CASE r.verdict = "ok"
        <5>1. l.phase = "draining"
          BY <3>6, <4>3
        <5>. QED  BY <4>1, <4>2, <5>1 DEF Talks
      <4>4. CASE r.verdict # "ok"
        <5>1. l.phase = "shutting_down" /\ r.s.writing = "close_notify"
          BY <2>1, <3>2, <3>6, <4>4
        <5>. QED  BY <4>1, <4>2, <5>1 DEF Talks
      <4>. QED  BY <4>3, <4>4
    <3>8. Told(l, r.s, bios.script)
      BY <3>1, <3>4, <3>7 DEF Told
    <3>. QED  BY <2>2, <3>5, <3>8
  <2>8. CASE s.writing \notin {NULL, what}
    <3>1. r.verdict = "failed" /\ r.s = s
      BY <2>3, <2>8 DEF ProducesOnce
    <3>. QED  BY <2>2, <3>1 DEF Outcome
  <2>. QED  BY <2>7, <2>8
<1>. QED  BY <1>1, <1>2

\* One iteration of drive().
LEMMA IterationTold ==
    ASSUME NEW d, InBounds(d.k), d.k.phase # "draining",
           d = [fd |-> d.fd, k |-> d.k, s |-> d.s, sq |-> d.sq, kernel |-> d.kernel],
           d.s \in Ssl, NEW bios, BiosOk(bios), d.s.fetched <= bios.available,
           Told(d.k, d.s, bios.script)
    PROVE  Told(Iteration(d, bios).d.k, Iteration(d, bios).d.s, bios.script)
<1>1. PICK k : k = ParseInput(d.k)
  OBVIOUS
<1>2. InBounds(k) /\ k.phase # "draining"
  BY <1>1, ParseInputResult
<1>3. k \in Connection /\ k.phase \in Phases /\ k.input \in Seq(Line)
  BY <1>2 DEF InBounds, Connection
<1>4. PICK s \in Ssl : s = d.s
  OBVIOUS
<1>5. Told(k, s, bios.script) /\ (k.phase = "reading" => ~k.read_eof)
  <2>1. PICK script \in Seq(PeerRecord) : script = bios.script
    BY DEF BiosOk
  <2>2. Told(d.k, s, script) /\ s.consumed <= Len(script) /\ d.k \in Connection
    BY <1>4, <2>1 DEF Told, InBounds
  <2>3. HeardOf(script, s) \in Seq(Line)
    BY <2>2, HeardType
  <2>. QED  BY <1>1, <2>1, <2>2, <2>3, ParseInputTold
<1>6. PICK r : r = Perform(k, s, bios)
  OBVIOUS
<1>7. Told(Outcome(k, r), r.s, bios.script)
  <2>1. CASE k.phase = "handshake"
    BY <1>3, <1>4, <1>5, <1>6, <2>1, HandshakeTold DEF Perform
  <2>2. CASE k.phase = "reading"
    <3>1. InputCapacity - Len(k.input) \in Nat
      BY <1>2, <1>3, LenProperties, FramingAssumption DEF InBounds
    <3>2. PICK room \in Nat : room = InputCapacity - Len(k.input)
      BY <3>1
    <3>3. r = SslRead(s, bios, room)
      BY <1>6, <2>2, <3>2 DEF Perform
    <3>. QED  BY <1>3, <1>4, <1>5, <2>2, <3>3, ReadTold
  <2>3. CASE k.phase = "writing"
    <3>1. r = SslWrite(s, bios, k.reply)
      BY <1>6, <2>3 DEF Perform
    <3>. QED  BY <1>2, <1>5, <2>3, <3>1, WriteTold
  <2>4. CASE k.phase = "shutting_down"
    <3>1. r = SslShutdown(s, bios)
      BY <1>6, <2>4 DEF Perform
    <3>. QED  BY <1>3, <1>5, <2>4, <3>1, ShutdownTold
  <2>. QED  BY <1>2, <1>3, <2>1, <2>2, <2>3, <2>4 DEF Phases
<1>8. Iteration(d, bios) = Applied(d, k, r)
  BY <1>1, <1>4, <1>6 DEF Iteration, CallOpenSsl
<1>9. Applied(d, k, r).d.k = Outcome(k, r) /\ Applied(d, k, r).d.s = r.s
  BY DEF Applied, Outcome
<1>. QED  BY <1>7, <1>8, <1>9

-----------------------------------------------------------------------------
(* What a peer was told is what EncryptedInOrder says.                     *)

LEMMA RepliesCounted ==
    ASSUME NEW out, NEW flights \in Nat, NEW replies \in Seq(Replies), NEW notified \in BOOLEAN,
           Encrypts(out, flights, replies, notified), NEW n \in 1..Len(replies)
    PROVE  Cardinality({j \in 1..(flights + n) : out[j] \in Replies}) = n
<1>1. Len(replies) \in Nat
  BY LenProperties
<1>2. \A j \in 1..flights : out[j] \notin Replies
  BY NullIsNothing DEF Encrypts
<1>3. \A m \in 1..n : out[flights + m] \in Replies
  <2>1. \A m \in 1..n : m \in 1..Len(replies)
    BY <1>1
  <2>. QED  BY <2>1, ElementOfSeq DEF Encrypts
<1>4. \A j \in (flights + 1)..(flights + n) : out[j] \in Replies
  <2> TAKE j \in (flights + 1)..(flights + n)
  <2>1. j - flights \in 1..n /\ flights + (j - flights) = j
    OBVIOUS
  <2>. QED  BY <1>3, <2>1
<1>5. \A j \in 1..(flights + n) : j \in 1..flights \/ j \in (flights + 1)..(flights + n)
  OBVIOUS
<1>6. \A j \in (flights + 1)..(flights + n) : j \in 1..(flights + n)
  OBVIOUS
<1>7. {j \in 1..(flights + n) : out[j] \in Replies} = (flights + 1)..(flights + n)
  BY <1>2, <1>4, <1>5, <1>6
<1>8. Cardinality((flights + 1)..(flights + n)) = n
  <2>1. PICK a \in Int, b \in Int : a = flights + 1 /\ b = flights + n
    OBVIOUS
  <2>2. Cardinality(a..b) = IF a > b THEN 0 ELSE b - a + 1
    BY FS_Interval
  <2>3. ~(a > b) /\ b - a + 1 = n
    BY <1>1, <2>1
  <2>. QED  BY <2>1, <2>2, <2>3
<1>. QED  BY <1>7, <1>8

\* For a connection and its SSL.
SaidInOrder(k, s, received) ==
    /\ \A i \in DOMAIN s.out :
          s.out[i] \in Replies =>
              Allowed(Answered(received), Len(received), k.read_eof,
                      Cardinality({j \in 1..i : s.out[j] \in Replies}), s.out[i])
    /\ \A i, j \in DOMAIN s.out :
          i < j => /\ s.out[i] # "close_notify"
                   /\ s.out[j] = "flight" => s.out[i] = "flight"
    /\ s.out # <<>> /\ Last(s.out) = "close_notify" => k.close_after \/ k.read_eof

LEMMA ToldInOrder ==
    ASSUME NEW k \in Connection, NEW s \in Ssl, NEW script \in Seq(PeerRecord), Told(k, s, script)
    PROVE  SaidInOrder(k, s, HeardOf(script, s))
<1>1. PICK flights \in Nat, replies \in Seq(Replies), notified \in BOOLEAN :
         /\ Encrypts(s.out, flights, replies, notified)
         /\ Talks(k, s.writing, s.plain, HeardOf(script, s), replies, notified)
  BY DEF Told
<1>2. PICK heard \in Seq(Line) : heard = HeardOf(script, s)
  BY HeardType DEF Told
<1>3. PICK out \in Seq(Produced) : out = s.out
  BY DEF Ssl
<1>4. PICK closed \in BOOLEAN : closed = k.read_eof
  BY DEF Connection
<1>5. /\ Encrypts(out, flights, replies, notified)
      /\ Dialogue(heard, closed, replies)
      /\ notified => k.close_after \/ k.read_eof
  BY <1>1, <1>2, <1>3, <1>4 DEF Talks
<1>6. /\ Len(replies) \in Nat /\ Len(out) \in Nat /\ DOMAIN out = 1..Len(out)
      /\ Len(out) = flights + Len(replies) + (IF notified THEN 1 ELSE 0)
  BY <1>5, LenProperties DEF Encrypts, Count
<1>7. ASSUME NEW i \in 1..Len(out)
      PROVE  \/ i \in 1..flights /\ out[i] = "flight"
             \/ i \notin 1..flights /\ i < flights + Len(replies) + 1
                  /\ i - flights \in 1..Len(replies) /\ out[i] = replies[i - flights]
                  /\ out[i] \in Replies
             \/ i = Len(out) /\ i = flights + Len(replies) + 1
                  /\ notified /\ out[i] = "close_notify"
  <2>1. CASE i \in 1..flights
    BY <1>5, <2>1 DEF Encrypts
  <2>2. CASE i \notin 1..flights /\ i < flights + Len(replies) + 1
    <3>1. PICK n \in 1..Len(replies) : n = i - flights /\ flights + n = i
      BY <1>6, <2>2
    <3>2. out[flights + n] = replies[n] /\ replies[n] \in Replies
      BY <1>5, <3>1, ElementOfSeq DEF Encrypts
    <3>. QED  BY <2>2, <3>1, <3>2
  <2>3. CASE i \notin 1..flights /\ ~(i < flights + Len(replies) + 1)
    <3>1. notified /\ i = Len(out) /\ i = flights + Len(replies) + 1
      BY <1>6, <2>3
    <3>. QED  BY <1>5, <3>1 DEF Encrypts
  <2>. QED  BY <2>1, <2>2, <2>3
<1>8. ASSUME NEW i \in 1..Len(out), out[i] \in Replies
      PROVE  Allowed(Answered(heard), Len(heard), closed,
                     Cardinality({j \in 1..i : out[j] \in Replies}), out[i])
  <2>1. PICK n \in 1..Len(replies) : flights + n = i /\ out[i] = replies[n]
    <3>1. i - flights \in 1..Len(replies) /\ out[i] = replies[i - flights]
      BY <1>7, <1>8, NullIsNothing
    <3>2. flights + (i - flights) = i
      BY <1>6
    <3>. QED  BY <3>1, <3>2
  <2>2. Cardinality({j \in 1..i : out[j] \in Replies}) = n
    BY <1>5, <2>1, RepliesCounted
  <2>3. Allowed(Answered(heard), Len(heard), closed, n, replies[n])
    BY <1>5, DialogueAllowed
  <2>. QED  BY <2>1, <2>2, <2>3
<1>9. ASSUME NEW i \in 1..Len(out), NEW j \in 1..Len(out), i < j
      PROVE  out[i] # "close_notify" /\ (out[j] = "flight" => out[i] = "flight")
  <2>1. i # Len(out)
    BY <1>6, <1>9
  <2>2. out[i] # "close_notify"
    BY <1>7, <2>1, NullIsNothing
  <2>3. ASSUME out[j] = "flight" PROVE out[i] = "flight"
    <3>1. j \in 1..flights
      BY <1>7, <2>3, NullIsNothing
    <3>2. i \in 1..flights
      BY <1>6, <1>9, <3>1
    <3>. QED  BY <1>7, <3>2
  <2>. QED  BY <2>2, <2>3
<1>10. ASSUME out # <<>>, Last(out) = "close_notify"
       PROVE  k.close_after \/ k.read_eof
  <2>1. Len(out) \in 1..Len(out)
    BY <1>6, <1>10, EmptySeq
  <2>2. out[Len(out)] = "close_notify"
    BY <1>10 DEF Last
  <2>3. notified
    BY <1>7, <2>1, <2>2, NullIsNothing
  <2>. QED  BY <1>5, <2>3
<1>. QED  BY <1>2, <1>3, <1>4, <1>6, <1>8, <1>9, <1>10 DEF SaidInOrder

-----------------------------------------------------------------------------
(* Every connection's peer was told what its lines call for.               *)

PeersTold == \A c \in connections : Told(conn[c], ssl[c], socket[c].script)

LEMMA PeersToldInOrder ==
    ASSUME TypeOK, PeersTold
    PROVE  EncryptedInOrder
<1> SUFFICES ASSUME NEW c \in connections
             PROVE  SaidInOrder(conn[c], ssl[c], Lines(c, ssl[c].consumed))
  BY DEF EncryptedInOrder, SaidInOrder, RepliesUpTo
<1>1. conn[c] \in Connection /\ ssl[c] \in Ssl
  BY DEF TypeOK
<1>2. socket[c].script \in Seq(PeerRecord)
  BY WorkerAssumption, EmptySeq DEF TypeOK, Socket
<1>3. Lines(c, ssl[c].consumed) = HeardOf(socket[c].script, ssl[c])
  BY DEF Lines, HeardOf, LinesIn
<1>4. Told(conn[c], ssl[c], socket[c].script)
  BY DEF PeersTold
<1>5. SaidInOrder(conn[c], ssl[c], HeardOf(socket[c].script, ssl[c]))
  BY <1>1, <1>2, <1>4, ToldInOrder
<1>. QED  BY <1>3, <1>5

-----------------------------------------------------------------------------
(* What finish() and release() leave of a dialogue.                        *)

\* What the dialogue of a connection depends on.
SameTalk(k, l) ==
    /\ l.phase = k.phase /\ l.input = k.input /\ l.reply = k.reply
    /\ l.read_eof = k.read_eof /\ l.close_after = k.close_after

LEMMA SameTalkTold ==
    ASSUME NEW k, NEW l, NEW s, NEW script, Told(k, s, script), SameTalk(k, l)
    PROVE  Told(l, s, script)
<1>1. PICK flights \in Nat, replies \in Seq(Replies), notified \in BOOLEAN :
         /\ Encrypts(s.out, flights, replies, notified)
         /\ Talks(k, s.writing, s.plain, HeardOf(script, s), replies, notified)
  BY DEF Told
<1>2. \A plain, heard, rs : Takes(l, plain, heard, rs) <=> Takes(k, plain, heard, rs)
  BY DEF SameTalk, Takes
<1>3. \A writing, rs : Begun(l, writing, rs) = Begun(k, writing, rs)
  BY DEF SameTalk, Begun
<1>4. Talks(l, s.writing, s.plain, HeardOf(script, s), replies, notified)
  BY <1>1, <1>2, <1>3 DEF Talks, SameTalk
<1>. QED  BY <1>1, <1>4 DEF Told

LEMMA FreshTold ==
    ASSUME NEW script \in Seq(PeerRecord)
    PROVE  Told(NewConnection, NewSsl, script)
<1>1. Len(script) \in Nat /\ NewSsl.consumed = 0 /\ NewSsl.consumed <= Len(script)
  BY LenProperties DEF NewSsl
<1>2. HeardOf(script, NewSsl) = <<>>
  <2>1. PICK n \in 0..Len(script) : n = NewSsl.consumed /\ n = 0
    BY <1>1
  <2>2. LinesIn(SubSeq(script, 1, n)) = <<>>
    BY <2>1, LinesOfRecords
  <2>. QED  BY <2>1, <2>2 DEF HeardOf
<1>3. Encrypts(NewSsl.out, 0, <<>>, FALSE)
  BY EmptySeq DEF Encrypts, NewSsl, Count
<1>4. Talks(NewConnection, NULL, <<>>, <<>>, <<>>, FALSE)
  BY NothingToldYet DEF Talks, NewConnection
<1>5. NewSsl.writing = NULL /\ NewSsl.plain = <<>> /\ <<>> \in Seq(Replies)
  BY EmptySeq DEF NewSsl
<1>6. /\ Encrypts(NewSsl.out, 0, <<>>, FALSE)
      /\ Talks(NewConnection, NewSsl.writing, NewSsl.plain, HeardOf(script, NewSsl), <<>>, FALSE)
  BY <1>2, <1>3, <1>4, <1>5
<1>7. PICK zero \in Nat, none \in Seq(Replies), no \in BOOLEAN :
         zero = 0 /\ none = <<>> /\ no = FALSE
  BY <1>5
<1>. QED  BY <1>1, <1>6, <1>7 DEF Told

LEMMA ConnectionTalk ==
    ASSUME NEW k \in Connection
    PROVE  /\ SameTalk(k, k) /\ SameTalk(k, Released(k)) /\ SameTalk(k, Killed(k))
           /\ SameTalk(k, InputCancelled(k)) /\ SameTalk(k, OutputCancelled(k))
           /\ \A events : SameTalk(k, Polled(k, events))
           /\ SameTalk(k, [k EXCEPT !.input_active = FALSE])
  BY DEF SameTalk, Released, Killed, InputCancelled, OutputCancelled, Polled, Connection

LEMMA TalkTransitive ==
    ASSUME NEW k, NEW l, NEW m, SameTalk(k, l), SameTalk(l, m)
    PROVE  SameTalk(k, m)
  BY DEF SameTalk

LEMMA GetSqeTalk ==
    ASSUME NEW d \in Contexts, NEW op \in Operations
    PROVE  /\ GetSqe(d, op) \in Contexts /\ GetSqe(d, op).k = d.k
           /\ GetSqe(d, op).fd = d.fd /\ GetSqe(d, op).s = d.s
<1>1. CASE Cardinality(d.sq) < QueueDepth
  BY <1>1 DEF GetSqe, Contexts
<1>2. CASE ~(Cardinality(d.sq) < QueueDepth)
  BY <1>2 DEF GetSqe, Contexts
<1>. QED  BY <1>1, <1>2

LEMMA ReleaseTalk ==
    ASSUME NEW d \in Contexts
    PROVE  SameTalk(d.k, Release(d).k)
<1>1. d.k \in Connection
  BY DEF Contexts
<1>2. Release(d).k = Released(d.k)
  BY DEF Release, Contexts, Connection, Released
<1>. QED  BY <1>1, <1>2, ConnectionTalk

LEMMA SubmitInputTalk ==
    ASSUME NEW d \in Contexts, NEW events \in {"in", "out"}
    PROVE  SameTalk(d.k, SubmitInput(d, events).k)
<1> DEFINE op == Input(d.fd)
           g == GetSqe(d, op)
<1>1. d.k \in Connection /\ d.fd \in Fds
  BY DEF Contexts
<1>2. op \in Operations
  BY <1>1, OperationNames DEF ConnectionOps
<1>3. g \in Contexts /\ g.k = d.k
  BY <1>2, GetSqeTalk
<1> HIDE DEF op
<1>4. SubmitInput(d, events).k = Polled(d.k, events)
  <2>1. Prepare(d, op) = [g EXCEPT !.k = [g.k EXCEPT !.references = g.k.references + 1]]
    BY <1>3 DEF Prepare, Contexts, Connection
  <2>2. SubmitInput(d, events)
            = [Prepare(d, op) EXCEPT !.k = [Prepare(d, op).k EXCEPT !.input_active = TRUE,
                                                                    !.poll_events = events]]
    BY DEF SubmitInput, op
  <2>. QED  BY <2>1, <2>2, <1>1, <1>3 DEF Contexts, Connection, Polled
<1>. QED  BY <1>1, <1>4, ConnectionTalk

LEMMA FinishInputTalk ==
    ASSUME NEW d \in Contexts
    PROVE  /\ FinishInput(d) \in Contexts /\ SameTalk(d.k, FinishInput(d).k)
           /\ FinishInput(d).fd = d.fd /\ FinishInput(d).s = d.s
<1> DEFINE op == CancelInput(d.fd)
           g == GetSqe(d, op)
           l == InputCancelled(d.k)
<1>1. d.k \in Connection /\ d.fd \in Fds
  BY DEF Contexts
<1>2. op \in Operations
  BY <1>1, OperationNames DEF ConnectionOps
<1>3. g \in Contexts /\ g.k = d.k /\ g.fd = d.fd /\ g.s = d.s
  BY <1>2, GetSqeTalk
<1> HIDE DEF op
<1>4. CASE ~(d.k.input_active /\ ~d.k.input_cancelled)
  <2>1. FinishInput(d) = d
    BY <1>4 DEF FinishInput
  <2>. QED  BY <1>1, <2>1, ConnectionTalk
<1>5. CASE d.k.input_active /\ ~d.k.input_cancelled
  <2>1. FinishInput(d) = With(g, l)
    <3>1. Prepare(d, op) = [g EXCEPT !.k = [g.k EXCEPT !.references = g.k.references + 1]]
      BY <1>3 DEF Prepare, Contexts, Connection
    <3>2. FinishInput(d)
              = [Prepare(d, op) EXCEPT !.k = [Prepare(d, op).k EXCEPT !.input_cancelled = TRUE]]
      BY <1>5 DEF FinishInput, op
    <3>. QED  BY <3>1, <3>2, <1>1, <1>3 DEF Contexts, Connection, With, InputCancelled
  <2>2. l \in Connection
    <3>1. PICK n \in Nat : n = d.k.references + 1
      BY <1>1 DEF Connection
    <3>. QED  BY <1>1, <3>1 DEF InputCancelled, Connection
  <2>3. SameTalk(d.k, l)
    BY <1>1, ConnectionTalk
  <2>4. /\ With(g, l) \in Contexts /\ With(g, l).k = l
        /\ With(g, l).fd = g.fd /\ With(g, l).s = g.s
    BY <1>3, <2>2, WithConnection
  <2>. QED  BY <1>3, <2>1, <2>3, <2>4
<1>. QED  BY <1>4, <1>5

LEMMA FinishOutputTalk ==
    ASSUME NEW d \in Contexts
    PROVE  /\ FinishOutput(d) \in Contexts /\ SameTalk(d.k, FinishOutput(d).k)
           /\ FinishOutput(d).fd = d.fd /\ FinishOutput(d).s = d.s
<1> DEFINE op == CancelOutput(d.fd)
           g == GetSqe(d, op)
           l == OutputCancelled(d.k)
<1>1. d.k \in Connection /\ d.fd \in Fds
  BY DEF Contexts
<1>2. op \in Operations
  BY <1>1, OperationNames DEF ConnectionOps
<1>3. g \in Contexts /\ g.k = d.k /\ g.fd = d.fd /\ g.s = d.s
  BY <1>2, GetSqeTalk
<1> HIDE DEF op
<1>4. CASE ~(d.k.output_active /\ ~d.k.output_cancelled)
  <2>1. FinishOutput(d) = d
    BY <1>4 DEF FinishOutput
  <2>. QED  BY <1>1, <2>1, ConnectionTalk
<1>5. CASE d.k.output_active /\ ~d.k.output_cancelled
  <2>1. FinishOutput(d) = With(g, l)
    <3>1. Prepare(d, op) = [g EXCEPT !.k = [g.k EXCEPT !.references = g.k.references + 1]]
      BY <1>3 DEF Prepare, Contexts, Connection
    <3>2. FinishOutput(d)
              = [Prepare(d, op) EXCEPT !.k = [Prepare(d, op).k EXCEPT !.output_cancelled = TRUE]]
      BY <1>5 DEF FinishOutput, op
    <3>. QED  BY <3>1, <3>2, <1>1, <1>3 DEF Contexts, Connection, With, OutputCancelled
  <2>2. l \in Connection
    <3>1. PICK n \in Nat : n = d.k.references + 1
      BY <1>1 DEF Connection
    <3>. QED  BY <1>1, <3>1 DEF OutputCancelled, Connection
  <2>3. SameTalk(d.k, l)
    BY <1>1, ConnectionTalk
  <2>4. /\ With(g, l) \in Contexts /\ With(g, l).k = l
        /\ With(g, l).fd = g.fd /\ With(g, l).s = g.s
    BY <1>3, <2>2, WithConnection
  <2>. QED  BY <1>3, <2>1, <2>3, <2>4
<1>. QED  BY <1>4, <1>5

\* finish() says nothing to the peer.
LEMMA FinishTalk ==
    ASSUME NEW d \in Contexts
    PROVE  SameTalk(d.k, Finish(d).k) /\ Finish(d).fd = d.fd /\ Finish(d).s = d.s
<1>1. d.k \in Connection
  BY DEF Contexts
<1>2. CASE d.k.dead
  <2>1. Finish(d) = d
    BY <1>2 DEF Finish
  <2>. QED  BY <1>1, <2>1, ConnectionTalk
<1>3. CASE ~d.k.dead
  <2> DEFINE l == Killed(d.k)
             e == With(d, l)
             f == FinishInput(e)
             g == FinishOutput(f)
  <2>1. Finish(d) = Release(g)
    <3>1. [d EXCEPT !.k.dead = TRUE, !.k.poll_registered = FALSE] = e
      BY <1>1 DEF Contexts, Connection, With, Killed
    <3>. QED  BY <1>3, <3>1 DEF Finish
  <2>2. l \in Connection /\ SameTalk(d.k, l)
    BY <1>1, ConnectionTalk DEF Killed, Connection
  <2> HIDE DEF l
  <2>3. e \in Contexts /\ e.k = l /\ e.fd = d.fd /\ e.s = d.s
    BY <2>2, WithConnection
  <2> HIDE DEF e
  <2>4. f \in Contexts /\ SameTalk(e.k, f.k) /\ f.fd = e.fd /\ f.s = e.s
    BY <2>3, FinishInputTalk
  <2> HIDE DEF f
  <2>5. g \in Contexts /\ SameTalk(f.k, g.k) /\ g.fd = f.fd /\ g.s = f.s
    BY <2>4, FinishOutputTalk
  <2> HIDE DEF g
  <2>6. SameTalk(g.k, Release(g).k)
    BY <2>5, ReleaseTalk
  <2>7. Release(g).fd = g.fd /\ Release(g).s = g.s
    BY <2>5 DEF Release, Contexts
  <2>. QED  BY <2>1, <2>2, <2>3, <2>4, <2>5, <2>6, <2>7 DEF SameTalk
<1>. QED  BY <1>2, <1>3

-----------------------------------------------------------------------------
(* The steps of a worker, and what its peers were told.                    *)

ScriptsKept == \A c \in connections : socket'[c].script = socket[c].script

LEMMA ScriptsKeptBySteps ==
    /\ UNCHANGED socket => ScriptsKept
    /\ CoreInv /\ (\E c \in Fds : PeerSends(c) \/ PeerLeaves(c) \/ PeerReads(c, ssl[c].written)
                                    \/ KernelAccepts(c))
          => ScriptsKept
<1>1. UNCHANGED socket => ScriptsKept
  BY DEF ScriptsKept
<1>2. ASSUME CoreInv, NEW c \in Fds,
             PeerSends(c) \/ PeerLeaves(c) \/ PeerReads(c, ssl[c].written)
      PROVE  ScriptsKept
  <2>1. socket \in [Fds -> Socket] /\ connections \subseteq Fds
    BY <1>2 DEF CoreInv, TypeOK
  <2>2. \E s : socket' = [socket EXCEPT ![c] = s] /\ s.script = socket[c].script
    <3>1. CASE PeerSends(c)
      <4>1. PICK n : n = socket[c].arrived
                             + (IF "fragments" \in Environment THEN 1 ELSE RecordPieces)
        OBVIOUS
      <4>2. socket' = [socket EXCEPT ![c] = [socket[c] EXCEPT !.arrived = n]]
        BY <2>1, <3>1, <4>1 DEF PeerSends
      <4>3. PICK s : s = [socket[c] EXCEPT !.arrived = n]
        OBVIOUS
      <4>4. s.script = socket[c].script
        BY <2>1, <4>3 DEF Socket
      <4>. QED  BY <4>2, <4>3, <4>4
    <3>2. CASE PeerLeaves(c)
      BY <2>1, <3>2 DEF PeerLeaves, Socket
    <3>3. CASE PeerReads(c, ssl[c].written)
      <4>1. PICK n : n = ssl[c].written
        OBVIOUS
      <4>2. socket' = [socket EXCEPT ![c] = [socket[c] EXCEPT !.read = n]]
        BY <2>1, <3>3, <4>1 DEF PeerReads
      <4>3. PICK s : s = [socket[c] EXCEPT !.read = n]
        OBVIOUS
      <4>4. s.script = socket[c].script
        BY <2>1, <4>3 DEF Socket
      <4>. QED  BY <4>2, <4>3, <4>4
    <3>. QED  BY <1>2, <3>1, <3>2, <3>3
  <2>. QED  BY <2>1, <2>2 DEF ScriptsKept
<1>3. ASSUME CoreInv, NEW c \in Fds, KernelAccepts(c)
      PROVE  ScriptsKept
  <2>1. socket \in [Fds -> Socket] /\ connections \subseteq Fds
    BY <1>3 DEF CoreInv, TypeOK
  <2>2. connections \subseteq open /\ c \notin open
    BY <1>3 DEF CoreInv, DescriptorsOk, KernelAccepts
  <2>3. \E s : socket' = [socket EXCEPT ![c] = s]
    BY <1>3 DEF KernelAccepts
  <2>. QED  BY <2>1, <2>2, <2>3 DEF ScriptsKept
<1>. QED  BY <1>1, <1>2, <1>3

LEMMA ToldElsewhere ==
    ASSUME PeersTold, ScriptsKept, UNCHANGED <<connections, conn, ssl>>
    PROVE  PeersTold'
<1>1. \A c \in connections : Told(conn[c], ssl[c], socket'[c].script)
  BY DEF PeersTold, ScriptsKept
<1>. QED  BY <1>1 DEF PeersTold

LEMMA StoredTold ==
    ASSUME CoreInv, PeersTold, ScriptsKept, NEW c \in connections, NEW e, e.fd = c, Store(e),
           Told(e.k, e.s, socket[c].script)
    PROVE  PeersTold'
<1>1. /\ connections' \subseteq connections
      /\ \A b \in connections' : b # c => conn'[b] = conn[b] /\ ssl'[b] = ssl[b]
      /\ c \in connections' => conn'[c] = e.k /\ ssl'[c] = e.s
  BY StoredConnections
<1>2. ASSUME NEW b \in connections' PROVE Told(conn'[b], ssl'[b], socket'[b].script)
  <2>1. b \in connections /\ socket'[b].script = socket[b].script
    BY <1>1 DEF ScriptsKept
  <2>2. Told(conn[b], ssl[b], socket[b].script)
    BY <2>1 DEF PeersTold
  <2>. QED  BY <1>1, <2>1, <2>2
<1>. QED  BY <1>2 DEF PeersTold

LEMMA AcceptedTold ==
    ASSUME CoreInv, PeersTold, AcceptedConnection
    PROVE  PeersTold'
<1>1. PICK c \in Fds \ connections :
         /\ conn' = [conn EXCEPT ![c] = NewConnection] /\ ssl' = [ssl EXCEPT ![c] = NewSsl]
         /\ connections' = connections \cup {c} /\ socket' = socket
  BY AcceptedConnectionKeeps DEF AcceptedConnection, Completes
<1>2. /\ conn \in [Fds -> Connection] /\ ssl \in [Fds -> Ssl] /\ connections \subseteq Fds
      /\ socket[c].script \in Seq(PeerRecord)
  BY WorkerAssumption, EmptySeq DEF CoreInv, TypeOK, Socket
<1>3. ASSUME NEW b \in connections' PROVE Told(conn'[b], ssl'[b], socket'[b].script)
  <2>1. CASE b = c
    BY <1>1, <1>2, <2>1, FreshTold
  <2>2. CASE b # c
    <3>1. b \in connections /\ conn'[b] = conn[b] /\ ssl'[b] = ssl[b]
      BY <1>1, <1>2, <2>2
    <3>. QED  BY <1>1, <3>1 DEF PeersTold
  <2>. QED  BY <2>1, <2>2
<1>. QED  BY <1>3 DEF PeersTold

LEMMA ListenTold ==
    ASSUME CoreInv, PeersTold, Listen
    PROVE  PeersTold'
<1>1. CASE AcceptedConnection
  BY <1>1, AcceptedTold
<1>2. CASE AcceptedWhileStopping \/ AcceptEnded \/ CancelAcceptCompleted
  <2>1. UNCHANGED <<socket, connections, conn, ssl>>
    BY <1>2 DEF AcceptedWhileStopping, AcceptEnded, CancelAcceptCompleted, Completes
  <2>. QED  BY <2>1, ToldElsewhere, ScriptsKeptBySteps
<1>. QED  BY <1>1, <1>2 DEF Listen

\* release() and finish(), of what was told.
LEMMA EndedTold ==
    ASSUME NEW d \in Contexts, NEW script, Told(d.k, d.s, script)
    PROVE  Told(Release(d).k, d.s, script) /\ Told(Finish(d).k, d.s, script)
  BY SameTalkTold, ReleaseTalk, FinishTalk

LEMMA StartShutdownTold ==
    ASSUME CoreInv, PeersTold, NEW draining, NEW cancels, StartShutdown(draining, cancels)
    PROVE  PeersTold'
<1> DEFINE finished == FinishedAll
           freed == {c \in connections : finished[c].k.references = 0}
<1>1. /\ conn' = [c \in Fds |-> IF c \in freed THEN Freed
                                ELSE IF c \in connections THEN finished[c].k ELSE conn[c]]
      /\ ssl' = [c \in Fds |-> IF c \in freed THEN NewSsl ELSE ssl[c]]
      /\ connections' = connections \ freed
      /\ socket' = socket
  BY DEF StartShutdown
<1>2. connections \subseteq Fds
  BY DEF CoreInv, TypeOK
<1>3. ASSUME NEW c \in connections PROVE finished[c] = Finished(c)
  BY DEF FinishedAll
<1> HIDE DEF finished, freed
<1>4. ASSUME NEW c \in connections' PROVE Told(conn'[c], ssl'[c], socket'[c].script)
  <2>1. c \in connections /\ conn'[c] = Finished(c).k /\ ssl'[c] = ssl[c]
    BY <1>1, <1>2, <1>3
  <2>2. PICK d : d = [Context(c) EXCEPT !.sq = {}, !.kernel = {}]
    OBVIOUS
  <2>3. d \in Contexts /\ d.k = conn[c] /\ d.s = ssl[c]
    <3>1. /\ Context(c) \in Contexts /\ Context(c).k = conn[c] /\ Context(c).s = ssl[c]
      BY <2>1, ContextGood
    <3>. QED  BY <2>2, <3>1 DEF Contexts
  <2>4. Told(d.k, d.s, socket[c].script)
    BY <2>1, <2>3 DEF PeersTold
  <2>5. Told(Finish(d).k, d.s, socket[c].script)
    BY <2>3, <2>4, EndedTold
  <2>. QED  BY <1>1, <2>1, <2>2, <2>3, <2>5 DEF Finished
<1>. QED  BY <1>4 DEF PeersTold

\* A completion that ends with release(): fd, s and script are the connection's.
LEMMA ConcludedTold ==
    ASSUME CoreInv, PeersTold, ScriptsKept, NEW c \in connections, NEW d \in Contexts, d.fd = c,
           Told(d.k, d.s, socket[c].script), Store(Release(d))
    PROVE  PeersTold'
<1>1. Release(d).fd = d.fd /\ Release(d).s = d.s
  BY DEF Release, Contexts
<1>2. Told(Release(d).k, Release(d).s, socket[c].script)
  BY <1>1, EndedTold
<1>. QED  BY <1>1, <1>2, StoredTold

LEMMA CancelTold ==
    ASSUME CoreInv, PeersTold, NEW c \in Fds, CancelCompleted(c)
    PROVE  PeersTold'
<1>1. c \in connections /\ Store(Release(Context(c)))
  BY CancelCompletedKeeps
<1>2. UNCHANGED socket
  BY DEF CancelCompleted, Completes
<1>3. /\ Context(c) \in Contexts /\ Context(c).fd = c
      /\ Context(c).k = conn[c] /\ Context(c).s = ssl[c]
  BY <1>1, ContextGood
<1>4. Told(conn[c], ssl[c], socket[c].script)
  BY <1>1 DEF PeersTold
<1>. QED  BY <1>1, <1>2, <1>3, <1>4, ScriptsKeptBySteps, ConcludedTold

\* drive() returns.
LEMMA LeaveTold ==
    ASSUME CoreInv, PeersTold, NEW c \in Fds, Driving(c), DriveUnchanged,
           NEW d, Good(d, EndedOps, Held(c)), d.fd = c,
           Prepares(d, ConnectionOps(c)), d.s.fetched <= socket[c].arrived, Leave(d),
           Told(d.k, d.s, socket[c].script)
    PROVE  PeersTold'
<1>1. /\ c \in connections
      /\ \E e : Store(e) /\ e.fd = c /\ e.s = d.s /\ e.k \in {d.k, Released(d.k)}
  BY LeaveKeeps
<1>2. PICK e : Store(e) /\ e.fd = c /\ e.s = d.s /\ e.k \in {d.k, Released(d.k)}
  BY <1>1
<1>3. d.k \in Connection
  BY DEF Good, Accounts, InBounds
<1>4. SameTalk(d.k, e.k)
  BY <1>2, <1>3, ConnectionTalk
<1>5. Told(e.k, e.s, socket[c].script)
  BY <1>2, <1>4, SameTalkTold
<1>6. ScriptsKept
  BY ScriptsKeptBySteps DEF DriveUnchanged
<1>. QED  BY <1>1, <1>2, <1>5, <1>6, StoredTold

\* finish(), and drive() returns.
LEMMA FinishTold ==
    ASSUME CoreInv, PeersTold, NEW c \in Fds, Driving(c), DriveUnchanged,
           NEW d, Good(d, EndedOps, Held(c)), d.fd = c, d.sq = sq, d.kernel = kernel,
           d.s.fetched <= socket[c].arrived, Leave(Finish(d)),
           Told(d.k, d.s, socket[c].script)
    PROVE  PeersTold'
<1> DEFINE e == Finish(d)
<1>1. Held(c) \in Nat
  BY DEF Held, Count
<1>2. Good(e, EndedOps, Held(c)) /\ Grows(d, e, EndedOps, ConnectionOps(c))
  BY <1>1, FinishGood
<1>3. Told(e.k, d.s, socket[c].script)
  BY EndedTold DEF Good, Queues
<1>4. Leave(e)
  OBVIOUS
<1> HIDE DEF e
<1>5. Prepares(e, ConnectionOps(c)) /\ e.fd = c /\ e.s = d.s
  BY <1>2, GrowsPrepares
<1>. QED  BY <1>2, <1>3, <1>4, <1>5, LeaveTold

\* The loop of drive() goes on.
LEMMA ContinueTold ==
    ASSUME CoreInv, PeersTold, NEW c \in connections, DriveUnchanged,
           NEW d, d.fd = c, Continue(d), Told(d.k, d.s, socket[c].script)
    PROVE  PeersTold'
<1>1. ScriptsKept /\ Store(d)
  BY ScriptsKeptBySteps DEF DriveUnchanged, Continue
<1>. QED  BY <1>1, StoredTold

\* An iteration of drive() for connection c, whose BIOs are bios.
LEMMA TurnTold ==
    ASSUME CoreInv, PeersTold, NEW c \in connections, conn[c].phase # "draining",
           NEW bios, BiosOk(bios), ssl[c].fetched <= bios.available,
           bios.script = socket[c].script, NEW i, i = Iteration(Context(c), bios)
    PROVE  Told(i.d.k, i.d.s, socket[c].script)
<1>1. PICK d : d = Context(c)
  OBVIOUS
<1>2. /\ d = [fd |-> d.fd, k |-> d.k, s |-> d.s, sq |-> d.sq, kernel |-> d.kernel]
      /\ d.k = conn[c] /\ d.s = ssl[c]
  BY <1>1 DEF Context
<1>3. conn[c] \in Connection /\ ssl[c] \in Ssl
  BY DEF CoreInv, TypeOK
<1>4. InBounds(conn[c])
  BY DEF CoreInv, ConnectionsOk, Accounts
<1>5. Told(conn[c], ssl[c], bios.script)
  BY DEF PeersTold
<1>. QED  BY <1>1, <1>2, <1>3, <1>4, <1>5, IterationTold

-----------------------------------------------------------------------------
(* Whose turn it is: what a connection's SSL has done in each phase, when  *)
(* peers follow the protocol.                                              *)

AllFlights == FlightsRead(Len(HandshakeSteps))

\* A handshake in progress has consumed the flights it has read, and has
\* begun to write a flight only when that is the next step.
Shaking(s) ==
    /\ s.steps <= Len(HandshakeSteps) /\ s.consumed = FlightsRead(s.steps)
    /\ s.writing = NULL \/ (s.writing = "flight" /\ WritesNext(s))

Closed(s) == s.out # <<>> /\ s.out[Len(s.out)] = "close_notify"

\* A write that has to be repeated is the one the phase repeats, and a
\* connection past its handshake has no flight left to read.
InTurn(k, s) ==
    /\ k.phase = "handshake" => Shaking(s)
    /\ k.phase \in {"reading", "writing"} => Handshaken(s) /\ s.consumed >= AllFlights
    /\ k.phase \in {"reading", "draining"} => s.writing = NULL
    /\ k.phase = "writing" => s.writing \in {NULL, k.reply}
    /\ k.phase = "shutting_down" =>
          s.writing = NULL \/ (s.writing = "close_notify" /\ Closed(s) /\ Handshaken(s))
    /\ k.phase = "draining" => Closed(s) /\ Unwritten(s) = 0

\* Each step of the handshake reads one flight or none.
LEMMA FlightsOfSteps ==
    ASSUME NEW n \in Nat, n < Len(HandshakeSteps)
    PROVE  /\ FlightsRead(n) \in Nat /\ FlightsRead(n + 1) \in Nat
           /\ FlightsRead(n + 1)
                  = IF HandshakeSteps[n + 1] = "read" THEN FlightsRead(n) + 1 ELSE FlightsRead(n)
           /\ FlightsRead(n + 1) <= AllFlights
<1> DEFINE Reads(m) == {i \in 1..m : HandshakeSteps[i] = "read"}
<1>1. Len(HandshakeSteps) \in Nat
  BY EngineAssumption, LenProperties
<1>2. ASSUME NEW m \in Nat
      PROVE  IsFiniteSet(Reads(m)) /\ Cardinality(Reads(m)) \in Nat /\ FlightsRead(m) = Cardinality(Reads(m))
  <2>1. IsFiniteSet(1..m)
    BY FS_Interval
  <2>2. Reads(m) \subseteq 1..m
    OBVIOUS
  <2>3. IsFiniteSet(Reads(m))
    BY <2>1, <2>2, FS_Subset
  <2>. QED  BY <2>3, FS_CardinalityType DEF FlightsRead
<1>4. FlightsRead(n + 1)
          = IF HandshakeSteps[n + 1] = "read" THEN FlightsRead(n) + 1 ELSE FlightsRead(n)
  <2>1. 1..(n + 1) = (1..n) \cup {n + 1} /\ n + 1 \notin 1..n /\ n + 1 \in Nat
    OBVIOUS
  <2>2. CASE HandshakeSteps[n + 1] = "read"
    <3>1. Reads(n + 1) = Reads(n) \cup {n + 1} /\ n + 1 \notin Reads(n)
      BY <2>1, <2>2
    <3>2. PICK R : R = Reads(n)
      OBVIOUS
    <3>3. Cardinality(R \cup {n + 1}) = Cardinality(R) + 1
      BY <1>2, <3>1, <3>2, FS_AddElement
    <3>. QED  BY <1>2, <2>1, <2>2, <3>1, <3>2, <3>3
  <2>3. CASE HandshakeSteps[n + 1] # "read"
    <3>1. Reads(n + 1) = Reads(n)
      BY <2>1, <2>3
    <3>. QED  BY <1>2, <2>1, <2>3, <3>1
  <2>. QED  BY <2>2, <2>3
<1>5. FlightsRead(n + 1) <= AllFlights
  <2>1. PICK m \in Nat : m = Len(HandshakeSteps) /\ n + 1 <= m
    BY <1>1
  <2>2. Reads(n + 1) \subseteq Reads(m)
    BY <2>1
  <2>3. PICK R, S : R = Reads(n + 1) /\ S = Reads(m)
    OBVIOUS
  <2>4. Cardinality(R) <= Cardinality(S)
    BY <1>2, <2>2, <2>3, FS_Subset
  <2>5. n + 1 \in Nat
    OBVIOUS
  <2>. QED  BY <1>2, <2>1, <2>3, <2>4, <2>5 DEF AllFlights
<1>6. n + 1 \in Nat
  OBVIOUS
<1>. QED  BY <1>2, <1>4, <1>5, <1>6

LEMMA FlightsCounted == AllFlights \in Nat /\ FlightsRead(0) = 0
<1> DEFINE steps == 1..Len(HandshakeSteps)
<1>1. IsFiniteSet(steps)
  BY EngineAssumption, LenProperties, FS_Interval
<1>2. {i \in steps : HandshakeSteps[i] = "read"} \subseteq steps
  OBVIOUS
<1>3. AllFlights \in Nat
  BY <1>1, <1>2, FS_Subset, FS_CardinalityType DEF AllFlights, FlightsRead
<1>4. FlightsRead(0) = 0
  <2>1. {i \in 1..0 : HandshakeSteps[i] = "read"} = {}
    OBVIOUS
  <2>. QED  BY <2>1, FS_EmptySet DEF FlightsRead
<1>. QED  BY <1>3, <1>4

\* BIOs of a peer that follows the protocol.
PeerBios(bios) == BiosOk(bios) /\ Orderly(bios.script)

LEMMA NextInOrder ==
    ASSUME NEW s \in Ssl, NEW bios, PeerBios(bios), s.fetched <= bios.available, HasRecord(s)
    PROVE  /\ s.consumed + 1 <= AllFlights => NextRecord(s, bios).kind \in {"flight", "close_notify"}
           /\ s.consumed >= AllFlights => NextRecord(s, bios).kind \in {"data", "close_notify"}
<1>1. s.fetched \in Nat /\ s.consumed \in Nat /\ bios.available \in Nat
  BY DEF Ssl, BiosOk, PeerBios
<1>2. bios.script \in Seq(PeerRecord) /\ Len(bios.script) \in Nat
      /\ DOMAIN bios.script = 1..Len(bios.script)
  BY LenProperties DEF BiosOk, PeerBios
<1>3. s.consumed + 1 \in 1..Len(bios.script)
  BY <1>1, <1>2 DEF HasRecord, BiosOk, PeerBios, RecordPieces
<1>4. PICK i \in DOMAIN bios.script : i = s.consumed + 1
  BY <1>2, <1>3
<1>5. NextRecord(s, bios) = bios.script[i]
  BY <1>4 DEF NextRecord
<1>6. bios.script[i].kind \in {IF i <= AllFlights THEN "flight" ELSE "data", "close_notify"}
  BY DEF PeerBios, Orderly, AllFlights
<1>7. AllFlights \in Nat
  BY FlightsCounted
<1>8. s.consumed >= AllFlights => ~(i <= AllFlights)
  BY <1>1, <1>4, <1>7
<1>. QED  BY <1>4, <1>5, <1>6, <1>8

-----------------------------------------------------------------------------
(* A call of OpenSSL.                                                      *)

LEMMA FlushTurn ==
    ASSUME NEW s \in Ssl, NEW bios, BiosOk(bios)
    PROVE  LET r == Flush(s, bios)
           IN /\ r.verdict = "failed" => bios.behind = "reset"
              /\ r.verdict = "ok" => Unwritten(r.s) = 0
<1> DEFINE t == [s EXCEPT !.written = @ + Min({Unwritten(s), bios.limit - s.written})]
           u == [t EXCEPT !.writing = NULL]
<1>1. t.out = s.out /\ u.out = t.out /\ u.written = t.written
  BY DEF Ssl
<1>2. Unwritten(u) = Unwritten(t)
  BY <1>1 DEF Unwritten
<1>3. Flush(s, bios) = IF bios.behind = "reset" THEN Return("failed", s)
                       ELSE IF Unwritten(t) = 0 THEN Return("ok", u)
                       ELSE Return("want_write", t)
  BY DEF Flush
<1> HIDE DEF t, u
<1>. QED  BY <1>2, <1>3 DEF Return

\* A write that repeats the one begun, or begins one, fails on a reset only.
LEMMA ProduceTurn ==
    ASSUME NEW s \in Ssl, NEW bios, BiosOk(bios), NEW what \in Produced, s.writing \in {NULL, what}
    PROVE  LET r == Produce(s, bios, what)
           IN /\ r.verdict \in {"ok", "want_write", "failed"} /\ r.s \in Ssl
              /\ r.verdict = "failed" => bios.behind = "reset"
              /\ r.verdict = "ok" => Unwritten(r.s) = 0
              /\ r.s.writing = IF r.verdict = "ok" THEN NULL ELSE what
              /\ r.s.out = IF s.writing = NULL THEN Append(s.out, what) ELSE s.out
              /\ r.s.steps = s.steps /\ r.s.consumed = s.consumed
<1> DEFINE t == [s EXCEPT !.out = Append(@, what), !.writing = what]
<1>1. what # NULL
  BY NullIsNothing DEF Produced
<1>2. /\ t \in Ssl
  <2>1. Append(s.out, what) \in Seq(Produced)
    BY DEF Ssl
  <2>. QED  BY <2>1 DEF Ssl
<1>3. PICK r : r = Produce(s, bios, what)
  OBVIOUS
<1>4. /\ r.verdict \in {"ok", "want_write", "failed"} /\ r.s \in Ssl /\ r.s.steps = s.steps
  BY <1>3, ProduceResult DEF CallResults
<1>5. ProducesOnce(s, r, what)
  BY <1>3, ProduceOnce
<1>6. /\ r.verdict = "failed" => bios.behind = "reset"
      /\ r.verdict = "ok" => Unwritten(r.s) = 0
  <2>1. PICK u \in Ssl : r = Flush(u, bios)
    <3>1. r = IF s.writing = NULL THEN Flush(t, bios) ELSE Flush(s, bios)
      BY <1>1, <1>3 DEF Produce
    <3> HIDE DEF t
    <3>. QED  BY <1>2, <3>1
  <2>. QED  BY <2>1, FlushTurn
<1>7. /\ r.s.writing = IF r.verdict = "ok" THEN NULL ELSE what
      /\ r.s.out = IF s.writing = NULL THEN Append(s.out, what) ELSE s.out
      /\ r.s.consumed = s.consumed
  BY <1>1, <1>5 DEF ProducesOnce, SameReading
<1>. QED  BY <1>3, <1>4, <1>6, <1>7

\* Of a handshake in progress: it goes on, or it has a reason not to.
ShakenBy(r, bios) ==
    /\ r.verdict \in {"ok", "want_read", "want_write", "failed"} => Shaking(r.s)
    /\ r.verdict = "zero_return" => r.s.writing = NULL
    /\ r.verdict = "failed" => bios.behind # "more"

\* One step more.
Shaken(s, r, bios) == ShakenBy(r, bios) /\ (r.verdict = "ok" => r.s.steps = s.steps + 1)

LEMMA ReadFlightTurn ==
    ASSUME NEW s \in Ssl, NEW bios, PeerBios(bios), s.fetched <= bios.available,
           Shaking(s), ReadsNext(s)
    PROVE  Shaken(s, ReadFlight(Fetch(s, bios), bios), bios)
<1> DEFINE f == Fetch(s, bios)
           r == ReadFlight(f, bios)
<1>1. f \in Ssl /\ f.fetched <= bios.available /\ f = [s EXCEPT !.fetched = f.fetched]
  BY FetchResult DEF PeerBios
<1>2. f.steps = s.steps /\ f.consumed = s.consumed /\ f.writing = s.writing
  BY <1>1 DEF Ssl
<1> HIDE DEF f
<1>3. /\ s.steps \in Nat /\ s.steps < Len(HandshakeSteps) /\ s.consumed = FlightsRead(s.steps)
      /\ HandshakeSteps[s.steps + 1] = "read" /\ s.writing = NULL
  <2>1. Len(HandshakeSteps) \in Nat /\ s.steps \in Nat
    BY EngineAssumption, LenProperties DEF Ssl
  <2>. QED  BY <2>1 DEF Shaking, ReadsNext, WritesNext, Handshaken
<1>4. /\ FlightsRead(s.steps + 1) = FlightsRead(s.steps) + 1
      /\ FlightsRead(s.steps + 1) <= AllFlights
  BY <1>3, FlightsOfSteps
<1>5. Shaking(f)
  BY <1>2, <1>3 DEF Shaking
<1>6. CASE ~HasRecord(f)
  <2>1. r = Starved(f, bios)
    BY <1>6 DEF ReadFlight
  <2>2. r.s = f /\ r.verdict \in {"want_read", "failed"}
        /\ (r.verdict = "failed" => bios.behind # "more")
    BY <2>1 DEF Starved, Return
  <2>3. Shaken(s, r, bios)
    BY <1>5, <2>2 DEF ShakenBy, Shaken
  <2>. QED  BY <2>3 DEF f
<1>7. CASE HasRecord(f)
  <2> DEFINE t == [Consume(f) EXCEPT !.steps = @ + 1]
  <2>1. NextRecord(f, bios).kind \in {"flight", "close_notify"}
    <3>1. f.consumed + 1 <= AllFlights
      BY <1>2, <1>3, <1>4
    <3>. QED  BY <1>1, <1>7, <3>1, NextInOrder
  <2>2. r = Return("ok", t) \/ r = Return("zero_return", Consume(f))
    BY <1>7, <2>1 DEF ReadFlight
  <2>3. /\ Consume(f).writing = f.writing /\ t.writing = f.writing
        /\ t.steps = f.steps + 1 /\ t.consumed = f.consumed + 1
    BY <1>1 DEF Ssl, Consume
  <2> HIDE DEF t, r
  <2>4. Shaking(t)
    <3>1. Len(HandshakeSteps) \in Nat
      BY EngineAssumption, LenProperties
    <3>2. s.steps + 1 <= Len(HandshakeSteps)
      BY <1>3, <3>1
    <3>3. t.steps = s.steps + 1 /\ t.consumed = FlightsRead(t.steps) /\ t.writing = NULL
      BY <1>2, <1>3, <1>4, <2>3
    <3>. QED  BY <3>2, <3>3 DEF Shaking
  <2>5. Shaken(s, r, bios)
    BY <1>2, <1>3, <2>2, <2>3, <2>4 DEF ShakenBy, Shaken, Return
  <2>. QED  BY <2>5 DEF r, f
<1>. QED  BY <1>6, <1>7

LEMMA WriteFlightTurn ==
    ASSUME NEW s \in Ssl, NEW bios, PeerBios(bios), s.fetched <= bios.available,
           Shaking(s), WritesNext(s)
    PROVE  Shaken(s, WriteFlight(Produce(s, bios, "flight")), bios)
<1> DEFINE p == Produce(s, bios, "flight")
           r == WriteFlight(p)
<1>1. /\ p.verdict \in {"ok", "want_write", "failed"} /\ p.s \in Ssl
      /\ p.verdict = "failed" => bios.behind = "reset"
      /\ p.s.writing = IF p.verdict = "ok" THEN NULL ELSE "flight"
      /\ p.s.steps = s.steps /\ p.s.consumed = s.consumed
  <2>1. PICK what \in Produced : what = "flight"
    BY DEF Produced
  <2>2. s.writing \in {NULL, what} /\ BiosOk(bios)
    BY <2>1 DEF Shaking, PeerBios
  <2>. QED  BY <2>1, <2>2, ProduceTurn
<1>2. p \in CallResults
  <2>1. "flight" \in Produced
    BY DEF Produced
  <2>. QED  BY <2>1, ProduceResult DEF PeerBios
<1> HIDE DEF p
<1>3. /\ s.steps \in Nat /\ s.steps < Len(HandshakeSteps) /\ s.consumed = FlightsRead(s.steps)
      /\ HandshakeSteps[s.steps + 1] # "read" /\ Len(HandshakeSteps) \in Nat
  <2>1. Len(HandshakeSteps) \in Nat /\ s.steps \in Nat
    BY EngineAssumption, LenProperties DEF Ssl
  <2>. QED  BY <2>1 DEF Shaking, WritesNext, Handshaken
<1>4. FlightsRead(s.steps + 1) = FlightsRead(s.steps)
  BY <1>3, FlightsOfSteps
<1>5. CASE p.verdict = "ok"
  <2>1. PICK t : t = [p.s EXCEPT !.steps = p.s.steps + 1]
    OBVIOUS
  <2>2. r = [p EXCEPT !.s = t]
    BY <1>2, <1>5, <2>1 DEF WriteFlight, CallResults
  <2>3. r.verdict = "ok" /\ r.s = t
    BY <1>2, <1>5, <2>2 DEF CallResults
  <2>4. t.steps = s.steps + 1 /\ t.consumed = s.consumed /\ t.writing = NULL
    BY <1>1, <1>5, <2>1 DEF Ssl
  <2>5. Shaking(t)
    BY <1>3, <1>4, <2>4 DEF Shaking
  <2>. QED  BY <2>3, <2>4, <2>5 DEF ShakenBy, Shaken, p
<1>6. CASE p.verdict # "ok"
  <2>1. r = p
    BY <1>6 DEF WriteFlight
  <2>2. Shaking(p.s)
    BY <1>1, <1>3, <1>6 DEF Shaking, WritesNext, Handshaken
  <2>. QED  BY <1>1, <1>6, <2>1, <2>2 DEF ShakenBy, Shaken, p
<1>. QED  BY <1>5, <1>6

\* r, after n steps of a handshake or when something has stopped it.
Underway(r, bios, n) ==
    /\ HandshakeResult(r, bios) /\ ShakenBy(r, bios)
    /\ r.verdict = "ok" => Handshaken(r.s) \/ r.s.steps >= n

LEMMA AdvanceTurn ==
    ASSUME NEW r, NEW bios, PeerBios(bios), NEW n \in Nat, Underway(r, bios, n)
    PROVE  Underway(Advance(r, bios), bios, n + 1)
<1>1. HandshakeResult(Advance(r, bios), bios)
  BY AdvanceResult DEF Underway, PeerBios
<1>2. r.s \in Ssl /\ r.s.fetched <= bios.available
  BY DEF Underway, HandshakeResult, CallResults
<1>3. CASE r.verdict # "ok" \/ Handshaken(r.s)
  <2>1. Advance(r, bios) = r
    BY <1>3 DEF Advance
  <2>. QED  BY <1>3, <2>1 DEF Underway
<1>4. CASE r.verdict = "ok" /\ ~Handshaken(r.s)
  <2>1. PICK s \in Ssl : s = r.s
    BY <1>2
  <2>2. Shaking(s) /\ s.fetched <= bios.available /\ s.steps >= n /\ s.steps \in Nat
    BY <1>2, <1>4, <2>1 DEF Underway, ShakenBy, Ssl
  <2>3. Shaken(s, Advance(r, bios), bios)
    <3>1. CASE HandshakeSteps[s.steps + 1] = "read"
      <4>1. Advance(r, bios) = ReadFlight(Fetch(s, bios), bios)
        BY <1>4, <2>1, <3>1 DEF Advance
      <4>2. ReadsNext(s)
        BY <1>4, <2>1, <3>1 DEF ReadsNext
      <4>. QED  BY <2>2, <4>1, <4>2, ReadFlightTurn
    <3>2. CASE HandshakeSteps[s.steps + 1] # "read"
      <4>1. Advance(r, bios) = WriteFlight(Produce(s, bios, "flight"))
        BY <1>4, <2>1, <3>2 DEF Advance
      <4>2. WritesNext(s)
        BY <1>4, <2>1, <3>2 DEF WritesNext
      <4>. QED  BY <2>2, <4>1, <4>2, WriteFlightTurn
    <3>. QED  BY <3>1, <3>2
  <2>4. PICK u : u = Advance(r, bios)
    OBVIOUS
  <2>5. u.verdict = "ok" => u.s.steps >= n + 1
    BY <2>2, <2>3, <2>4 DEF Shaken
  <2>. QED  BY <1>1, <2>3, <2>4, <2>5 DEF Underway, Shaken
<1>. QED  BY <1>3, <1>4

\* SSL_do_handshake, in its turn: it returns 1 when the handshake is done.
LEMMA DoHandshakeTurn ==
    ASSUME NEW s \in Ssl, NEW bios, PeerBios(bios), s.fetched <= bios.available, Shaking(s)
    PROVE  LET r == DoHandshake(s, bios)
           IN /\ r.verdict \in {"ok", "zero_return", "want_read", "want_write", "failed"}
              /\ ShakenBy(r, bios)
              /\ r.verdict = "ok" =>
                    Handshaken(r.s) /\ r.s.consumed = AllFlights /\ r.s.writing = NULL
<1>1. PICK r0 : r0 = Return("ok", s)
  OBVIOUS
<1>2. Underway(r0, bios, 0)
  <2>1. HandshakeResult(r0, bios) /\ r0.s = s /\ r0.verdict = "ok"
    BY <1>1, ReturnType DEF HandshakeResult
  <2>2. s.steps >= 0
    BY DEF Ssl
  <2>. QED  BY <2>1, <2>2 DEF Underway, ShakenBy
<1>3. PICK r1 : r1 = Advance(r0, bios)
  OBVIOUS
<1>4. PICK r2 : r2 = Advance(r1, bios)
  OBVIOUS
<1>5. PICK r3 : r3 = Advance(r2, bios)
  OBVIOUS
<1>6. PICK r4 : r4 = Advance(r3, bios)
  OBVIOUS
<1>7. PICK r : r = Advance(r4, bios)
  OBVIOUS
<1>8. Underway(r1, bios, 1)
  BY <1>2, <1>3, AdvanceTurn
<1>9. Underway(r2, bios, 2)
  BY <1>4, <1>8, AdvanceTurn
<1>10. Underway(r3, bios, 3)
  BY <1>5, <1>9, AdvanceTurn
<1>11. Underway(r4, bios, 4)
  BY <1>6, <1>10, AdvanceTurn
<1>12. Underway(r, bios, 5)
  BY <1>7, <1>11, AdvanceTurn
<1>13. r = DoHandshake(s, bios)
  BY <1>1, <1>3, <1>4, <1>5, <1>6, <1>7 DEF DoHandshake
<1>14. r.s \in Ssl /\ ShakenBy(r, bios)
       /\ r.verdict \in {"ok", "zero_return", "want_read", "want_write", "failed"}
  BY <1>12 DEF Underway, HandshakeResult, CallResults
<1>15. ASSUME r.verdict = "ok"
       PROVE  Handshaken(r.s) /\ r.s.consumed = AllFlights /\ r.s.writing = NULL
  <2>1. Shaking(r.s) /\ (Handshaken(r.s) \/ r.s.steps >= 5)
    BY <1>12, <1>15 DEF Underway, ShakenBy
  <2>2. Len(HandshakeSteps) \in Nat /\ Len(HandshakeSteps) <= 5 /\ r.s.steps \in Nat
    BY <1>14, EngineAssumption, LenProperties DEF MaxFlights, Ssl
  <2>3. Handshaken(r.s)
    BY <2>1, <2>2 DEF Shaking, Handshaken
  <2>. QED  BY <2>1, <2>3 DEF Shaking, WritesNext, Handshaken, AllFlights
<1>. QED  BY <1>13, <1>14, <1>15

-----------------------------------------------------------------------------
(* An iteration of drive().                                                *)

\* A call that fails has a reason: the peer left, or close_notify is called for
\* in the middle of a handshake, with nothing begun.
Excused(s, r, behind) ==
    r.verdict = "failed" => behind # "more" \/ (~Handshaken(s) /\ s.writing = NULL)

\* What a call does to a connection, in its turn.
TurnedBy(k, s, bios, r) == InTurn(Outcome(k, r), r.s) /\ Excused(s, r, bios.behind)

LEMMA HandshakeInTurn ==
    ASSUME NEW k \in Connection, k.phase = "handshake", NEW s \in Ssl, InTurn(k, s),
           NEW bios, PeerBios(bios), s.fetched <= bios.available
    PROVE  TurnedBy(k, s, bios, DoHandshake(s, bios))
<1>1. Shaking(s)
  BY DEF InTurn
<1>2. PICK r : r = DoHandshake(s, bios)
  OBVIOUS
<1>3. /\ r.verdict \in {"ok", "zero_return", "want_read", "want_write", "failed"}
      /\ ShakenBy(r, bios)
      /\ r.verdict = "ok" => Handshaken(r.s) /\ r.s.consumed = AllFlights /\ r.s.writing = NULL
  BY <1>1, <1>2, DoHandshakeTurn
<1>4. PICK l : l = Outcome(k, r)
  OBVIOUS
<1>5. l.phase = CASE r.verdict = "ok" -> "reading"
                  [] r.verdict = "zero_return" -> "shutting_down"
                  [] OTHER -> "handshake"
  BY <1>3, <1>4 DEF Outcome, Succeeded, StreamEnded, Connection
<1>6. AllFlights \in Nat
  BY FlightsCounted
<1>7. InTurn(l, r.s)
  <2>1. CASE r.verdict = "ok"
    BY <1>3, <1>5, <1>6, <2>1 DEF InTurn
  <2>2. CASE r.verdict = "zero_return"
    BY <1>3, <1>5, <2>2 DEF InTurn, ShakenBy
  <2>3. CASE r.verdict \in {"want_read", "want_write", "failed"}
    BY <1>3, <1>5, <2>3 DEF InTurn, ShakenBy
  <2>. QED  BY <1>3, <2>1, <2>2, <2>3
<1>8. Excused(s, r, bios.behind)
  BY <1>3 DEF Excused, ShakenBy
<1>. QED  BY <1>2, <1>4, <1>7, <1>8 DEF TurnedBy

LEMMA ReadInTurn ==
    ASSUME NEW k \in Connection, k.phase = "reading", NEW s \in Ssl, InTurn(k, s),
           NEW bios, PeerBios(bios), s.fetched <= bios.available, NEW room
    PROVE  TurnedBy(k, s, bios, SslRead(s, bios, room))
<1>1. Handshaken(s) /\ s.consumed >= AllFlights /\ s.writing = NULL
  BY DEF InTurn
<1>2. AllFlights \in Nat /\ s.consumed \in Nat
  BY FlightsCounted DEF Ssl
<1>3. PICK r : r = SslRead(s, bios, room)
  OBVIOUS
<1>4. /\ r.s.steps = s.steps /\ r.s.writing = s.writing /\ r.s.consumed >= AllFlights
      /\ r.verdict \in {"ok", "zero_return", "want_read", "failed"}
      /\ r.verdict = "failed" => bios.behind # "more"
  <2>1. ASSUME NEW t \in Ssl
        PROVE  LET u == Deliver(t, room)
               IN u.s.steps = t.steps /\ u.s.writing = t.writing /\ u.s.consumed = t.consumed
                    /\ u.verdict = "ok"
    BY DEF Deliver, Ssl
  <2>2. CASE s.plain # <<>>
    <3>1. r = Deliver(s, room)
      BY <1>3, <2>2 DEF SslRead
    <3>. QED  BY <1>1, <2>1, <3>1
  <2>3. CASE s.plain = <<>>
    <3>1. PICK f : f = Fetch(s, bios)
      OBVIOUS
    <3>2. f \in Ssl /\ f.fetched <= bios.available /\ f = [s EXCEPT !.fetched = f.fetched]
      BY <3>1, FetchResult DEF PeerBios
    <3>3. f.steps = s.steps /\ f.consumed = s.consumed /\ f.writing = s.writing
      BY <3>2 DEF Ssl
    <3>4. r = ReadRecord(f, bios, room)
      BY <1>3, <2>3, <3>1 DEF SslRead
    <3>5. CASE ~HasRecord(f)
      <4>1. r = Starved(f, bios)
        BY <3>4, <3>5 DEF ReadRecord
      <4>2. r.s = f /\ r.verdict \in {"want_read", "failed"}
            /\ (r.verdict = "failed" => bios.behind # "more")
        BY <4>1 DEF Starved, Return
      <4>. QED  BY <1>1, <3>3, <4>2
    <3>6. CASE HasRecord(f)
      <4>1. NextRecord(f, bios).kind \in {"data", "close_notify"}
        BY <1>1, <3>2, <3>3, <3>6, NextInOrder
      <4>2. PICK g : g = Consume(f)
        OBVIOUS
      <4>3. g \in Ssl /\ g.steps = s.steps /\ g.writing = s.writing /\ g.consumed = s.consumed + 1
        <5>1. g \in Ssl
          BY <3>2, <4>2, ConsumeType
        <5>. QED  BY <3>2, <3>3, <4>2, <5>1 DEF Consume, Ssl
      <4>4. g.consumed >= AllFlights
        BY <1>1, <1>2, <4>3
      <4>5. CASE NextRecord(f, bios).kind = "close_notify"
        <5>1. r = Return("zero_return", g)
          BY <3>4, <3>6, <4>2, <4>5 DEF ReadRecord
        <5>. QED  BY <4>3, <4>4, <5>1 DEF Return
      <4>6. CASE NextRecord(f, bios).kind = "data"
        <5>1. NextRecord(f, bios) \in PeerRecord
          BY <3>2, <3>6, RecordOfScript DEF PeerBios
        <5>2. PICK lines \in Seq(Line) : lines = NextRecord(f, bios).lines
          BY <4>6, <5>1 DEF PeerRecord
        <5>3. PICK t : t = [g EXCEPT !.plain = lines]
          OBVIOUS
        <5>4. t \in Ssl /\ t.steps = g.steps /\ t.writing = g.writing /\ t.consumed = g.consumed
          BY <4>3, <5>2, <5>3 DEF Ssl
        <5>5. r = Deliver(t, room)
          BY <3>4, <3>6, <4>2, <4>6, <5>2, <5>3 DEF ReadRecord
        <5>. QED  BY <2>1, <4>3, <4>4, <5>4, <5>5
      <4>. QED  BY <4>1, <4>5, <4>6
    <3>. QED  BY <3>5, <3>6
  <2>. QED  BY <2>2, <2>3
<1>5. PICK l : l = Outcome(k, r)
  OBVIOUS
<1>6. l.phase = "reading"
  BY <1>5 DEF Outcome, Succeeded, StreamEnded, Connection
<1>7. InTurn(l, r.s)
  BY <1>1, <1>4, <1>6 DEF InTurn, Handshaken
<1>8. Excused(s, r, bios.behind)
  BY <1>4 DEF Excused
<1>. QED  BY <1>3, <1>5, <1>7, <1>8 DEF TurnedBy

LEMMA WriteInTurn ==
    ASSUME NEW k, InBounds(k), k.phase = "writing", NEW s \in Ssl, InTurn(k, s),
           NEW bios, PeerBios(bios)
    PROVE  TurnedBy(k, s, bios, SslWrite(s, bios, k.reply))
<1>1. PICK reply \in Produced : reply = k.reply
  BY DEF InBounds, Connection, Produced
<1>2. Handshaken(s) /\ s.consumed >= AllFlights /\ s.writing \in {NULL, reply} /\ BiosOk(bios)
  BY <1>1 DEF InTurn, PeerBios
<1>3. PICK r : r = Produce(s, bios, reply)
  OBVIOUS
<1>4. /\ r.verdict \in {"ok", "want_write", "failed"}
      /\ r.verdict = "failed" => bios.behind = "reset"
      /\ r.s.writing = IF r.verdict = "ok" THEN NULL ELSE reply
      /\ r.s.steps = s.steps /\ r.s.consumed = s.consumed
  BY <1>2, <1>3, ProduceTurn
<1>5. PICK l : l = Outcome(k, r)
  OBVIOUS
<1>6. /\ l.reply = k.reply
      /\ l.phase \in IF r.verdict = "ok" THEN {"shutting_down", "reading"} ELSE {"writing"}
  BY <1>4, <1>5 DEF Outcome, Succeeded, InBounds, Connection
<1>7. InTurn(l, r.s)
  <2>1. CASE r.verdict = "ok"
    BY <1>2, <1>4, <1>6, <2>1 DEF InTurn, Handshaken
  <2>2. CASE r.verdict # "ok"
    BY <1>1, <1>2, <1>4, <1>6, <2>2 DEF InTurn, Handshaken
  <2>. QED  BY <2>1, <2>2
<1>8. Excused(s, r, bios.behind)
  BY <1>4 DEF Excused
<1>. QED  BY <1>1, <1>3, <1>5, <1>7, <1>8 DEF TurnedBy, SslWrite

LEMMA ShutdownInTurn ==
    ASSUME NEW k \in Connection, k.phase = "shutting_down", NEW s \in Ssl, InTurn(k, s),
           NEW bios, PeerBios(bios)
    PROVE  TurnedBy(k, s, bios, SslShutdown(s, bios))
<1>1. PICK what \in Produced : what = "close_notify"
  BY DEF Produced
<1>2. s.writing = NULL \/ (s.writing = what /\ Closed(s) /\ Handshaken(s))
  BY <1>1 DEF InTurn
<1>3. CASE ~Handshaken(s)
  <2>1. SslShutdown(s, bios) = Return("failed", s)
    BY <1>3 DEF SslShutdown
  <2>2. Outcome(k, Return("failed", s)) = k
    BY DEF Outcome, Return
  <2>. QED  BY <1>2, <1>3, <2>1, <2>2 DEF TurnedBy, Excused, Return
<1>4. CASE Handshaken(s)
  <2>1. PICK r : r = Produce(s, bios, what)
    OBVIOUS
  <2>2. s.writing \in {NULL, what} /\ BiosOk(bios)
    BY <1>2 DEF PeerBios
  <2>3. /\ r.verdict \in {"ok", "want_write", "failed"} /\ r.s \in Ssl
        /\ r.verdict = "failed" => bios.behind = "reset"
        /\ r.verdict = "ok" => Unwritten(r.s) = 0
        /\ r.s.writing = IF r.verdict = "ok" THEN NULL ELSE what
        /\ r.s.out = IF s.writing = NULL THEN Append(s.out, what) ELSE s.out
        /\ r.s.steps = s.steps
    BY <2>1, <2>2, ProduceTurn
  <2>4. Closed(r.s)
    <3>1. CASE s.writing = NULL
      <4>1. PICK out \in Seq(Produced) : out = s.out
        BY DEF Ssl
      <4>2. /\ Append(out, what) # <<>> /\ Len(Append(out, what)) = Len(out) + 1
            /\ Append(out, what)[Len(out) + 1] = what
        <5>1. /\ Append(out, what) \in Seq(Produced) /\ Len(out) \in Nat
              /\ Len(Append(out, what)) = Len(out) + 1 /\ Append(out, what)[Len(out) + 1] = what
          BY AppendProperties, LenProperties
        <5>2. Len(<<>>) = 0
          BY EmptySeq
        <5>. QED  BY <5>1, <5>2
      <4>. QED  BY <1>1, <2>3, <3>1, <4>1, <4>2 DEF Closed
    <3>2. CASE s.writing # NULL
      BY <1>2, <2>3, <3>2 DEF Closed
    <3>. QED  BY <3>1, <3>2
  <2>5. PICK l : l = Outcome(k, r)
    OBVIOUS
  <2>6. l.phase = IF r.verdict = "ok" THEN "draining" ELSE "shutting_down"
    BY <2>3, <2>5 DEF Outcome, Succeeded, Connection
  <2>7. InTurn(l, r.s)
    BY <1>1, <1>4, <2>3, <2>4, <2>6 DEF InTurn, Handshaken
  <2>8. Excused(s, r, bios.behind)
    BY <2>3 DEF Excused
  <2>. QED  BY <1>1, <1>4, <2>1, <2>5, <2>7, <2>8 DEF TurnedBy, SslShutdown
<1>. QED  BY <1>3, <1>4

LEMMA ParseInTurn ==
    ASSUME NEW k, InBounds(k), NEW s, InTurn(k, s)
    PROVE  InTurn(ParseInput(k), s)
<1>1. CASE ParseInput(k) = k
  BY <1>1
<1>2. CASE ParseInput(k) # k
  <2>1. k.phase = "reading" /\ k \in Connection
    BY <1>2 DEF ParseInput, InBounds
  <2>2. s.writing = NULL /\ Handshaken(s) /\ s.consumed >= AllFlights
    BY <2>1 DEF InTurn
  <2>3. ParseInput(k).phase \in {"writing", "shutting_down"}
    <3>1. StartReply(k, Parsed(k)).phase = "writing"
      BY <2>1 DEF StartReply, Connection
    <3>2. [k EXCEPT !.phase = "shutting_down"].phase = "shutting_down"
      BY <2>1 DEF Connection
    <3>. QED  BY <1>2, <2>1, <3>1, <3>2 DEF ParseInput
  <2>. QED  BY <2>2, <2>3 DEF InTurn
<1>. QED  BY <1>1, <1>2

\* One iteration of drive(), of a connection in its turn.
LEMMA IterationInTurn ==
    ASSUME NEW d, InBounds(d.k), d.k.phase # "draining", d.s \in Ssl, InTurn(d.k, d.s),
           d = [fd |-> d.fd, k |-> d.k, s |-> d.s, sq |-> d.sq, kernel |-> d.kernel],
           NEW bios, PeerBios(bios), d.s.fetched <= bios.available
    PROVE  LET i == Iteration(d, bios)
           IN InTurn(i.d.k, i.d.s) /\ Excused(d.s, i, bios.behind)
<1>1. PICK k : k = ParseInput(d.k)
  OBVIOUS
<1>2. InBounds(k) /\ k.phase # "draining" /\ InTurn(k, d.s)
  BY <1>1, ParseInputResult, ParseInTurn
<1>3. k \in Connection /\ k.phase \in Phases
  BY <1>2 DEF InBounds, Connection
<1>4. PICK s \in Ssl : s = d.s
  OBVIOUS
<1>5. PICK r : r = Perform(k, s, bios)
  OBVIOUS
<1>6. TurnedBy(k, s, bios, r)
  <2>1. CASE k.phase = "handshake"
    BY <1>2, <1>3, <1>4, <1>5, <2>1, HandshakeInTurn DEF Perform
  <2>2. CASE k.phase = "reading"
    BY <1>2, <1>3, <1>4, <1>5, <2>2, ReadInTurn DEF Perform
  <2>3. CASE k.phase = "writing"
    BY <1>2, <1>4, <1>5, <2>3, WriteInTurn DEF Perform
  <2>4. CASE k.phase = "shutting_down"
    BY <1>2, <1>3, <1>4, <1>5, <2>4, ShutdownInTurn DEF Perform
  <2>. QED  BY <1>2, <1>3, <2>1, <2>2, <2>3, <2>4 DEF Phases
<1>7. Iteration(d, bios) = Applied(d, k, r)
  BY <1>1, <1>4, <1>5 DEF Iteration, CallOpenSsl
<1>8. /\ Applied(d, k, r).d.k = Outcome(k, r) /\ Applied(d, k, r).d.s = r.s
      /\ Applied(d, k, r).verdict = r.verdict
  BY DEF Applied, Outcome
<1>. QED  BY <1>4, <1>6, <1>7, <1>8 DEF TurnedBy, Excused

-----------------------------------------------------------------------------
(* The steps of a worker, and whose turn it is.                            *)

TurnsOk == \A c \in connections : InTurn(conn[c], ssl[c])

LEMMA SameTalkInTurn ==
    ASSUME NEW k, NEW l, NEW s, InTurn(k, s), SameTalk(k, l)
    PROVE  InTurn(l, s)
  BY DEF InTurn, SameTalk

LEMMA FreshInTurn == InTurn(NewConnection, NewSsl)
<1>1. Len(HandshakeSteps) \in Nat
  BY EngineAssumption, LenProperties
<1>2. Shaking(NewSsl)
  BY <1>1, FlightsCounted DEF Shaking, NewSsl
<1>. QED  BY <1>2 DEF InTurn, NewConnection

LEMMA StoredInTurn ==
    ASSUME CoreInv, TurnsOk, NEW c \in connections, NEW e, e.fd = c, Store(e), InTurn(e.k, e.s)
    PROVE  TurnsOk'
<1>1. /\ connections' \subseteq connections
      /\ \A b \in connections' : b # c => conn'[b] = conn[b] /\ ssl'[b] = ssl[b]
      /\ c \in connections' => conn'[c] = e.k /\ ssl'[c] = e.s
  BY StoredConnections
<1>2. ASSUME NEW b \in connections' PROVE InTurn(conn'[b], ssl'[b])
  BY <1>1 DEF TurnsOk
<1>. QED  BY <1>2 DEF TurnsOk

\* A completion that ends with release().
LEMMA ConcludedInTurn ==
    ASSUME CoreInv, TurnsOk, NEW c \in connections, NEW d \in Contexts, d.fd = c,
           InTurn(d.k, d.s), Store(Release(d))
    PROVE  TurnsOk'
<1>1. Release(d).fd = d.fd /\ Release(d).s = d.s
  BY DEF Release, Contexts
<1>2. InTurn(Release(d).k, Release(d).s)
  BY <1>1, ReleaseTalk, SameTalkInTurn
<1>. QED  BY <1>1, <1>2, StoredInTurn

\* drive() returns.
LEMMA LeaveInTurn ==
    ASSUME CoreInv, TurnsOk, NEW c \in Fds, Driving(c), DriveUnchanged,
           NEW d, Good(d, EndedOps, Held(c)), d.fd = c,
           Prepares(d, ConnectionOps(c)), d.s.fetched <= socket[c].arrived, Leave(d),
           InTurn(d.k, d.s)
    PROVE  TurnsOk'
<1>1. /\ c \in connections
      /\ \E e : Store(e) /\ e.fd = c /\ e.s = d.s /\ e.k \in {d.k, Released(d.k)}
  BY LeaveKeeps
<1>2. PICK e : Store(e) /\ e.fd = c /\ e.s = d.s /\ e.k \in {d.k, Released(d.k)}
  BY <1>1
<1>3. d.k \in Connection
  BY DEF Good, Accounts, InBounds
<1>4. SameTalk(d.k, e.k)
  BY <1>2, <1>3, ConnectionTalk
<1>5. InTurn(e.k, e.s)
  BY <1>2, <1>4, SameTalkInTurn
<1>. QED  BY <1>1, <1>2, <1>5, StoredInTurn

\* finish(), and drive() returns.
LEMMA FinishInTurn ==
    ASSUME CoreInv, TurnsOk, NEW c \in Fds, Driving(c), DriveUnchanged,
           NEW d, Good(d, EndedOps, Held(c)), d.fd = c, d.sq = sq, d.kernel = kernel,
           d.s.fetched <= socket[c].arrived, Leave(Finish(d)), InTurn(d.k, d.s)
    PROVE  TurnsOk'
<1> DEFINE e == Finish(d)
<1>1. Held(c) \in Nat
  BY DEF Held, Count
<1>2. Good(e, EndedOps, Held(c)) /\ Grows(d, e, EndedOps, ConnectionOps(c))
  BY <1>1, FinishGood
<1>3. InTurn(e.k, d.s)
  <2>1. SameTalk(d.k, e.k)
    BY FinishTalk DEF Good, Queues
  <2> HIDE DEF e
  <2>. QED  BY <2>1, SameTalkInTurn
<1>4. Leave(e)
  OBVIOUS
<1> HIDE DEF e
<1>5. Prepares(e, ConnectionOps(c)) /\ e.fd = c /\ e.s = d.s
  BY <1>2, GrowsPrepares
<1>. QED  BY <1>2, <1>3, <1>4, <1>5, LeaveInTurn

LEMMA ScriptInOrder ==
    ASSUME CoreInv, OrderlyPeers, NEW c \in Fds
    PROVE  Orderly(socket[c].script)
<1>1. socket[c].script \in Scripts \cup {<<>>}
  BY DEF CoreInv, TypeOK, Socket
<1>2. Orderly(<<>>)
  BY EmptySeq DEF Orderly
<1>. QED  BY <1>1, <1>2 DEF OrderlyPeers

\* An iteration of drive().
LEMMA TurnInTurn ==
    ASSUME CoreInv, TurnsOk, OrderlyPeers, NEW c \in connections, conn[c].phase # "draining",
           NEW bios, BiosOk(bios), ssl[c].fetched <= bios.available,
           bios.script = socket[c].script, NEW i, i = Iteration(Context(c), bios)
    PROVE  InTurn(i.d.k, i.d.s) /\ Excused(ssl[c], i, bios.behind)
<1>1. PICK d : d = Context(c)
  OBVIOUS
<1>2. /\ d = [fd |-> d.fd, k |-> d.k, s |-> d.s, sq |-> d.sq, kernel |-> d.kernel]
      /\ d.k = conn[c] /\ d.s = ssl[c]
  BY <1>1 DEF Context
<1>3. c \in Fds /\ ssl[c] \in Ssl
  BY DEF CoreInv, TypeOK
<1>4. InBounds(conn[c])
  BY DEF CoreInv, ConnectionsOk, Accounts
<1>5. InTurn(conn[c], ssl[c])
  BY DEF TurnsOk
<1>6. PeerBios(bios)
  BY <1>3, ScriptInOrder DEF PeerBios
<1>7. i = Iteration(d, bios)
  BY <1>1
<1>. QED  BY <1>2, <1>3, <1>4, <1>5, <1>6, <1>7, IterationInTurn

LEMMA AcceptedInTurn ==
    ASSUME CoreInv, TurnsOk, AcceptedConnection
    PROVE  TurnsOk'
<1>1. PICK c \in Fds \ connections :
         /\ conn' = [conn EXCEPT ![c] = NewConnection] /\ ssl' = [ssl EXCEPT ![c] = NewSsl]
         /\ connections' = connections \cup {c}
  BY AcceptedConnectionKeeps DEF AcceptedConnection, Completes
<1>2. conn \in [Fds -> Connection] /\ ssl \in [Fds -> Ssl] /\ connections \subseteq Fds
  BY DEF CoreInv, TypeOK
<1>3. ASSUME NEW b \in connections' PROVE InTurn(conn'[b], ssl'[b])
  <2>1. CASE b = c
    BY <1>1, <1>2, <2>1, FreshInTurn
  <2>2. CASE b # c
    <3>1. b \in connections /\ conn'[b] = conn[b] /\ ssl'[b] = ssl[b]
      BY <1>1, <1>2, <2>2
    <3>. QED  BY <3>1 DEF TurnsOk
  <2>. QED  BY <2>1, <2>2
<1>. QED  BY <1>3 DEF TurnsOk

LEMMA ShutdownKeepsTurns ==
    ASSUME CoreInv, TurnsOk, NEW draining, NEW cancels, StartShutdown(draining, cancels)
    PROVE  TurnsOk'
<1> DEFINE finished == FinishedAll
           freed == {c \in connections : finished[c].k.references = 0}
<1>1. /\ conn' = [c \in Fds |-> IF c \in freed THEN Freed
                                ELSE IF c \in connections THEN finished[c].k ELSE conn[c]]
      /\ ssl' = [c \in Fds |-> IF c \in freed THEN NewSsl ELSE ssl[c]]
      /\ connections' = connections \ freed
  BY DEF StartShutdown
<1>2. connections \subseteq Fds
  BY DEF CoreInv, TypeOK
<1>3. ASSUME NEW c \in connections PROVE finished[c] = Finished(c)
  BY DEF FinishedAll
<1> HIDE DEF finished, freed
<1>4. ASSUME NEW c \in connections' PROVE InTurn(conn'[c], ssl'[c])
  <2>1. c \in connections /\ conn'[c] = Finished(c).k /\ ssl'[c] = ssl[c]
    BY <1>1, <1>2, <1>3
  <2>2. PICK d : d = [Context(c) EXCEPT !.sq = {}, !.kernel = {}]
    OBVIOUS
  <2>3. d \in Contexts /\ d.k = conn[c] /\ d.s = ssl[c]
    <3>1. Context(c) \in Contexts /\ Context(c).k = conn[c] /\ Context(c).s = ssl[c]
      BY <2>1, ContextGood
    <3>. QED  BY <2>2, <3>1 DEF Contexts
  <2>4. InTurn(d.k, d.s)
    BY <2>1, <2>3 DEF TurnsOk
  <2>5. InTurn(Finish(d).k, d.s)
    <3>1. SameTalk(d.k, Finish(d).k)
      BY <2>3, FinishTalk
    <3>. QED  BY <2>4, <3>1, SameTalkInTurn
  <2>. QED  BY <2>1, <2>2, <2>3, <2>5 DEF Finished
<1>. QED  BY <1>4 DEF TurnsOk

\* A function that ends with a connection leaves the others, and its own unless
\* it finishes that.
LEMMA StoredAlive ==
    ASSUME CoreInv, NEW b \in connections, NEW e, e.fd = b, Store(e), NEW c, Alive(c),
           c = b => ~e.k.dead /\ e.k.references > 0
    PROVE  Alive(c)'
<1>1. /\ \A a \in connections' : a # b => conn'[a] = conn[a]
      /\ b \in connections' => conn'[b] = e.k
      /\ b \in connections' <=> e.k.references # 0
  BY StoredConnections
<1>2. CASE c = b
  BY <1>1, <1>2 DEF Alive
<1>3. CASE c # b
  <2>1. c \in connections'
    BY <1>3 DEF Alive, Store
  <2>. QED  BY <1>1, <1>3, <2>1 DEF Alive
<1>. QED  BY <1>2, <1>3
=============================================================================
