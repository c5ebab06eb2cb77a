----------------------------- MODULE TlsEngine ------------------------------
(***************************************************************************)
(* OpenSSL as the TLS workers use it (external): what SSL_do_handshake,    *)
(* SSL_read_ex, SSL_write_ex and SSL_shutdown do to an SSL and its BIOs,   *)
(* and what SSL_get_error says of it.                                      *)
(*                                                                         *)
(* Ciphertext is counted.  Each record the peer sends travels as two       *)
(* pieces, so that a record may have arrived in part; each record OpenSSL  *)
(* produces is RecordUnits units, so that it may be written in part.       *)
(***************************************************************************)
EXTENDS HttpReplies, FiniteSets, FiniteSetsExt

CONSTANTS
    HandshakeSteps, \* flights of a handshake: "read" from or "write" to the peer
    RecordUnits,    \* units of ciphertext in a record OpenSSL produces
    ReadAhead,      \* SSL_CTX_set_read_ahead
    NULL

\* The longest handshake is that of TLS 1.3 with a HelloRetryRequest: two
\* hellos read, two flights written, the client's Finished read.
MaxFlights == 5

ASSUME EngineAssumption ==
    /\ HandshakeSteps \in Seq({"read", "write"}) /\ Len(HandshakeSteps) <= MaxFlights
    /\ RecordUnits \in Nat \ {0}
    /\ ReadAhead \in BOOLEAN
    /\ NULL \notin {"flight", "close_notify"} \cup Replies

\* What a peer sends: a flight of its handshake, a record of application data
\* (lines of its request stream), or the alert that ends its stream.
PeerRecord == [kind : {"data"}, lines : Seq(Line)]
                  \cup [kind : {"flight", "close_notify"}, lines : {<<>>}]
RecordPieces == 2

\* What OpenSSL encrypts, in the order of the records it produces.
Produced == {"flight", "close_notify"} \cup Replies

Ssl == [steps : Nat,           \* flights of the handshake that are done
        fetched : Nat,         \* pieces taken from the read BIO
        consumed : Nat,        \* records of the peer that were processed
        plain : Seq(Line),     \* decrypted, not read by the application
        out : Seq(Produced),   \* records produced
        written : Nat,         \* units of them that the write BIO took
        writing : Produced \cup {NULL}, \* the write that has to be retried
        eof : BOOLEAN]         \* BIO_set_mem_eof_return(read_bio, 0)

NewSsl == [steps |-> 0, fetched |-> 0, consumed |-> 0, plain |-> <<>>, out |-> <<>>,
           written |-> 0, writing |-> NULL, eof |-> FALSE]

\* The calls take bios, the state of the BIOs: script, what the peer sends;
\* available, how many pieces of it can be taken; behind, what is found after
\* them ("more", "eof" or "reset"); limit, how many units in all can be written.

Return(verdict, s) == [verdict |-> verdict, s |-> s, lines |-> <<>>]

-----------------------------------------------------------------------------
(* Reading and writing records.                                            *)

HasRecord(s) == s.fetched >= RecordPieces * (s.consumed + 1)

\* SSL_has_pending: processed or not, bytes that OpenSSL has taken already.
HasPending(s) == s.plain # <<>> \/ s.fetched > RecordPieces * s.consumed

\* The read BIO is asked only when no whole record is buffered, and without
\* read-ahead only for what the next record lacks.
Fetch(s, bios) ==
    IF HasRecord(s) THEN s
    ELSE [s EXCEPT !.fetched =
             IF ReadAhead THEN bios.available
             ELSE Min({bios.available, RecordPieces * (s.consumed + 1)})]

NextRecord(s, bios) == bios.script[s.consumed + 1]
Consume(s) == [s EXCEPT !.consumed = @ + 1]

\* No whole record: EOF without close_notify and a reset are fatal.
Starved(s, bios) == Return(IF bios.behind = "more" THEN "want_read" ELSE "failed", s)

Unwritten(s) == RecordUnits * Len(s.out) - s.written

\* Hand to the write BIO what it takes.  A write that is not finished has to
\* be repeated with the same contents.
Flush(s, bios) ==
    LET t == [s EXCEPT !.written = @ + Min({Unwritten(s), bios.limit - s.written})]
    IN IF bios.behind = "reset" THEN Return("failed", s)
       ELSE IF Unwritten(t) = 0 THEN Return("ok", [t EXCEPT !.writing = NULL])
       ELSE Return("want_write", t)

Produce(s, bios, what) ==
    IF s.writing = NULL
    THEN Flush([s EXCEPT !.out = Append(@, what), !.writing = what], bios)
    ELSE IF s.writing = what THEN Flush(s, bios) ELSE Return("failed", s)

-----------------------------------------------------------------------------
(* The calls.                                                              *)

Handshaken(s) == s.steps = Len(HandshakeSteps)

ReadFlight(s, bios) ==
    IF ~HasRecord(s) THEN Starved(s, bios)
    ELSE CASE NextRecord(s, bios).kind = "flight" ->
                 Return("ok", [Consume(s) EXCEPT !.steps = @ + 1])
           [] NextRecord(s, bios).kind = "close_notify" -> Return("zero_return", Consume(s))
           [] NextRecord(s, bios).kind = "data" -> Return("failed", s)

WriteFlight(r) == IF r.verdict = "ok" THEN [r EXCEPT !.s.steps = @ + 1] ELSE r

\* One more flight, unless the handshake is done or something has stopped it.
Advance(r, bios) ==
    IF r.verdict # "ok" \/ Handshaken(r.s) THEN r
    ELSE IF HandshakeSteps[r.s.steps + 1] = "read" THEN ReadFlight(Fetch(r.s, bios), bios)
    ELSE WriteFlight(Produce(r.s, bios, "flight"))

\* SSL_do_handshake goes on until it is done or something stops it, MaxFlights
\* times at most.
DoHandshake(s, bios) ==
    LET first == Advance(Advance(Return("ok", s), bios), bios)
    IN Advance(Advance(Advance(first, bios), bios), bios)

\* At most room lines of one record.
Deliver(s, room) ==
    LET n == Min({room, Len(s.plain)})
    IN [verdict |-> "ok", lines |-> SubSeq(s.plain, 1, n),
        s |-> [s EXCEPT !.plain = SubSeq(@, n + 1, Len(@))]]

ReadRecord(s, bios, room) ==
    IF ~HasRecord(s) THEN Starved(s, bios)
    ELSE CASE NextRecord(s, bios).kind = "data" ->
                 Deliver([Consume(s) EXCEPT !.plain = NextRecord(s, bios).lines], room)
           [] NextRecord(s, bios).kind = "close_notify" -> Return("zero_return", Consume(s))
           [] NextRecord(s, bios).kind = "flight" -> Return("failed", s)

SslRead(s, bios, room) ==
    IF s.plain # <<>> THEN Deliver(s, room) ELSE ReadRecord(Fetch(s, bios), bios, room)

\* Without SSL_MODE_ENABLE_PARTIAL_WRITE a write that returns wrote it all.
SslWrite(s, bios, reply) == Produce(s, bios, reply)

\* Only close_notify is sent; its answer is not waited for.  During a handshake
\* it is an error.
SslShutdown(s, bios) ==
    IF Handshaken(s) THEN Produce(s, bios, "close_notify") ELSE Return("failed", s)
=============================================================================
