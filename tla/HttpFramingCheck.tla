------------------------- MODULE HttpFramingCheck --------------------------
(***************************************************************************)
(* parse_request against a grammar of what it must accept, on every stream *)
(* of a bounded length.  A stream grows by one line at a time, so a step   *)
(* is also the arrival of one more fragment.                               *)
(***************************************************************************)
EXTENDS HttpFraming

CONSTANTS
    Alphabet,   \* the lines a head is made of
    BodyLines,  \* the lines that follow a head: a body, or the next request
    MaxExtra    \* lines that may arrive after a verdict was possible

\* Lines as HttpFraming has them: a blank one is nothing but its CRLF.
ASSUME AlphabetAssumption ==
    /\ Alphabet \cup BodyLines \subseteq Line
    /\ \A line \in Alphabet \cup BodyLines : line.kind = "blank" => line = Blank

VARIABLES stream, extra
streamVars == <<stream, extra>>

HasHead == \E n \in 2..Len(stream) : HeadEnds(stream, n)
Decided == ParseRequest(stream).verdict # "incomplete"

StreamInit == stream = <<>> /\ extra = 0

\* One more line arrives.
Arrive(line) ==
    /\ line \in IF HasHead \/ Decided THEN BodyLines ELSE Alphabet
    /\ IF Decided THEN extra < MaxExtra /\ extra' = extra + 1 ELSE UNCHANGED extra
    /\ stream' = Append(stream, line)

StreamNext == \E line \in Alphabet \cup BodyLines : Arrive(line)

StreamSpec == StreamInit /\ [][StreamNext]_streamVars

-----------------------------------------------------------------------------
(***************************************************************************)
(* The grammar, stated without the order the code works in.                *)
(***************************************************************************)
Numeral(digits) == FoldLeft(LAMBDA value, digit : value * 10 + digit, 0, digits)

FieldsOf(n) == 2..(n - 1)
LengthFields(n) == {i \in FieldsOf(n) : stream[i].kind = "length"}
BodyOf(n) == IF LengthFields(n) = {} THEN 0
             ELSE Numeral(stream[CHOOSE i \in LengthFields(n) : TRUE].digits)
Has(n, kinds) == \E i \in FieldsOf(n) : stream[i].kind \in kinds

WellFormed(n) ==
    /\ stream[1].kind \in {"http10", "http11"}
    /\ ~Has(n, {"http10", "http11", "malformed", "transfer_encoding"})
    /\ Cardinality(LengthFields(n)) <= 1
    /\ \A i \in LengthFields(n) :
          stream[i].digits # <<>> /\ NonDigit \notin ToSet(stream[i].digits)
    /\ n <= HeaderLimit
    /\ n + BodyOf(n) <= InputCapacity

Expected ==
    IF ~HasHead
    THEN IF Len(stream) < HeaderLimit THEN Incomplete ELSE Rejected
    ELSE LET n == CHOOSE n \in 2..Len(stream) :
                     stream[n] = Blank /\ \A m \in 2..Len(stream) : stream[m] = Blank => n <= m
         IN CASE ~WellFormed(n) -> Rejected
              [] WellFormed(n) /\ Len(stream) < n + BodyOf(n) -> Incomplete
              [] OTHER -> Result("complete", n + BodyOf(n),
                                 \/ Has(n, {"close", "close_keep_alive"})
                                 \/ stream[1].kind = "http10"
                                    /\ ~Has(n, {"keep_alive", "close_keep_alive"}),
                                 stream[1].kind = "http10")

\* parse_request accepts exactly the requests of the grammar, with the length
\* and the connection persistence the grammar gives them, whatever the order
\* of the fields and wherever the digit guard of Content-Length stops.
AgreesWithGrammar == ParseRequest(stream) = Expected

\* Fragmentation cannot change a verdict: once the bytes received decide a
\* request, bytes that arrive later (the next pipelined request) leave the
\* decision, its length and its persistence alone.  The `>=' of the head limit
\* before "\r\n\r\n" is seen and the `>' after it must agree for this.
VerdictIsStable ==
    [][Decided => ParseRequest(stream') = ParseRequest(stream)]_streamVars

\* A request that still needs bytes leaves room for them: the worker can
\* never be full and waiting, so the only overflow is pipelined input.
IncompleteLeavesRoom == ~Decided => Len(stream) < InputCapacity
=============================================================================
