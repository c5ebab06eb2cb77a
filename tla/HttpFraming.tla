---------------------------- MODULE HttpFraming ----------------------------
(***************************************************************************)
(* Request framing of the plaintext io_uring workers: parse_request of     *)
(* experiments/io-uring-http/oneshot/server.c (multishot/server.c holds    *)
(* the same text).  The function looks at the bytes received so far and    *)
(* says whether they start with a complete request, need more bytes, or    *)
(* must be rejected.  The TLS workers' copies reject Expect and Upgrade as *)
(* they do Transfer-Encoding: all three are the kind transfer_encoding.    *)
(*                                                                         *)
(* A stream of bytes is a sequence of lines, each with its CRLF, and every *)
(* length is counted in lines.  "\r\n\r\n" is then a blank line that is    *)
(* not the first one: the line before it brings its own CRLF.              *)
(***************************************************************************)
EXTENDS Integers, Sequences, SequencesExt

CONSTANTS
    InputCapacity,  \* INPUT_CAPACITY: what a connection's input holds
    HeaderLimit     \* HEADER_LIMIT: the longest accepted head

\* The Content-Length guard subtracts a digit from INPUT_CAPACITY in size_t,
\* and a buffer must have room for the longest head.
ASSUME FramingAssumption ==
    /\ InputCapacity \in Nat /\ InputCapacity >= 9
    /\ HeaderLimit \in Nat \ {0} /\ HeaderLimit <= InputCapacity

Kinds == {"http11", "http10",                      \* well-formed request lines
          "other",                                 \* a field nobody looks at
          "malformed",                             \* no colon, no request line
          "close", "keep_alive", "close_keep_alive", \* Connection: options
          "length",                                \* Content-Length: digits
          "transfer_encoding", "blank"}

NonDigit == 10                                     \* any character but 0..9

Line == [kind : Kinds, digits : Seq(0..NonDigit)]
Blank == [kind |-> "blank", digits |-> <<>>]

(***************************************************************************)
(* One digit of a Content-Length value.  The guard is the code's: it must  *)
(* keep body_length * 10 + digit from passing the capacity.                *)
(***************************************************************************)
DigitOverflows(body_length, digit) ==
    body_length > (InputCapacity - digit) \div 10

AddDigit(value, digit) ==
    IF ~value.ok \/ digit = NonDigit \/ DigitOverflows(value.body_length, digit)
    THEN [value EXCEPT !.ok = FALSE]
    ELSE [value EXCEPT !.body_length = @ * 10 + digit]

ContentLength(digits) ==
    FoldLeft(AddDigit, [ok |-> digits # <<>>, body_length |-> 0], digits)

(***************************************************************************)
(* One iteration of the header loop.  ok = FALSE stands for `return -1'.   *)
(***************************************************************************)
Fields == [ok : BOOLEAN, has_length : BOOLEAN, body_length : Nat,
           keep : BOOLEAN, close_requested : BOOLEAN]

NoFields == [ok |-> TRUE, has_length |-> FALSE, body_length |-> 0,
             keep |-> FALSE, close_requested |-> FALSE]

\* Mutant of ParseLength: a repeated Content-Length is not noticed.
ParseLengthRepeated(fields, line) ==
    LET value == ContentLength(line.digits)
    IN [fields EXCEPT !.ok = value.ok, !.has_length = TRUE, !.body_length = value.body_length]

ParseLength(fields, line) ==
    LET value == ContentLength(line.digits)
    IN [fields EXCEPT !.ok = ~fields.has_length /\ value.ok,
                      !.has_length = TRUE,
                      !.body_length = value.body_length]

ParseField(fields, line) ==
    IF ~fields.ok THEN fields
    ELSE CASE line.kind \in {"close", "keep_alive", "close_keep_alive"} ->
                 [fields EXCEPT !.close_requested = @ \/ line.kind # "keep_alive",
                                !.keep = @ \/ line.kind # "close"]
           [] line.kind = "length" -> ParseLength(fields, line)
           [] line.kind = "other" -> fields
           [] OTHER -> [fields EXCEPT !.ok = FALSE]

\* The lines between the request line and the blank line that ends the head.
ParseFields(lines) == FoldLeft(ParseField, NoFields, lines)

(***************************************************************************)
(* parse_request.  HeadEnds(s, n): "\r\n\r\n" first ends at line n.        *)
(***************************************************************************)
HeadEnds(input, n) ==
    /\ n \in 2..Len(input)
    /\ input[n] = Blank
    /\ \A i \in 2..(n - 1) : input[i] # Blank

Verdicts == {"complete", "incomplete", "reject"}

Result(verdict, length, close_after, http10) ==
    [verdict |-> verdict, length |-> length,
     close_after |-> close_after, http10 |-> http10]

Rejected   == Result("reject", 0, FALSE, FALSE)
Incomplete == Result("incomplete", 0, FALSE, FALSE)

\* Mutant of ParseHead: a body may be longer than what the input can hold.
ParseHeadUnbounded(input, header_length) ==
    LET fields == ParseFields(SubSeq(input, 2, header_length - 1))
        http10 == input[1].kind = "http10"
        length == header_length + fields.body_length
    IN IF \/ header_length > HeaderLimit
          \/ input[1].kind \notin {"http11", "http10"}
          \/ ~fields.ok
       THEN Rejected
       ELSE IF Len(input) < length THEN Incomplete
            ELSE Result("complete", length,
                        fields.close_requested \/ (http10 /\ ~fields.keep), http10)

\* The head is the first header_length lines of the input.
ParseHead(input, header_length) ==
    LET fields == ParseFields(SubSeq(input, 2, header_length - 1))
        http10 == input[1].kind = "http10"
        length == header_length + fields.body_length
    IN IF \/ header_length > HeaderLimit
          \/ input[1].kind \notin {"http11", "http10"}
          \/ ~fields.ok
          \/ fields.body_length \notin 0..(InputCapacity - header_length)
       THEN Rejected
       ELSE IF Len(input) < length
            THEN Incomplete
            ELSE Result("complete", length,
                        fields.close_requested \/ (http10 /\ ~fields.keep), http10)

\* Mutant of ParseRequest: an unfinished head is rejected one line too early.
ParseRequestEarlyLimit(input) ==
    IF \E n \in 2..Len(input) : HeadEnds(input, n)
    THEN ParseHead(input, CHOOSE n \in 2..Len(input) : HeadEnds(input, n))
    ELSE IF Len(input) >= HeaderLimit - 1 THEN Rejected ELSE Incomplete

ParseRequest(input) ==
    IF \E n \in 2..Len(input) : HeadEnds(input, n)
    THEN ParseHead(input, CHOOSE n \in 2..Len(input) : HeadEnds(input, n))
    ELSE IF Len(input) >= HeaderLimit THEN Rejected ELSE Incomplete
=============================================================================
