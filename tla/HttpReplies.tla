---------------------------- MODULE HttpReplies -----------------------------
(***************************************************************************)
(* The replies of the workers to the requests parse_request finds: which   *)
(* of the constant responses a request gets, and, as a reference for the   *)
(* properties of every worker, what a stream of requests calls for.        *)
(***************************************************************************)
EXTENDS HttpFraming

\* response_keep, response_close, response_10_*, bad_request.
Replies == {"keep", "close", "keep10", "close10", "bad_request"}
Response(http10, close_after) ==
    IF http10 THEN IF close_after THEN "close10" ELSE "keep10"
              ELSE IF close_after THEN "close" ELSE "keep"

\* What drive_connection makes of the input: at end of stream a request that
\* needs more bytes is a bad one.
AtEndOfStream(parsed, read_eof) ==
    IF parsed.verdict = "incomplete" /\ read_eof THEN Rejected ELSE parsed

-----------------------------------------------------------------------------
(* The replies a stream of requests calls for.                             *)

\* What the request parsed at line i calls for, with from for those after it.
AnswerThen(parsed, i, from) ==
    CASE parsed.verdict = "incomplete" -> [replies |-> <<>>, next |-> i]
      [] parsed.verdict = "reject" -> [replies |-> <<"bad_request">>, next |-> 0]
      [] parsed.verdict = "complete" ->
            LET reply == Response(parsed.http10, parsed.close_after)
                rest  == IF parsed.close_after THEN [replies |-> <<>>, next |-> 0]
                         ELSE from[i + parsed.length]
            IN [rest EXCEPT !.replies = <<reply>> \o @]

\* The requests of a stream, until one closes, is bad or is incomplete.
Answered(stream) ==
    LET from[i \in 1..(Len(stream) + 1)] ==
            AnswerThen(ParseRequest(SubSeq(stream, i, Len(stream))), i, from)
    IN from[1]

Closing(reply) == IF reply = "keep10" THEN "close10" ELSE "close"

\* What reply number n may be, when `answered' is what the lines received from
\* the peer call for.  A peer that ended its stream gets a closing reply to its
\* last request when the worker knew in time, and a 400 for a request it left
\* unfinished.
Allowed(answered, received, closed, n, reply) ==
    \/ n \in DOMAIN answered.replies /\ reply = answered.replies[n]
    \/ /\ closed /\ answered.next = received + 1
       /\ n = Len(answered.replies) /\ reply = Closing(answered.replies[n])
    \/ /\ closed /\ answered.next \in 1..received
       /\ n = Len(answered.replies) + 1 /\ reply = "bad_request"
=============================================================================
