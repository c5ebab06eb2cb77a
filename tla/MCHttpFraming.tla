--------------------------- MODULE MCHttpFraming ---------------------------
\* Every head of up to MCHeaderLimit lines over an alphabet that reaches every
\* branch of parse_request, with bodies up to the capacity.
EXTENDS HttpFramingCheck

Field(kind) == [kind |-> kind, digits |-> <<>>]
Length(digits) == [kind |-> "length", digits |-> digits]

MCAlphabet ==
    {Field(kind) : kind \in {"http11", "http10", "other", "malformed", "close",
                             "keep_alive", "close_keep_alive", "transfer_encoding", "blank"}}
    \cup {Length(digits) : digits \in {<<>>, <<0>>, <<2>>, <<0, 0, 7>>, <<1, 0>>, <<1, 1>>,
                                       <<1, 3>>, <<2, 0>>, <<9, 9>>, <<1, NonDigit>>}}

MCBodyLines == {Field("http11"), Blank}
=============================================================================
