----------------------------- MODULE TlsScripts -----------------------------
(* What peers send in the runs of the TLS workers. *)
EXTENDS TlsEngine

Field(kind) == [kind |-> kind, digits |-> <<>>]
Get   == <<Field("http11"), Blank>>
Close == <<Field("http11"), Field("close"), Blank>>
Bad   == <<Field("malformed"), Blank>>

Flight == [kind |-> "flight", lines |-> <<>>]
Data(lines) == [kind |-> "data", lines |-> lines]
CloseNotify == [kind |-> "close_notify", lines |-> <<>>]

Tls13 == <<"read", "write", "read">>
Tls12 == <<"read", "write", "read", "write">>

\* A request in two records; two requests in one; a stream that ends in the
\* middle of a request; one that closes; one that is refused; none at all.
Split     == <<Flight, Flight, Data(<<Field("http11")>>), Data(<<Blank>>)>>
Pipelined == <<Flight, Flight, Data(Get \o Get), CloseNotify>>
Truncated == <<Flight, Flight, Data(Get \o <<Field("http11")>>), CloseNotify>>
LastOne   == <<Flight, Flight, Data(Get), Data(Close \o Get)>>
Refused   == <<Flight, Flight, Data(Get \o Bad), Data(Get)>>
NoRequest == <<Flight, CloseNotify>>
MCScripts == {Split, Pipelined, Truncated, LastOne, Refused, NoRequest}
ShortScripts == {LastOne}
Three     == <<Flight, Flight, Data(Get \o Get \o Get), CloseNotify>>
BioScripts == {Three, LastOne}
Once == {<<Flight, Flight, Data(Close)>>}
=============================================================================
