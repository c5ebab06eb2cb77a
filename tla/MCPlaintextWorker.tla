------------------------- MODULE MCPlaintextWorker --------------------------
(* Scripts and symmetry for the runs of PlaintextWorker. *)
EXTENDS PlaintextWorker

Field(kind) == [kind |-> kind, digits |-> <<>>]
Get   == <<Field("http11"), Blank>>
Get10 == <<Field("http10"), Field("keep_alive"), Blank>>
Close == <<Field("http11"), Field("close"), Blank>>
Post1 == <<Field("http11"), [kind |-> "length", digits |-> <<1>>], Blank, Field("other")>>
Bad   == <<Field("malformed"), Blank>>

\* Pipelined requests beyond the pause threshold and beyond the capacity.
Pipelined == Get \o Get \o Get10 \o Close
Burst == Get \o Get \o Get \o Get \o Post1 \o Get
Mixed == Post1 \o Get10 \o Bad \o Get

MCScripts == {Pipelined, Burst, Mixed}
BurstScripts == {Burst, Mixed}
ShortScripts == {Get \o Close}
PausingScripts == {Get \o Get \o Get \o Get}
OneRequest == {Get}
MCSymmetry == Permutations(Buffers)
FdSymmetry == Permutations(Fds)
=============================================================================
