---------------------- MODULE MCTransportApplications ----------------------
(* The receive and push examples with two connections. *)
EXTENDS TransportApplications

CONSTANTS c1, c2

\* A connection with payloads to reorder, and one that competes with it.
MCChunks == [c \in {c1, c2} |-> IF c = c1 THEN 2 ELSE 1]
=============================================================================
