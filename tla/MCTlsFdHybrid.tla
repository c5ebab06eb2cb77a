--------------------------- MODULE MCTlsFdHybrid ---------------------------
(* Instances of TlsFdHybrid for TLC: tls-fd-hybrid. *)
EXTENDS TlsFdHybrid, TlsScripts

\* What the theorems about retries and reasons need of the peers.
ASSUME PeersAssumption == OrderlyPeers
=============================================================================
