------------------------------ MODULE MCTlsFd ------------------------------
(* Instances of TlsFd for TLC: the one-shot poll workers. *)
EXTENDS TlsFd, TlsScripts

\* What RetriesRepeat and FinishedForReason need of the peers.
ASSUME PeersAssumption == OrderlyPeers
=============================================================================
