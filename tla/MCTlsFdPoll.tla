---------------------------- MODULE MCTlsFdPoll ----------------------------
(* Instances of TlsFdPoll for TLC: tls-fd-poll. *)
EXTENDS TlsFdPoll, TlsScripts
=============================================================================
