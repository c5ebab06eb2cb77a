------------------------------ MODULE MCTlsBio ------------------------------
(* Instances of TlsBio for TLC: tls-bio. *)
EXTENDS TlsBio, TlsScripts
=============================================================================
