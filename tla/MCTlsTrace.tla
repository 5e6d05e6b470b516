---------------------------- MODULE MCTlsTrace ------------------------------
(* Small instances of TlsTrace.                                            *)
EXTENDS TlsTrace, TLC

\* Nothing tells one host name from another.
HostSymmetry == Permutations(Host)
=============================================================================
