----------------------------- MODULE MCDnsTrace -----------------------------
(* Small instances of DnsTrace.                                            *)
EXTENDS DnsTrace

\* Two queries of two processes that chose the same transaction id.
SameId == {[id |-> 7, port |-> 1, n |-> 1], [id |-> 7, port |-> 2, n |-> 2]}
=============================================================================
