----------------------------- MODULE MCNetTrace -----------------------------
EXTENDS NetTrace

\* To this host, and between its own processes.
In == [src |-> "peer", dst |-> "host", port |-> 1]
Loop == [src |-> "host", dst |-> "host", port |-> 1]

Opt(close, update, reverse, outbound) ==
  [close |-> close, update |-> update, reverse |-> reverse, outbound |-> outbound]

MCIP == {"host", "peer"}
MCLocalIPs == {"host"}
MCLoop == {Loop}
MCIn == {In}
MCOptions == {Opt(FALSE, FALSE, TRUE, TRUE), Opt(TRUE, TRUE, FALSE, FALSE)}
MCOutbound == {Opt(FALSE, TRUE, FALSE, TRUE)}
=============================================================================
