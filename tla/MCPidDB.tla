------------------------------- MODULE MCPidDB ------------------------------
(* Small instances of PidDB.  2654435761 is 1 modulo 4 (and 8 and 16).      *)
EXTENDS PidDB

\* Home slots 1, 1, 1, 3, 3: two clusters that meet and wrap around.
MCPid == {1, 5, 9, 3, 7}
=============================================================================
