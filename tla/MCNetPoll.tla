---------------------------- MODULE MCNetPoll -------------------------------
(* Small instances of NetPoll.                                             *)
EXTENDS NetPoll
=============================================================================
