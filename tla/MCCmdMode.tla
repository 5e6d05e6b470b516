----------------------------- MODULE MCCmdMode ------------------------------
(* CmdMode for given sets of tracers.                                      *)
EXTENDS CmdMode
=============================================================================
