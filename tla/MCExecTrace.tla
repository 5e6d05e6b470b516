----------------------------- MODULE MCExecTrace ----------------------------
(* Small instances of ExecTrace.                                           *)
EXTENDS ExecTrace
=============================================================================
