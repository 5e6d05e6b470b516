---------------------------- MODULE MCExecPoll ----------------------------
(***************************************************************************)
(* The polling exec tracer on a small process table.                       *)
(***************************************************************************)
EXTENDS ExecPoll
=============================================================================
