------------------------------- MODULE PidMap -------------------------------
(***************************************************************************)
(* What the exec tracer needs of its process database: a finite map from   *)
(* pids to entries.  It is the `map[int32]*pidEntry` of                    *)
(* internal/exectrace/exec_linux.go, and the specification the C port's    *)
(* hand-written hash table (module PidDB) has to implement.                *)
(*                                                                         *)
(* A call is three steps, so that an implementation may take any number of *)
(* them: Call, the one step at which the operation takes effect, Return.   *)
(***************************************************************************)
CONSTANTS Pid,    \* process ids
          Val,    \* what an entry records: depth, start time, command
          Null    \* the result of a lookup that finds nothing

VARIABLES db,     \* the set of entries, at most one per pid
          op,     \* the call in progress
          ret     \* the entry a find or delete met, or Null

mapVars == <<db, op, ret>>

Entry == [pid : Pid, val : Val]

Call(name, p, v) ==
  /\ op.name = "idle"
  /\ op' = [name |-> name, arg |-> [pid |-> p, val |-> v]]
  /\ UNCHANGED <<db, ret>>

\* The entries of pid p: none or one.
Of(p) == {e \in db : e.pid = p}

ResultFor(p, r) == (r = Null /\ Of(p) = {}) \/ r \in Of(p)

\* ent := pidDB[pid]
Find ==
  /\ op.name = "find"
  /\ ResultFor(op.arg.pid, ret')
  /\ op' = [op EXCEPT !.name = "done"]
  /\ UNCHANGED db

\* pidDB[pid] = ent, with the fields the caller assigns
Put ==
  /\ op.name = "get"
  /\ db' = (db \ Of(op.arg.pid)) \cup {op.arg}
  /\ op' = [op EXCEPT !.name = "done"]
  /\ UNCHANGED ret

\* delete(pidDB, pid)
Delete ==
  /\ op.name = "delete"
  /\ ResultFor(op.arg.pid, ret')
  /\ db' = db \ Of(op.arg.pid)
  /\ op' = [op EXCEPT !.name = "done"]

Return ==
  /\ op.name = "done"
  /\ op' = [name |-> "idle", arg |-> Null]
  /\ ret' = Null
  /\ UNCHANGED db

Init ==
  /\ db = {}
  /\ ret = Null
  /\ op = [name |-> "idle", arg |-> Null]

Next ==
  \/ \E p \in Pid, v \in Val, name \in {"find", "get", "delete"} : Call(name, p, v)
  \/ Find
  \/ Put
  \/ Delete
  \/ Return

Spec == Init /\ [][Next]_mapVars

=============================================================================
