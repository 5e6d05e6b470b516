------------------------------ MODULE ProcTree ------------------------------
(***************************************************************************)
(* The kernel's process table, as the tracers see it through /proc: who is *)
(* whose parent, who has exited but is still there to be waited for, and   *)
(* process ids that are used again.  It is external to the repository and  *)
(* modelled from what the code asks of it (statPPID, /proc/pid/cmdline).   *)
(*                                                                         *)
(* Processes are single-threaded here: an exit event of a thread other     *)
(* than the leader carries an id that no database has an entry for.        *)
(***************************************************************************)
EXTENDS Integers, FiniteSets

CONSTANTS Pid,        \* process ids
          InitPid,    \* pid 1: adopts orphans and never exits
          WatchPIDs,  \* the watched roots, running when the tracer starts
          MaxForks,   \* bound: processes started after the tracer
          None

ASSUME InitPidAssumption == InitPid \in Pid /\ Pid \subseteq Nat \ {0}
ASSUME PidAssumption == IsFiniteSet(Pid)
ASSUME WatchPIDsAssumption == WatchPIDs \subseteq Pid
ASSUME MaxForksAssumption == MaxForks \in Nat

VARIABLES proc,    \* pid -> process, or None
          forks    \* processes started so far

Gen == 0 .. MaxForks

\* gen tells the processes that had the same pid apart; orphan is history: the
\* parent is not the process that forked this one.
Process == [parent : Pid \cup {0}, gen : Gen, alive : BOOLEAN, orphan : BOOLEAN]
ASSUME NoneAssumption == None \notin Process

ProcTypeOK ==
  /\ proc \in [Pid -> Process \cup {None}]
  /\ forks \in Gen

Exists(p) == proc[p] # None
Running(p) == Exists(p) /\ proc[p].alive

\* Init and the watched roots run; a root is a child of init.
ProcInit ==
  /\ proc = [p \in Pid |->
               IF p \in WatchPIDs \cup {InitPid}
                 THEN [parent |-> IF p = InitPid THEN 0 ELSE InitPid,
                       gen |-> 0, alive |-> TRUE, orphan |-> FALSE]
                 ELSE None]
  /\ forks = 0

\* p forks; the child gets a free pid.
Fork(p, c) ==
  /\ forks < MaxForks
  /\ Running(p)
  /\ ~Exists(c)
  /\ forks' = forks + 1
  /\ proc' = [proc EXCEPT ![c] = [parent |-> p, gen |-> forks + 1,
                                  alive |-> TRUE, orphan |-> FALSE]]

\* p becomes a zombie and its children become init's.
Exit(p) ==
  /\ p # InitPid
  /\ Running(p)
  /\ proc' = [q \in Pid |->
                CASE q = p -> [proc[p] EXCEPT !.alive = FALSE]
                  [] q # p /\ Exists(q) /\ proc[q].parent = p ->
                       [proc[q] EXCEPT !.parent = InitPid, !.orphan = TRUE]
                  [] OTHER -> proc[q]]
  /\ UNCHANGED forks

\* p's parent waits for it: the pid is free.
Reap(p) ==
  /\ Exists(p)
  /\ ~proc[p].alive
  /\ proc' = [proc EXCEPT ![p] = None]
  /\ UNCHANGED forks

\* /proc/pid/stat: -1 when the process is gone, 0 for pid 1.
statPPID(p) == IF Exists(p) THEN proc[p].parent ELSE -1

\* S goes on from every process in it to its parent, up to the watched roots.
Upward(table, S) ==
  \A q \in S \ WatchPIDs : table[q] # None /\ table[q].parent # 0 => table[q].parent \in S

\* p and its ancestors up to the nearest watched root: the smallest such set with p.
Lineage(table, p) ==
  {q \in Pid : \A S \in SUBSET Pid : p \in S /\ Upward(table, S) => q \in S}

Below(p) == Lineage(proc, p) \ WatchPIDs

Descends(p) == Exists(p) /\ \E r \in WatchPIDs : r \in Lineage(proc, p)

\* How far p is below the nearest watched root: 0 for a root and its children.
TreeDepth(p) == IF Below(p) = {} THEN 0 ELSE Cardinality(Below(p)) - 1

\* p and its ancestors below the nearest watched root were never re-parented.
Rooted(p) == Descends(p) /\ \A q \in Below(p) : ~proc[q].orphan

\* The shape of the table: init always runs, every other process has a parent that
\* runs and is init or older, and no process is from the future.
TreeOK ==
  /\ Running(InitPid)
  /\ proc[InitPid].parent = 0
  /\ proc[InitPid].gen = 0
  /\ \A p \in Pid : Exists(p) => proc[p].gen <= forks
  /\ \A p \in Pid \ {InitPid} :
       Exists(p) => \E a \in Pid : /\ a = proc[p].parent
                                   /\ Running(a)
                                   /\ a = InitPid \/ proc[a].gen < proc[p].gen

=============================================================================
