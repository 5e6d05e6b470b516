------------------------------ MODULE ExecTrace -----------------------------
(***************************************************************************)
(* The Linux exec tracer (c/exec.c, exec_linux.go): the kernel's           *)
(* proc connector queues exec and exit events on a netlink socket, and one *)
(* thread receives them, looks the process up in /proc and keeps pidDB.    *)
(*                                                                         *)
(* The kernel goes on while the tracer handles an event: every read of     *)
(* /proc is a step of its own, and what it finds may be newer than the     *)
(* event, or another process with the same pid.                            *)
(***************************************************************************)
EXTENDS ProcTree, Sequences

CONSTANTS QueueCap,   \* bound: events the socket buffer holds
          ShowExit    \* -t

ASSUME QueueCapAssumption == QueueCap \in Nat \ {0}
ASSUME ShowExitAssumption == ShowExit \in BOOLEAN

VARIABLES queue,     \* the netlink socket's receive queue
          overrun,   \* the kernel dropped an event; the next recvfrom says so
          pc,        \* where the event loop is
          ev,        \* the event being handled, else None
          cur,       \* the pid the recursion of pidDepth has reached
          hops,      \* how many levels of recursion that took
          pidDB,     \* pid -> entry, or None
          line,      \* the last line printed for the event, or None
          calm       \* history: nothing exited or was reaped during pidDepth

tracer == <<pc, ev, cur, hops, pidDB, line>>
vars == <<proc, forks, queue, overrun, calm, tracer>>

\* gen stands for the event's timestamp: it says which process it is about.
Event == [kind : {"exec", "exit"}, pid : Pid, gen : Gen]

\* start is startNs, as the process whose exec event set it; cmd is cmdline, as
\* the process it was read from, -1 for "".
PidEntry == [depth : Nat, start : Gen, cmd : Gen \cup {-1}]

\* entry is the process whose startNs an exited line measures from, or whose
\* entry an execed line reports.
Line == [kind : {"exec", "execed", "exited"}, pid : Pid, gen : Gen,
         entry : Gen, depth : Nat]

ASSUME NoneIsNoData == None \notin Event \cup PidEntry \cup Line

isWatchRoot(p) == p \in WatchPIDs

Init ==
  /\ ProcInit
  /\ queue = <<>>
  /\ overrun = FALSE
  /\ pc = "recv"
  /\ ev = None
  /\ cur = InitPid
  /\ hops = 0
  /\ pidDB = [p \in Pid |-> None]
  /\ line = None
  /\ calm = TRUE

-----------------------------------------------------------------------------
(* The kernel.                                                             *)

\* The proc connector queues an event, or drops it when the buffer is full.
Send(kind, p) ==
  IF Len(queue) < QueueCap /\ ~overrun
    THEN /\ queue' = Append(queue, [kind |-> kind, pid |-> p, gen |-> proc[p].gen])
         /\ UNCHANGED overrun
    ELSE /\ overrun' = TRUE
         /\ UNCHANGED queue

KernelFork ==
  /\ \E p, c \in Pid : Fork(p, c)
  /\ UNCHANGED <<queue, overrun, calm, tracer>>

KernelExec ==
  /\ \E p \in Pid : Running(p) /\ Send("exec", p)
  /\ UNCHANGED <<proc, forks, calm, tracer>>

KernelExit ==
  /\ \E p \in Pid : Exit(p) /\ Send("exit", p)
  /\ calm' = (pc # "depth" /\ calm)
  /\ UNCHANGED tracer

KernelReap ==
  /\ \E p \in Pid : Reap(p)
  /\ calm' = (pc # "depth" /\ calm)
  /\ UNCHANGED <<queue, overrun, tracer>>

\* What happens after the tracer has ended is not followed.
Kernel == pc # "dead" /\ (KernelFork \/ KernelExec \/ KernelExit \/ KernelReap)

-----------------------------------------------------------------------------
(* The tracer.                                                             *)

\* recvfrom and dispatchNlMsg: one event to its handler, the others ignored.
Recv ==
  /\ pc = "recv"
  /\ ~overrun
  /\ queue # <<>>
  /\ ev' = Head(queue)
  /\ queue' = Tail(queue)
  /\ cur' = ev'.pid
  /\ hops' = 0
  /\ pc' = IF ev'.kind = "exec" THEN "depth" ELSE "exit"
  /\ calm' = TRUE
  /\ line' = None
  /\ UNCHANGED <<proc, forks, overrun, pidDB>>

\* Mutant: the loop goes on after the error, as the one of net.c does.
RecvErrorContinue ==
  /\ pc = "recv"
  /\ overrun
  /\ overrun' = FALSE
  /\ UNCHANGED <<proc, forks, queue, pc, calm, ev, cur, hops, pidDB, line>>

\* recvfrom reports the overrun before anything that is still queued: fatalf.
RecvError ==
  /\ pc = "recv"
  /\ overrun
  /\ pc' = "dead"
  /\ UNCHANGED <<proc, forks, queue, overrun, calm, ev, cur, hops, pidDB, line>>

\* One level of the recursion of pidDepth: its result, or Up where it calls
\* itself for the parent.
Up == -2

\* Mutants: the pid itself is not compared with the roots; the depth of the
\* parent's entry is taken as it is.
pidDepthNotSelf(p) ==
  LET ppid == statPPID(p)
  IN CASE ppid <= 0 -> -1
       [] isWatchRoot(ppid) -> 0
       [] ppid > 0 /\ ~isWatchRoot(ppid) ->
            IF pidDB[ppid] # None THEN pidDB[ppid].depth + 1 ELSE Up
pidDepthOfParent(p) ==
  LET ppid == statPPID(p)
  IN CASE isWatchRoot(p) -> 0
       [] ~isWatchRoot(p) /\ ppid <= 0 -> -1
       [] ~isWatchRoot(p) /\ isWatchRoot(ppid) -> 0
       [] ~isWatchRoot(p) /\ ppid > 0 /\ ~isWatchRoot(ppid) ->
            IF pidDB[ppid] # None THEN pidDB[ppid].depth ELSE Up

pidDepth(p) ==
  LET ppid == statPPID(p)
  IN CASE isWatchRoot(p) -> 0
       [] ~isWatchRoot(p) /\ ppid <= 0 -> -1
       [] ~isWatchRoot(p) /\ isWatchRoot(ppid) -> 0
       [] ~isWatchRoot(p) /\ ppid > 0 /\ ~isWatchRoot(ppid) ->
            IF pidDB[ppid] # None THEN pidDB[ppid].depth + 1 ELSE Up

\* A handler returns.
Drop ==
  /\ pc' = "recv"
  /\ ev' = None
  /\ cur' = InitPid
  /\ hops' = 0

\* pidDepth calls itself for the parent.
Climb ==
  /\ cur' = statPPID(cur)
  /\ hops' = hops + 1
  /\ UNCHANGED <<pc, ev>>

\* handleExec up to its early return: one call of pidDepth.
Depth ==
  /\ pc = "depth"
  /\ LET d == pidDepth(cur)
     IN \/ d = Up /\ Climb
        \/ d = -1 /\ Drop
        \/ /\ d >= 0
           /\ hops' = hops + d
           /\ pc' = "store"
           /\ UNCHANGED <<ev, cur>>
  /\ calm' = (pc' = "depth" => calm)
  /\ UNCHANGED <<proc, forks, queue, overrun, pidDB, line>>

\* /proc/pid/cmdline, or /proc/pid/comm, which a zombie still has.
readFirstArg(p) == IF Exists(p) THEN proc[p].gen ELSE -1

\* The rest of handleExec: the execed line, the entry ...
Store ==
  LET p == ev.pid
      ent == pidDB[p]
  IN /\ pc = "store"
     /\ line' = IF ShowExit /\ ent # None /\ ent.cmd # -1
                  THEN [kind |-> "execed", pid |-> p, gen |-> ev.gen,
                        entry |-> ent.start, depth |-> ent.depth]
                  ELSE line
     /\ pidDB' = [pidDB EXCEPT ![p] = [depth |-> hops, start |-> ev.gen,
                                       cmd |-> readFirstArg(p)]]
     /\ pc' = "print"
     /\ UNCHANGED <<proc, forks, queue, overrun, calm, ev, cur, hops>>

\* ... and printExec, silent about a process of which nothing can be read.
printExec ==
  /\ pc = "print"
  /\ line' = IF Exists(ev.pid)
               THEN [kind |-> "exec", pid |-> ev.pid, gen |-> ev.gen,
                     entry |-> proc[ev.pid].gen, depth |-> hops]
               ELSE line
  /\ Drop
  /\ UNCHANGED <<proc, forks, queue, overrun, calm, pidDB>>

\* Mutant: an entry without a command line is kept.
handleExitNamed ==
  LET p == ev.pid
      ent == pidDB[p]
  IN /\ pc = "exit"
     /\ pidDB' = IF ent # None /\ ent.cmd # -1 THEN [pidDB EXCEPT ![p] = None] ELSE pidDB
     /\ line' = IF ent # None /\ ent.cmd # -1 /\ ShowExit
                  THEN [kind |-> "exited", pid |-> p, gen |-> ev.gen,
                        entry |-> ent.start, depth |-> ent.depth]
                  ELSE line
     /\ Drop
     /\ UNCHANGED <<proc, forks, queue, overrun, calm>>

handleExit ==
  LET p == ev.pid
      ent == pidDB[p]
  IN /\ pc = "exit"
     /\ pidDB' = [pidDB EXCEPT ![p] = None]
     /\ line' = IF ent # None /\ ShowExit
                  THEN [kind |-> "exited", pid |-> p, gen |-> ev.gen,
                        entry |-> ent.start, depth |-> ent.depth]
                  ELSE line
     /\ Drop
     /\ UNCHANGED <<proc, forks, queue, overrun, calm>>

Tracer == Recv \/ RecvError \/ Depth \/ Store \/ printExec \/ handleExit

Dead == pc = "dead" /\ UNCHANGED vars

Next == Kernel \/ Tracer \/ Dead

\* The event loop never waits for anything but an event.
Spec == Init /\ [][Next]_vars /\ WF_vars(Tracer)

-----------------------------------------------------------------------------
(* Properties.                                                             *)

\* Processes, events, entries and lines are well formed, and an event is in
\* hand exactly while a handler runs.
TypeOK ==
  /\ ProcTypeOK
  /\ queue \in Seq(Event)
  /\ Len(queue) <= QueueCap
  /\ overrun \in BOOLEAN
  /\ pc \in {"recv", "depth", "store", "print", "exit", "dead"}
  /\ ev \in Event \cup {None}
  /\ cur \in Pid
  /\ hops \in Nat
  /\ pidDB \in [Pid -> PidEntry \cup {None}]
  /\ line \in Line \cup {None}
  /\ calm \in BOOLEAN
  /\ (ev # None) <=> (pc \in {"depth", "store", "print", "exit"})
  /\ pc \in {"depth", "store", "print"} => ev.kind = "exec"
  /\ pc = "exit" => ev.kind = "exit"

\* The exit of p's process g has been sent and not yet handled.
ExitPending(p, g) ==
  \/ \E i \in 1 .. Len(queue) : queue[i] = [kind |-> "exit", pid |-> p, gen |-> g]
  \/ ev = [kind |-> "exit", pid |-> p, gen |-> g]

\* pidDB does not leak and does not confuse processes: an entry is about the
\* process that has the pid now, or about one whose exit handleExit is still
\* to be given, unless the socket lost events.
NoStaleEntry ==
  overrun \/ \A p \in Pid :
    pidDB[p] # None =>
      \/ Running(p) /\ proc[p].gen = pidDB[p].start
      \/ ExitPending(p, pidDB[p].start)

\* An exited line measures the time since an exec of the process that exited,
\* and an execed line reports an earlier image of the process that execs:
\* never those of an earlier process with the same pid.
LinePairs ==
  line # None /\ line.kind \in {"exited", "execed"} => line.entry = line.gen

\* An entry of a process that is still there, none of whose ancestors below
\* the watched root was re-parented, has the depth of the tree, whatever
\* execed, exited or was given a used pid before it (pidDepth takes depths of
\* ancestors from pidDB).
DepthExact ==
  overrun \/ \A p \in Pid :
    /\ pidDB[p] # None
    /\ Exists(p)
    /\ proc[p].gen = pidDB[p].start
    /\ Rooted(p)
    => pidDB[p].depth = TreeDepth(p)

\* handleExec drops the exec of a descendant of a watched root only if some
\* process exited or was reaped while pidDepth read /proc.
DescendantsTraced ==
  [][pc = "depth" /\ pc' = "recv" /\ calm => ~Descends(ev.pid)]_vars

\* The entry of a process that has ended is deleted or replaced in the end, however late
\* its exec event was handled, unless the tracer died: pidDB does not grow for ever.
EndedForgotten ==
  \A p \in Pid : \A g \in Gen :
    (pidDB[p] # None /\ pidDB[p].start = g /\ ~(Running(p) /\ proc[p].gen = g))
      ~> (pc = "dead" \/ pidDB[p] = None \/ pidDB[p].start # g)

\* Why NoStaleEntry and LinePairs hold: the socket delivers the events of a pid
\* in order, so that an entry is never about a later process than the events
\* still to come, and an exec event is followed by its process's exit event or
\* the process still runs.
Queued == 1 .. Len(queue)
ExitOf(e) == [kind |-> "exit", pid |-> e.pid, gen |-> e.gen]
Lives(e) == Running(e.pid) /\ proc[e.pid].gen = e.gen

InHand == ev # None /\ pidDB[ev.pid] # None => pidDB[ev.pid].start = ev.gen

GensUsed ==
  /\ \A p \in Pid : Exists(p) => proc[p].gen <= forks
  /\ \A i \in Queued : queue[i].gen <= forks
  /\ ev # None => ev.gen <= forks

Ordered ==
  /\ \A i, j \in Queued : i < j /\ queue[i].pid = queue[j].pid => queue[i].gen <= queue[j].gen
  /\ ev # None => \A j \in Queued : ev.pid = queue[j].pid => ev.gen <= queue[j].gen

NotNewer ==
  /\ \A i \in Queued : Exists(queue[i].pid) => queue[i].gen <= proc[queue[i].pid].gen
  /\ ev # None /\ Exists(ev.pid) => ev.gen <= proc[ev.pid].gen

EntryOldest ==
  \A p \in Pid : pidDB[p] # None =>
    \A i \in Queued : queue[i].pid = p => pidDB[p].start <= queue[i].gen

Accounted ==
  /\ \A i \in Queued : queue[i].kind = "exec" =>
       Lives(queue[i]) \/ \E j \in Queued : i < j /\ queue[j] = ExitOf(queue[i])
  /\ ev # None /\ ev.kind = "exec" =>
       Lives(ev) \/ \E j \in Queued : queue[j] = ExitOf(ev)

Complete == NoStaleEntry /\ Ordered /\ NotNewer /\ EntryOldest /\ Accounted

IInv ==
  /\ TypeOK
  /\ InHand
  /\ LinePairs
  /\ GensUsed
  /\ ~overrun => Complete

\* Why DescendantsTraced holds: while nothing ends, pidDepth stays below the root
\* that the process is below.
ClimbDescends ==
  pc = "depth" /\ calm =>
    \/ cur = ev.pid
    \/ Exists(ev.pid) /\ Exists(cur) /\ (Descends(ev.pid) => Descends(cur))

\* Why DepthExact holds: an exit event whose pid is in use again was queued before
\* the pid's new process started, so that what comes before it in the queue, or is
\* in hand, is about older processes: pidDepth, which asks for ancestors of the
\* process in hand, finds no entry of an earlier process with the same pid.
OlderFirst ==
  \A j \in Queued :
    queue[j].kind = "exit" /\ Exists(queue[j].pid) /\ proc[queue[j].pid].gen # queue[j].gen =>
      /\ \A i \in Queued : i < j => queue[i].gen < proc[queue[j].pid].gen
      /\ ev # None => ev.gen < proc[queue[j].pid].gen

\* The process in hand is still there and below a root.
HandRooted == ev # None /\ Exists(ev.pid) /\ proc[ev.pid].gen = ev.gen /\ Rooted(ev.pid)

\* What pidDepth has counted and what is above cur make up the depth.
ClimbDepth ==
  /\ pc = "depth" /\ HandRooted =>
       /\ cur \in Lineage(proc, ev.pid)
       /\ Descends(cur)
       /\ Cardinality(Below(ev.pid)) = hops + Cardinality(Below(cur))
       /\ IF hops = 0 THEN cur = ev.pid ELSE cur \notin WatchPIDs
  /\ pc = "store" /\ HandRooted => hops = TreeDepth(ev.pid)

ClimbInv == ~overrun => OlderFirst /\ ClimbDepth /\ DepthExact

=============================================================================
