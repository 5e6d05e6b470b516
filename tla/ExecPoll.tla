------------------------------ MODULE ExecPoll ------------------------------
(***************************************************************************)
(* The exec tracer of macOS (c/exec.c, exec_darwin.go).  It has no events: *)
(* it lists the processes again and again and compares with macDB, what    *)
(* the last scan left.  A pid that is not in macDB is a new process, one   *)
(* that is no longer listed has ended.                                     *)
(*                                                                         *)
(* The Go tracer and its C port are both modelled; inC tells which one     *)
(* runs.  They differ in what they use of the list (procListAllPIDs), in   *)
(* what a failing seed does and in how many processes a scan forgets.      *)
(*                                                                         *)
(* The system goes on during a scan: the list, each bsdInfo and each read  *)
(* of arguments are steps of their own.  How CMD mode ends is in CmdMode.  *)
(***************************************************************************)
EXTENDS ProcTree

CONSTANTS ShowExit,       \* -t
          ListsZombies,   \* whether the kernel lists a process nobody has waited for
          MaxGoners       \* 1024: goners that one scan of the C port takes out

ASSUME ShowExitAssumption == ShowExit \in BOOLEAN
ASSUME ListsZombiesAssumption == ListsZombies \in BOOLEAN
ASSUME MaxGonersAssumption == MaxGoners \in Nat \ {0}

VARIABLES inC,     \* the C port runs, not the Go tracer
          cmd,     \* a command was given: the root is the tracer itself
          pc,      \* where the tracer is
          list,    \* pids: the last listing
          todo,    \* those of it the loop has not come to
          pid,     \* the new pid in hand
          cur,     \* the pid the recursion of macPidDepth has reached
          hops,    \* how many levels of recursion that took
          macDB,   \* pid -> entry, or None
          lines,   \* what the last step printed
          seeded,  \* history: forks when seedMacDB listed, -1 before and if it could not
          shown,   \* history: the processes whose exec was shown
          calm     \* history: nothing exited or was reaped during macPidDepth

local == <<list, todo, pid, cur, hops>>
tracer == <<inC, cmd, pc, local, macDB, lines, seeded, shown>>
vars == <<proc, forks, tracer, calm>>

\* start stands for startSec and startUsec: the process bsdInfo read them of, or -1.
MacEntry == [start : Gen \cup {-1}, depth : Nat \cup {-1}]
Line == [kind : {"exec", "exited"}, pid : Pid, start : Gen \cup {-1}]
ASSUME NoneIsNoEntry == None \notin MacEntry

NewEntry(g) == [start |-> g, depth |-> -1]

isWatchRoot(p) == p \in WatchPIDs

Init ==
  /\ ProcInit
  /\ inC \in BOOLEAN
  /\ cmd \in BOOLEAN
  /\ pc = IF cmd THEN "fork" ELSE "seed"
  /\ list = {}
  /\ todo = {}
  /\ pid = InitPid
  /\ cur = InitPid
  /\ hops = 0
  /\ macDB = [p \in Pid |-> None]
  /\ lines = {}
  /\ seeded = -1
  /\ shown = {}
  /\ calm = TRUE

KernelFork == (\E p, c \in Pid : Fork(p, c)) /\ UNCHANGED <<tracer, calm>>

KernelEnd ==
  /\ \E p \in Pid : (Exit(p) /\ ~(cmd /\ p \in WatchPIDs)) \/ Reap(p)
  /\ calm' = (pc # "depth" /\ calm)
  /\ UNCHANGED tracer

Kernel == pc \notin {"fork", "dead"} /\ (KernelFork \/ KernelEnd)

-----------------------------------------------------------------------------
(* Start.                                                                  *)

\* CMD mode starts the command before it knows what is running.
ForkCmd ==
  /\ pc = "fork"
  /\ \E p \in WatchPIDs, c \in Pid : Fork(p, c)
  /\ pc' = "seed"
  /\ UNCHANGED <<inC, cmd, local, macDB, lines, seeded, shown, calm>>

Listed(p) == Exists(p) /\ (proc[p].alive \/ ListsZombies)
AllPIDs == {p \in Pid : Listed(p)}

\* Mutant: Go divides a number of processes too.
procListAllPIDsDivided ==
  {S \in SUBSET AllPIDs : Cardinality(S) = Cardinality(AllPIDs) \div 4}

\* What one call may return.  libproc's proc_listallpids gives the C port a number of
\* processes, which it divides by the size of a pid as if it were a number of bytes:
\* it uses a quarter of the list, in an order that is up to the kernel.  The raw system
\* call of the Go tracer gives bytes, and the same division is right.
procListAllPIDs ==
  {S \in SUBSET AllPIDs :
     Cardinality(S) = IF inC THEN Cardinality(AllPIDs) \div 4 ELSE Cardinality(AllPIDs)}

\* seedMacDB lists the processes ...
Seed ==
  /\ pc = "seed"
  /\ list' \in procListAllPIDs
  /\ todo' = list'
  /\ seeded' = forks
  /\ pc' = IF todo' = {} THEN "sleep" ELSE "seeding"
  /\ UNCHANGED <<proc, forks, inC, cmd, pid, cur, hops, macDB, lines, shown, calm>>

\* ... or cannot: the C port starts without, and the Go tracer ends.
SeedFails ==
  /\ pc = "seed"
  /\ pc' = IF inC THEN "sleep" ELSE "dead"
  /\ UNCHANGED <<proc, forks, inC, cmd, local, macDB, lines, seeded, shown, calm>>

bsdInfo(p) == Exists(p)
bsdStart(p) == IF Exists(p) THEN proc[p].gen ELSE -1

\* ... and reads each of them; none counts as a descendant.  One that is gone by then
\* gets an entry in the C port only.
SeedOne ==
  /\ pc = "seeding"
  /\ \E p \in todo :
       /\ macDB' = IF inC \/ bsdInfo(p) THEN [macDB EXCEPT ![p] = NewEntry(bsdStart(p))] ELSE macDB
       /\ todo' = todo \ {p}
  /\ pc' = IF todo' = {} THEN "sleep" ELSE "seeding"
  /\ UNCHANGED <<proc, forks, inC, cmd, list, pid, cur, hops, lines, seeded, shown, calm>>

-----------------------------------------------------------------------------
(* One scan.                                                               *)

Scan ==
  /\ pc = "sleep"
  /\ list' \in procListAllPIDs
  /\ todo' = list'
  /\ pc' = "pids"
  /\ lines' = {}
  /\ UNCHANGED <<proc, forks, inC, cmd, pid, cur, hops, macDB, seeded, shown, calm>>

\* Mutant: the loops run over an empty list.
ScanFailsOn ==
  /\ pc = "sleep"
  /\ list' = {}
  /\ todo' = {}
  /\ pc' = "pids"
  /\ lines' = {}
  /\ UNCHANGED <<proc, forks, inC, cmd, pid, cur, hops, macDB, seeded, shown, calm>>

\* Nothing can be listed: scanMacDB returns.
ScanFails == pc = "sleep" /\ UNCHANGED vars

\* A listed pid that is in macDB is trusted to be the same process.
KnownPid ==
  /\ pc = "pids"
  /\ \E p \in todo : macDB[p] # None /\ todo' = todo \ {p}
  /\ lines' = {}
  /\ UNCHANGED <<proc, forks, inC, cmd, pc, list, pid, cur, hops, macDB, seeded, shown, calm>>

\* A new one gets an entry, and bsdInfo reads it unless it is gone.
NewPid ==
  /\ pc = "pids"
  /\ \E p \in todo :
       /\ macDB[p] = None
       /\ todo' = todo \ {p}
       /\ macDB' = [macDB EXCEPT ![p] = NewEntry(bsdStart(p))]
       /\ pid' = p
       /\ cur' = p
       /\ pc' = IF bsdInfo(p) THEN "depth" ELSE "pids"
  /\ lines' = {}
  /\ UNCHANGED <<proc, forks, inC, cmd, list, hops, seeded, shown, calm>>

\* One level of the recursion of macPidDepth: its result, or Up where it calls
\* itself for the parent.
Up == -2
Cached(p) == macDB[p] # None /\ macDB[p].depth >= 0

\* Mutant: an entry that is not below a root is taken for an answer.
macPidDepthTrusting(p) ==
  LET ppid == statPPID(p)
  IN CASE isWatchRoot(p) -> 0
       [] ~isWatchRoot(p) /\ (ppid <= 0 \/ ppid = p) -> -1
       [] ~isWatchRoot(p) /\ ppid # p /\ isWatchRoot(ppid) -> 0
       [] ~isWatchRoot(p) /\ ppid # p /\ ppid > 0 /\ ~isWatchRoot(ppid) ->
            IF Cached(ppid) THEN macDB[ppid].depth + 1 ELSE IF macDB[ppid] # None THEN -1 ELSE Up

macPidDepth(p) ==
  LET ppid == statPPID(p)
  IN CASE isWatchRoot(p) -> 0
       [] ~isWatchRoot(p) /\ (ppid <= 0 \/ ppid = p) -> -1
       [] ~isWatchRoot(p) /\ ppid # p /\ isWatchRoot(ppid) -> 0
       [] ~isWatchRoot(p) /\ ppid # p /\ ppid > 0 /\ ~isWatchRoot(ppid) ->
            IF Cached(ppid) THEN macDB[ppid].depth + 1 ELSE Up

Depth ==
  /\ pc = "depth"
  /\ LET d == macPidDepth(cur)
     IN \/ d = Up /\ cur' = statPPID(cur) /\ hops' = hops + 1 /\ UNCHANGED <<pc, macDB, calm>>
        \/ /\ d # Up
           /\ macDB' = [macDB EXCEPT ![pid].depth = IF d = -1 THEN -1 ELSE d + hops]
           /\ pc' = IF d = -1 THEN "pids" ELSE "emit"
           /\ cur' = InitPid
           /\ hops' = 0
           /\ calm' = TRUE
  /\ UNCHANGED <<proc, forks, inC, cmd, list, todo, pid, lines, seeded, shown>>

\* Arguments or path are read; of a process that is gone nothing is printed, and a
\* zombie may have neither.
macEmitExec ==
  /\ pc = "emit"
  /\ \/ /\ Exists(pid)
        /\ lines' = {[kind |-> "exec", pid |-> pid, start |-> macDB[pid].start]}
        /\ shown' = shown \cup {<<pid, macDB[pid].start>>}
     \/ ~Running(pid) /\ lines' = {} /\ UNCHANGED shown
  /\ pc' = "pids"
  /\ UNCHANGED <<proc, forks, inC, cmd, local, macDB, seeded, calm>>

\* Mutant: an entry that was never a descendant is printed too.
macEmitExitAll(gone) ==
  {[kind |-> "exited", pid |-> p, start |-> macDB[p].start] : p \in {q \in gone : ShowExit}}

macEmitExit(gone) ==
  {[kind |-> "exited", pid |-> p, start |-> macDB[p].start] :
     p \in {q \in gone : ShowExit /\ macDB[q].depth >= 0}}

\* What macDB has and the list has not is gone; in the C port, as far as goners has room.
Sweep ==
  /\ pc = "pids"
  /\ todo = {}
  /\ LET missing == {p \in Pid : macDB[p] # None /\ p \notin list}
     IN \E gone \in SUBSET missing :
          /\ gone = missing \/ (inC /\ Cardinality(gone) = MaxGoners)
          /\ inC => Cardinality(gone) <= MaxGoners
          /\ lines' = macEmitExit(gone)
          /\ macDB' = [p \in Pid |-> IF p \in gone THEN None ELSE macDB[p]]
  /\ pc' = "sleep"
  /\ list' = {}
  /\ pid' = InitPid
  /\ cur' = InitPid
  /\ UNCHANGED <<proc, forks, inC, cmd, todo, hops, seeded, shown, calm>>

\* fatalf ended the tracer.
Over == pc = "dead" /\ UNCHANGED vars

Tracer == \/ ForkCmd \/ Seed \/ SeedFails \/ SeedOne
          \/ Scan \/ ScanFails \/ KnownPid \/ NewPid \/ Depth \/ macEmitExec \/ Sweep

Next == Kernel \/ Tracer \/ Over

\* The loop runs on, and listing does not fail for ever.
Spec == Init /\ [][Next]_vars /\ WF_vars(Tracer)

-----------------------------------------------------------------------------
(* Properties.                                                             *)

\* The state is well formed; a new process whose depth is computed, or that is printed,
\* has an entry of macDB with a start time.
TypeOK ==
  /\ ProcTypeOK
  /\ inC \in BOOLEAN
  /\ cmd \in BOOLEAN
  /\ pc \in {"dead", "fork", "seed", "seeding", "sleep", "pids", "depth", "emit"}
  /\ list \subseteq Pid
  /\ todo \subseteq list
  /\ pid \in Pid
  /\ cur \in Pid
  /\ hops \in Nat
  /\ macDB \in [Pid -> MacEntry \cup {None}]
  /\ lines \subseteq Line
  /\ seeded \in Gen \cup {-1}
  /\ shown \subseteq Pid \X Gen
  /\ calm \in BOOLEAN
  /\ pc \in {"depth", "emit"} => macDB[pid] # None /\ macDB[pid].start # -1

Runs(p, g) == Running(p) /\ proc[p].gen = g

\* The exited lines of scan() are about processes that have ended, although the
\* list they come from is old when they are printed and pids are used again.  It is
\* said of the Go tracer: the C port takes a process that is behind the part of the
\* list it uses for one that has ended.
ExitTruthful == ~inC => \A l \in lines : l.kind = "exited" => ~Runs(l.pid, l.start)

\* An exited line of scanMacDB is about a process whose exec was shown, or that was
\* gone before it could be, whatever part of the list either program uses.
ExitedWasShown ==
  \A l \in lines : l.kind = "exited" => <<l.pid, l.start>> \in shown \/ ~Runs(l.pid, l.start)

\* seedDB lists "every currently-live pid so we don't emit a 'new process' wave"
\* (exec_darwin.go): what ran then is never shown, whatever the scans later forget.
\* The C port says the same and seeds a quarter of them.
OnlyNew == ~inC => \A l \in lines : l.kind = "exec" => l.start > seeded

\* The Go tracer shows no process twice: a pid is taken out of db only when its
\* process has ended.
ShownOnce ==
  [][~inC => \A l \in lines' : l.kind = "exec" /\ l \notin lines => <<l.pid, l.start>> \notin shown]_vars

\* While macPidDepth reads the parents and nothing exits, a new process is left out
\* only if it is not below a watched root.
DescendantsShown ==
  [][pc = "depth" /\ pc' = "pids" /\ calm => ~Descends(pid)]_vars

\* Again and again db has an entry for a pid exactly when the kernel lists it: the Go
\* tracer notices new processes and forgets ended ones, unless the pid changes hands
\* first or it could not start.
CatchesUp ==
  \A p \in Pid : []<>(inC \/ pc = "dead" \/ ((macDB[p] # None) <=> Listed(p)))

-----------------------------------------------------------------------------
(* The inductive invariant.                                                *)

\* Must not be shown (again): it ran when seedMacDB listed, or it was shown.
Held(p) == Exists(p) /\ (proc[p].gen <= seeded \/ <<p, proc[p].gen>> \in shown)

InScan == pc \in {"pids", "depth", "emit"}

\* Histories and entries are of processes that have started.
Past ==
  /\ seeded <= forks
  /\ \A p \in Pid : Exists(p) => proc[p].gen <= forks
  /\ \A p \in Pid : macDB[p] # None => macDB[p].start <= forks
  /\ \A x \in shown : x[2] <= forks
  /\ \A l \in lines : l.start <= forks

\* Nothing has been shown before the first scan.
Unstarted ==
  /\ pc \in {"fork", "seed", "seeding"} => shown = {} /\ lines = {}
  /\ pc \in {"fork", "seed"} => seeded = -1

\* Go: a process that is held, and listed or still to be looked at, is in db.
HeldKnown ==
  ~inC =>
    /\ pc = "seeding" =>
         \A p \in Pid : Held(p) /\ Listed(p) => macDB[p] # None \/ p \in todo
    /\ pc = "sleep" => \A p \in Pid : Held(p) /\ Listed(p) => macDB[p] # None
    /\ InScan => \A p \in Pid : Held(p) /\ (Listed(p) \/ p \in todo) => macDB[p] # None

\* Go: a scan has in its list what must not be swept.
ListCovers ==
  ~inC /\ InScan => \A p \in Pid :
    Listed(p) /\ (Held(p) \/ (macDB[p] # None /\ macDB[p].start = proc[p].gen)) => p \in list

\* Go: the process in hand has not been shown.
InHandFresh ==
  ~inC /\ pc \in {"depth", "emit"} =>
    /\ pid \in list
    /\ macDB[pid].start > seeded
    /\ <<pid, macDB[pid].start>> \notin shown

\* An entry with a depth is of a process that was shown or has ended, unless it is the
\* one about to be shown; a process whose depth is not known yet has none.
DeepShown ==
  /\ pc = "depth" => macDB[pid].depth = -1
  /\ \A p \in Pid :
       macDB[p] # None /\ macDB[p].depth >= 0 /\ ~(pc = "emit" /\ p = pid) =>
         <<p, macDB[p].start>> \in shown \/ ~Runs(p, macDB[p].start)

IInv ==
  /\ TypeOK
  /\ Past
  /\ Unstarted
  /\ HeldKnown
  /\ ListCovers
  /\ InHandFresh
  /\ DeepShown
  /\ ExitTruthful
  /\ ExitedWasShown
  /\ OnlyNew

\* Why DescendantsShown holds: while nothing ends, macPidDepth stays below the root that
\* the process in hand is below.
ClimbDescends ==
  pc = "depth" /\ calm =>
    \/ cur = pid
    \/ Exists(pid) /\ Exists(cur) /\ (Descends(pid) => Descends(cur))
=============================================================================
