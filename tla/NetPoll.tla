------------------------------- MODULE NetPoll ------------------------------
(***************************************************************************)
(* The net tracer of macOS (c/net.c, net_darwin.go).  It has no kernel     *)
(* events: it runs lsof again and again, reads the lines lsof writes and   *)
(* prints each connection that it has not seen before.  Processes open and *)
(* close files and sockets meanwhile; lsof takes one process at a time.    *)
(*                                                                         *)
(* How the tracer starts a command and ends with it is in CmdMode.         *)
(***************************************************************************)
EXTENDS Integers, FiniteSets

CONSTANTS Pid,
          WatchPIDs,   \* -p; all when empty
          Proto,       \* TCP, UDP
          Conn,        \* the names of sockets with a port
          MaxFd,       \* bound: open files of a process
          Cap,         \* NETSEEN_CAP
          None

\* The names of sockets without a port, and of what is no socket.
Unbound == "*:*"
Other == "other"

Key == [pid : Pid, proto : Proto, name : Conn]
\* An open file, as lsof shows it; only a socket has a protocol.
Fd == [proto : Proto, name : Conn \cup {Unbound}] \cup [proto : {None}, name : {Other}]

ASSUME BoundAssumption == MaxFd \in Nat /\ Cap \in Nat
ASSUME NameAssumption == {Unbound, Other} \cap Conn = {}
ASSUME NoneAssumption == None \notin Pid \cup Proto \cup Key
ASSUME WatchAssumption == WatchPIDs \subseteq Pid
ASSUME FiniteAssumption == IsFiniteSet(Pid) /\ IsFiniteSet(Proto) /\ IsFiniteSet(Conn)

VARIABLES open,        \* kernel: pid -> its open files
          pc,          \* "sleep", or "scan" inside net_scan
          seedOnly,    \* the scan in hand, or the next one, is the first
          todo,        \* lsof: processes it has not come to
          out,         \* files of cur_pid it has written and the tracer has not read
          cur_pid, cur_proto,   \* locals of net_scan
          seen,        \* net_seen
          line,        \* what the last step printed, or None
          reported,    \* history: the sockets lsof has found in the last process
          seeded,      \* history: those it found in the first scan
          shown        \* history: what was printed

cur == <<cur_pid, cur_proto>>
history == <<reported, seeded, shown>>
vars == <<open, pc, seedOnly, todo, out, cur, seen, line, history>>

Init ==
  /\ open \in [Pid -> {F \in SUBSET Fd : Cardinality(F) <= MaxFd}]
  /\ pc = "sleep"
  /\ seedOnly = TRUE
  /\ todo = {}
  /\ out = {}
  /\ cur_pid = None
  /\ cur_proto = None
  /\ seen = {}
  /\ line = None
  /\ reported = {}
  /\ seeded = {}
  /\ shown = {}

-----------------------------------------------------------------------------
(* The kernel: processes open and close files.  A change while the tracer  *)
(* reads what lsof wrote of a process may as well come after it: nothing   *)
(* looks at the files meanwhile.                                           *)

KernelOpen ==
  /\ out = {}
  /\ \E p \in Pid, f \in Fd :
       /\ Cardinality(open[p]) < MaxFd
       /\ open' = [open EXCEPT ![p] = @ \cup {f}]
  /\ line' = None
  /\ UNCHANGED <<pc, seedOnly, todo, out, cur, seen, history>>

KernelClose ==
  /\ out = {}
  /\ \E p \in Pid, f \in Fd : f \in open[p] /\ open' = [open EXCEPT ![p] = @ \ {f}]
  /\ line' = None
  /\ UNCHANGED <<pc, seedOnly, todo, out, cur, seen, history>>

-----------------------------------------------------------------------------
(* net_scan: fork lsof, read its lines to their end.                       *)

\* -p goes to lsof, with -a.
lsof_argv == IF WatchPIDs = {} THEN Pid ELSE WatchPIDs

ScanStart ==
  /\ pc = "sleep"
  /\ pc' = "scan"
  /\ todo' = lsof_argv
  /\ line' = None
  /\ UNCHANGED <<open, seedOnly, out, cur, seen, history>>

\* No pipe, no process or no lsof: the scan has found nothing.
ScanFails ==
  /\ pc = "sleep"
  /\ seedOnly' = FALSE
  /\ line' = None
  /\ UNCHANGED <<open, pc, todo, out, cur, seen, history>>

Sockets(p) == {[pid |-> p, proto |-> f.proto, name |-> f.name] : f \in {g \in open[p] : g.name \in Conn}}

\* lsof writes one more process, and its p line is read.
LsofLists ==
  /\ pc = "scan"
  /\ out = {}
  /\ \E p \in todo :
       /\ todo' = todo \ {p}
       /\ out' = open[p]
       /\ cur_pid' = p
       /\ reported' = Sockets(p)
       /\ seeded' = IF seedOnly THEN seeded \cup Sockets(p) ELSE seeded
  /\ cur_proto' = None
  /\ line' = None
  /\ UNCHANGED <<open, pc, seedOnly, seen, shown>>

\* Mutant: a new file does not clear the protocol of the last one.
ProtoKept(f) == IF f.proto = None THEN cur_proto ELSE f.proto

\* cur_proto after the lines of a file: f clears it, P, which only a socket has, sets it.
ProtoRead(f) == f.proto

KeyRead(f) == [pid |-> cur_pid, proto |-> ProtoRead(f), name |-> f.name]

\* What has no protocol and sockets without a port are passed over.
Skipped(f) == f.name = Unbound \/ ProtoRead(f) = None

\* net_seen_check_insert: known, and a full table takes every key for known.
Already(key) == key \in seen \/ Cardinality(seen) >= Cap

\* Mutant: the first scan inserts nothing.
ReadFileSeedless ==
  /\ pc = "scan"
  /\ \E f \in out :
       /\ out' = out \ {f}
       /\ cur_proto' = ProtoRead(f)
       /\ \/ /\ Skipped(f) \/ Already(KeyRead(f)) \/ seedOnly
             /\ line' = None
             /\ UNCHANGED <<seen, shown>>
          \/ /\ ~(Skipped(f) \/ Already(KeyRead(f)) \/ seedOnly)
             /\ line' = KeyRead(f)
             /\ seen' = seen \cup {line'}
             /\ shown' = shown \cup {line'}
  /\ UNCHANGED <<open, pc, seedOnly, todo, cur_pid, reported, seeded>>

\* Mutant: the first name that is not new ends the scan.
ReadFileStops ==
  /\ pc = "scan"
  /\ \E f \in out :
       /\ cur_proto' = ProtoRead(f)
       /\ \/ /\ Skipped(f) \/ Already(KeyRead(f))
             /\ line' = None
             /\ out' = {}
             /\ todo' = {}
             /\ UNCHANGED <<seen, shown>>
          \/ /\ ~(Skipped(f) \/ Already(KeyRead(f)))
             /\ out' = out \ {f}
             /\ seen' = seen \cup {KeyRead(f)}
             /\ line' = IF seedOnly THEN None ELSE KeyRead(f)
             /\ shown' = IF seedOnly THEN shown ELSE shown \cup {line'}
             /\ UNCHANGED todo
  /\ UNCHANGED <<open, pc, seedOnly, cur_pid, reported, seeded>>

\* The lines of one file, in whatever order the files come: its n line is passed over,
\* known, or new; what is new in the first scan is only remembered.
ReadFile ==
  /\ pc = "scan"
  /\ \E f \in out :
       /\ out' = out \ {f}
       /\ cur_proto' = ProtoRead(f)
       /\ \/ /\ Skipped(f) \/ Already(KeyRead(f))
             /\ line' = None
             /\ UNCHANGED <<seen, shown>>
          \/ /\ ~(Skipped(f) \/ Already(KeyRead(f)))
             /\ seen' = seen \cup {KeyRead(f)}
             /\ line' = IF seedOnly THEN None ELSE KeyRead(f)
             /\ shown' = IF seedOnly THEN shown ELSE shown \cup {line'}
  /\ UNCHANGED <<open, pc, seedOnly, todo, cur_pid, reported, seeded>>

\* lsof has ended and its lines are read.
ScanEnds ==
  /\ pc = "scan"
  /\ todo = {}
  /\ out = {}
  /\ pc' = "sleep"
  /\ seedOnly' = FALSE
  /\ cur_pid' = None
  /\ cur_proto' = None
  /\ reported' = {}
  /\ line' = None
  /\ UNCHANGED <<open, todo, out, seen, seeded, shown>>

Scan == LsofLists \/ ReadFile \/ ScanEnds

Next == KernelOpen \/ KernelClose \/ ScanStart \/ ScanFails \/ Scan

\* lsof and the tracer go on; of the scans tried again and again some do start.
Fairness == WF_vars(Scan) /\ SF_vars(ScanStart)

Spec == Init /\ [][Next]_vars /\ Fairness

-----------------------------------------------------------------------------
(* Properties.                                                             *)

\* The state is well formed, net_seen never has more entries than slots, and what was
\* printed is in it.
TypeOK ==
  /\ open \in [Pid -> SUBSET Fd]
  /\ pc \in {"sleep", "scan"}
  /\ seedOnly \in BOOLEAN
  /\ todo \subseteq Pid
  /\ out \subseteq Fd
  /\ cur_pid \in Pid \cup {None}
  /\ cur_proto \in Proto \cup {None}
  /\ seen \subseteq Key
  /\ Cardinality(seen) <= Cap
  /\ line \in Key \cup {None}
  /\ reported \subseteq Key
  /\ seeded \subseteq Key
  /\ shown \subseteq seen

\* What is printed of a process was found open in that process, with that protocol, when
\* lsof last looked: no line is taken together with what was read of another file.
Attributed == line # None => line \in reported

\* "mark currently-open sockets as already seen so we only print connections that appear
\* AFTER tracep starts" (c/net.c): what the first scan found is never printed, not even
\* when the table is full.
OldHidden == shown \cap seeded = {}

IsOpen(k) == \E f \in open[k.pid] : f.proto = k.proto /\ f.name = k.name

\* A connection of a watched process that stays open is noticed by some scan, unless the
\* table is full by then.
Noticed ==
  \A k \in Key : k.pid \in lsof_argv /\ IsOpen(k) ~> k \in seen \/ ~IsOpen(k) \/ Cardinality(seen) >= Cap
-----------------------------------------------------------------------------
(* The inductive invariant.                                                *)

KeyOf(f) == [pid |-> cur_pid, proto |-> f.proto, name |-> f.name]

\* What lsof has written of the process in hand is what it found there.
OutReported == \A f \in out : f.name \in Conn => KeyOf(f) \in reported

\* What the first scan found is remembered or about to be read, unless the table is full.
SeedsKept ==
  \A k \in seeded :
    \/ k \in seen
    \/ Cardinality(seen) >= Cap
    \/ seedOnly /\ \E f \in out : f.name \in Conn /\ k = KeyOf(f)

SilentFirst == seedOnly => shown = {}

IInv ==
  /\ TypeOK
  /\ IsFiniteSet(seen)
  /\ OutReported
  /\ Attributed
  /\ SeedsKept
  /\ SilentFirst
  /\ OldHidden
  /\ pc = "sleep" => out = {}
=============================================================================
