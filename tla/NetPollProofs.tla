---------------------------- MODULE NetPollProofs ---------------------------
(* Proofs about NetPoll, for any processes, connections and table size,    *)
(* and, at the end, about CmdMode, for every set of tracers.               *)
EXTENDS NetPoll, CmdMode, FiniteSetTheorems, TLAPS

LEMMA InitInv == Init => IInv
<1> SUFFICES ASSUME Init PROVE IInv
  OBVIOUS
<1>1. IsFiniteSet({}) /\ Cardinality({}) = 0
  BY FS_EmptySet
<1>2. TypeOK
  BY <1>1, BoundAssumption DEF Init, TypeOK
<1> QED
  BY <1>1, <1>2 DEF Init, IInv, OutReported, Attributed, SeedsKept, SilentFirst, OldHidden

\* A file that net_scan does not pass over is a socket with a port, and its key was
\* reported.
LEMMA ReadKey ==
  ASSUME IInv, NEW f \in out, ~Skipped(f)
  PROVE f.name \in Conn /\ KeyRead(f) = KeyOf(f) /\ KeyRead(f) \in reported /\ KeyRead(f) \in Key
<1>1. f \in Fd /\ f.proto # None /\ f.name # Unbound
  BY DEF IInv, TypeOK, Skipped, ProtoRead
<1>2. f.name \in Conn
  BY <1>1 DEF Fd
<1>3. KeyRead(f) = KeyOf(f)
  BY DEF KeyRead, KeyOf, ProtoRead
<1> QED
  BY <1>2, <1>3 DEF IInv, OutReported, TypeOK

\* A file whose name has a port is never passed over.
LEMMA PortRead ==
  ASSUME IInv, NEW f \in out, f.name \in Conn
  PROVE ~Skipped(f) /\ KeyRead(f) = KeyOf(f)
<1>1. f \in Fd /\ f.name # Unbound /\ f.name # Other
  BY NameAssumption DEF IInv, TypeOK
<1>2. f.proto \in Proto
  BY <1>1 DEF Fd
<1>3. f.proto # None
  BY <1>2, NoneAssumption
<1> QED
  BY <1>1, <1>3 DEF Skipped, ProtoRead, KeyRead, KeyOf

\* net_seen_check_insert keeps the table finite and within its size.
LEMMA Insert ==
  ASSUME IInv, NEW k, ~Already(k)
  PROVE /\ IsFiniteSet(seen \cup {k})
        /\ Cardinality(seen \cup {k}) \in Nat
        /\ Cardinality(seen \cup {k}) = Cardinality(seen) + 1
        /\ Cardinality(seen \cup {k}) <= Cap
        /\ Cardinality(seen) \in Nat
        /\ ~(Cardinality(seen) >= Cap)
        /\ k \notin seen
<1>1. IsFiniteSet(seen) /\ k \notin seen /\ ~(Cardinality(seen) >= Cap)
  BY DEF IInv, Already
<1>2. Cardinality(seen) \in Nat
  BY <1>1, FS_CardinalityType
<1>3. IsFiniteSet(seen \cup {k}) /\ Cardinality(seen \cup {k}) = Cardinality(seen) + 1
  BY <1>1, FS_AddElement
<1> QED
  BY <1>1, <1>2, <1>3, BoundAssumption

-----------------------------------------------------------------------------
(* What the steps that read no file leave as it was.                       *)

LEMMA QuietStep ==
  ASSUME IInv,
         line' = None, open' \in [Pid -> SUBSET Fd], pc' \in {"sleep", "scan"}, todo' \subseteq Pid,
         UNCHANGED <<out, cur, seen, history>>,
         seedOnly' = seedOnly \/ (seedOnly' = FALSE /\ out = {}),
         pc' = "sleep" => out = {}
  PROVE IInv'
<1>1. TypeOK'
  BY DEF IInv, TypeOK, cur, history
<1>2. OutReported' /\ Attributed' /\ OldHidden' /\ SilentFirst'
  BY DEF IInv, OutReported, Attributed, OldHidden, SilentFirst, KeyOf, cur, history, TypeOK
<1>3. SeedsKept'
  BY DEF IInv, SeedsKept, KeyOf, cur, history
<1> QED
  BY <1>1, <1>2, <1>3 DEF IInv, cur, history

LEMMA LsofStep == ASSUME IInv, LsofLists PROVE IInv'
<1> PICK p \in todo : /\ todo' = todo \ {p} /\ out' = open[p] /\ cur_pid' = p
                      /\ reported' = Sockets(p)
                      /\ seeded' = IF seedOnly THEN seeded \cup Sockets(p) ELSE seeded
  BY DEF LsofLists
<1>1. p \in Pid /\ open[p] \subseteq Fd /\ out = {}
  BY DEF IInv, TypeOK, LsofLists
<1>2. \A f \in open[p] : f.name \in Conn => f.proto \in Proto
  BY <1>1, NameAssumption DEF Fd
<1>3. Sockets(p) \subseteq Key
  BY <1>1, <1>2 DEF Sockets, Key
<1>4. TypeOK'
  BY <1>1, <1>3 DEF IInv, TypeOK, LsofLists
<1>5. \A f \in out' : f.name \in Conn => KeyOf(f)' \in Sockets(p)
  BY DEF KeyOf, Sockets
<1>6. OutReported'
  BY <1>5 DEF OutReported, KeyOf
<1>7. \A k \in Sockets(p) : \E f \in out' : f.name \in Conn /\ k = KeyOf(f)'
  BY DEF Sockets, KeyOf
<1>8. SeedsKept'
  <2> SUFFICES ASSUME NEW k \in seeded'
               PROVE (\/ k \in seen \/ Cardinality(seen) >= Cap
                      \/ seedOnly /\ \E f \in out : f.name \in Conn /\ k = KeyOf(f))'
    BY DEF SeedsKept
  <2>1. seen' = seen /\ seedOnly' = seedOnly
    BY DEF LsofLists
  <2>2. CASE k \in seeded
    BY <2>1, <2>2, <1>1 DEF IInv, SeedsKept
  <2>3. CASE seedOnly /\ k \in Sockets(p)
    BY <2>1, <2>3, <1>7
  <2> QED
    BY <2>2, <2>3
<1>9. Attributed' /\ SilentFirst' /\ OldHidden'
  BY DEF LsofLists, IInv, Attributed, SilentFirst, OldHidden
<1> QED
  BY <1>4, <1>6, <1>8, <1>9 DEF IInv, LsofLists

LEMMA EndStep == ASSUME IInv, ScanEnds PROVE IInv'
<1>1. TypeOK'
  BY DEF IInv, TypeOK, ScanEnds
<1>2. OutReported' /\ Attributed' /\ OldHidden' /\ SilentFirst'
  BY DEF IInv, OutReported, Attributed, OldHidden, SilentFirst, ScanEnds
<1>3. SeedsKept'
  BY DEF IInv, SeedsKept, ScanEnds
<1> QED
  BY <1>1, <1>2, <1>3 DEF IInv, ScanEnds

LEMMA ReadStep == ASSUME IInv, ReadFile PROVE IInv'
<1> PICK f \in out :
       /\ out' = out \ {f}
       /\ cur_proto' = ProtoRead(f)
       /\ \/ /\ Skipped(f) \/ Already(KeyRead(f))
             /\ line' = None
             /\ UNCHANGED <<seen, shown>>
          \/ /\ ~(Skipped(f) \/ Already(KeyRead(f)))
             /\ seen' = seen \cup {KeyRead(f)}
             /\ line' = IF seedOnly THEN None ELSE KeyRead(f)
             /\ shown' = IF seedOnly THEN shown ELSE shown \cup {line'}
  BY DEF ReadFile
<1>1. /\ UNCHANGED <<open, pc, seedOnly, todo, cur_pid, reported, seeded>>
      /\ pc = "scan"
  BY DEF ReadFile
<1>2. cur_proto' \in Proto \cup {None}
  BY DEF IInv, TypeOK, Fd, ProtoRead
<1>3. OutReported'
  BY <1>1 DEF IInv, OutReported, KeyOf
<1>4. \A g \in out : KeyOf(g)' = KeyOf(g)
  BY <1>1 DEF KeyOf
<1>5. CASE Skipped(f) \/ Already(KeyRead(f))
  <2>1. line' = None /\ UNCHANGED <<seen, shown>>
    BY <1>5
  <2>2. TypeOK'
    BY <1>1, <1>2, <2>1 DEF IInv, TypeOK
  <2>3. Attributed' /\ SilentFirst' /\ OldHidden'
    BY <1>1, <2>1 DEF IInv, Attributed, SilentFirst, OldHidden
  <2>4. SeedsKept'
    <3> SUFFICES ASSUME NEW k \in seeded
                 PROVE \/ k \in seen
                       \/ Cardinality(seen) >= Cap
                       \/ seedOnly /\ \E g \in out' : g.name \in Conn /\ k = KeyOf(g)'
      BY <1>1, <2>1 DEF SeedsKept
    <3>1. CASE f.name \in Conn /\ k = KeyOf(f)
      BY <3>1, <1>5, PortRead DEF Already
    <3>2. CASE ~(f.name \in Conn /\ k = KeyOf(f))
      BY <3>2, <1>4 DEF IInv, SeedsKept
    <3> QED
      BY <3>1, <3>2
  <2> QED
    BY <1>1, <1>3, <2>1, <2>2, <2>3, <2>4 DEF IInv
<1>6. CASE ~(Skipped(f) \/ Already(KeyRead(f)))
  <2> DEFINE k == KeyRead(f)
  <2>1. /\ k \in reported /\ k \in Key /\ k = KeyOf(f) /\ k # None
    BY <1>6, ReadKey, NoneAssumption
  <2>2. /\ seen' = seen \cup {k}
        /\ line' = IF seedOnly THEN None ELSE k
        /\ shown' = IF seedOnly THEN shown ELSE shown \cup {k}
    BY <1>6
  <2> HIDE DEF k
  <2>3. /\ IsFiniteSet(seen') /\ Cardinality(seen') <= Cap
        /\ Cardinality(seen) \in Nat /\ ~(Cardinality(seen) >= Cap)
    BY <1>6, <2>2, Insert DEF k
  <2>4. TypeOK'
    BY <1>1, <1>2, <2>1, <2>2, <2>3 DEF IInv, TypeOK
  <2>5. Attributed'
    BY <1>1, <2>1, <2>2 DEF Attributed
  <2>6. SilentFirst'
    BY <1>1, <2>2 DEF IInv, SilentFirst
  <2>7. ~seedOnly => k \notin seeded
    BY <1>6, <2>3 DEF IInv, SeedsKept, Already, k
  <2>8. OldHidden'
    BY <1>1, <2>2, <2>7 DEF IInv, OldHidden
  <2>9. SeedsKept'
    <3> SUFFICES ASSUME NEW s \in seeded
                 PROVE s \in seen' \/ (seedOnly /\ \E g \in out' : g.name \in Conn /\ s = KeyOf(g)')
      BY <1>1 DEF SeedsKept
    <3> QED
      BY <1>4, <2>1, <2>2, <2>3 DEF IInv, SeedsKept
  <2> QED
    BY <1>1, <1>3, <2>3, <2>4, <2>5, <2>6, <2>8, <2>9 DEF IInv
<1> QED
  BY <1>5, <1>6

LEMMA StepInv == IInv /\ [Next]_vars => IInv'
<1> SUFFICES ASSUME IInv, [Next]_vars PROVE IInv'
  OBVIOUS
<1>1. CASE KernelOpen
  <2>1. open' \in [Pid -> SUBSET Fd]
    BY <1>1 DEF KernelOpen, IInv, TypeOK
  <2> QED
    BY <1>1, <2>1, QuietStep DEF KernelOpen, IInv, TypeOK
<1>2. CASE KernelClose
  <2>1. open' \in [Pid -> SUBSET Fd]
    BY <1>2 DEF KernelClose, IInv, TypeOK
  <2> QED
    BY <1>2, <2>1, QuietStep DEF KernelClose, IInv, TypeOK
<1>3. CASE ScanStart
  <2>1. lsof_argv \subseteq Pid
    BY WatchAssumption DEF lsof_argv
  <2> QED
    BY <1>3, <2>1, QuietStep DEF ScanStart, IInv, TypeOK
<1>4. CASE ScanFails
  BY <1>4, QuietStep DEF ScanFails, IInv, TypeOK
<1>5. CASE Scan
  BY <1>5, LsofStep, ReadStep, EndStep DEF Scan
<1>6. CASE UNCHANGED vars
  BY <1>6 DEF vars, cur, history, IInv, TypeOK, OutReported, Attributed, SeedsKept,
              SilentFirst, OldHidden, KeyOf
<1> QED
  BY <1>1, <1>2, <1>3, <1>4, <1>5, <1>6 DEF Next

-----------------------------------------------------------------------------

\* The invariant that relates net_seen, the files lsof has written and what was printed.
THEOREM PollInvariant == Spec => []IInv
BY InitInv, StepInv, PTL DEF Spec

\* net_scan's locals, the table and its size are well formed: net_seen_check_insert never
\* holds more than NETSEEN_CAP connections.
THEOREM TypeCorrect == Spec => []TypeOK
<1>1. IInv => TypeOK
  BY DEF IInv
<1> QED
  BY <1>1, PollInvariant, PTL

\* Every printed connection was found in the process it is printed with.
THEOREM LinesAttributed == Spec => []Attributed
<1>1. IInv => Attributed
  BY DEF IInv
<1> QED
  BY <1>1, PollInvariant, PTL

\* No connection that the first net_scan found is ever printed.
THEOREM OldNeverShown == Spec => []OldHidden
<1>1. IInv => OldHidden
  BY DEF IInv
<1> QED
  BY <1>1, PollInvariant, PTL

-----------------------------------------------------------------------------
(* Proofs about CmdMode: how this tracer and the others end when they were *)
(* given a command to start.                                               *)

LEMMA CmdInitInv == CmdInit => CmdIInv
  BY DEF CmdInit, CmdIInv, CmdTypeOK, NotBeforeCommand, Before,
         After, AnyChild

\* What the main thread does before and in its loop preserves the invariant.
LEMMA CmdMainInv == CmdIInv /\ (Main \/ OtherEvent \/ DnsLookup) => CmdIInv'
<1> SUFFICES ASSUME CmdIInv, Main \/ OtherEvent \/ DnsLookup PROVE CmdIInv'
  OBVIOUS
<1> USE DEF CmdIInv, CmdTypeOK, NotBeforeCommand, Before, After,
            AnyChild, OwnChild, children
<1>1. CASE Install
  BY <1>1 DEF Install
<1>2. CASE ForkCmd
  BY <1>2 DEF ForkCmd
<1>3. CASE Save
  BY <1>3 DEF Save
<1>4. CASE ExecLoop
  BY <1>4 DEF ExecLoop, Goto
<1>5. CASE ExecRecv
  BY <1>5 DEF ExecRecv
<1>6. CASE OtherEvent
  BY <1>6 DEF OtherEvent, Goto
<1>7. CASE NetScan \/ NetScanFails
  BY <1>7 DEF NetScan, NetScanFails, RunLsof, NoLsof, Goto
<1>8. CASE ScanEnd
  BY <1>8 DEF ScanEnd, Goto
<1>9. CASE NetCheck
  BY <1>9 DEF NetCheck, RunLsof, NoLsof, Goto
<1>10. CASE DnsLookup
  BY <1>10 DEF DnsLookup, RunLsof, NoLsof, Goto
<1> QED
  BY <1>1, <1>2, <1>3, <1>4, <1>5, <1>6, <1>7, <1>8, <1>9, <1>10 DEF Main

\* So does what interrupts it: children that end, signals, threads and timers.
LEMMA CmdKernelInv ==
  CmdIInv /\ (CmdExit \/ CmdExitEvent \/ LsofExit \/ on_child
    \/ child_waiter \/ on_alarm) => CmdIInv'
<1> SUFFICES ASSUME CmdIInv,
                    CmdExit \/ CmdExitEvent \/ LsofExit \/ on_child
                      \/ child_waiter \/ on_alarm
             PROVE CmdIInv'
  OBVIOUS
<1> USE DEF CmdIInv, CmdTypeOK, NotBeforeCommand, Before, After,
            AnyChild, OwnChild, children
<1>1. CASE CmdExit
  BY <1>1 DEF CmdExit
<1>2. CASE CmdExitEvent
  BY <1>2 DEF CmdExitEvent
<1>3. CASE LsofExit
  BY <1>3 DEF LsofExit
<1>4. CASE on_child
  <2>1. flag' = (flag \/ (prog \in OwnChild /\ cmd = "zombie" /\ saved))
    BY <1>4 DEF on_child
  <2>2. timer' = (timer \/ prog \in AnyChild)
    BY <1>4 DEF on_child
  <2>3. flag' \in BOOLEAN /\ timer' \in BOOLEAN
    BY <2>1, <2>2
  <2>4. /\ flag' => cmd' = "reaped"
        /\ flag => flag'
    BY <1>4, <2>1 DEF on_child
  <2>5. /\ timer' => prog' \in AnyChild \cup {"waiter"}
        /\ timer' /\ prog' # "dns_mac" => cmd' = "reaped"
    BY <1>4, <2>2 DEF on_child
  <2>6. CmdTypeOK'
    BY <1>4, <2>3 DEF on_child
  <2>7. /\ UNCHANGED <<prog, main>>
        /\ ~pend'
        /\ cmd' = IF cmd = "zombie" THEN "reaped" ELSE cmd
    BY <1>4 DEF on_child
  <2> HIDE DEF CmdTypeOK
  <2> QED
    BY <2>4, <2>5, <2>6, <2>7
<1>5. CASE child_waiter
  BY <1>5 DEF child_waiter
<1>6. CASE on_alarm
  BY <1>6 DEF on_alarm, Goto
<1> QED
  BY <1>1, <1>2, <1>3, <1>4, <1>5, <1>6

\* The invariant holds of every tracer.
THEOREM CmdInvariant == CmdSpec => []CmdIInv
<1>1. CmdIInv /\ [CmdNext]_cmdVars => CmdIInv'
  <2> SUFFICES ASSUME CmdIInv, [CmdNext]_cmdVars PROVE CmdIInv'
    OBVIOUS
  <2>1. CASE UNCHANGED cmdVars
    BY <2>1 DEF cmdVars, CmdIInv, CmdTypeOK, NotBeforeCommand
  <2>2. CASE Exited
    BY <2>2 DEF Exited, cmdVars, CmdIInv, CmdTypeOK, NotBeforeCommand
  <2> QED
    BY <2>1, <2>2, CmdMainInv, CmdKernelInv DEF CmdNext
<1> QED
  BY <1>1, CmdInitInv, PTL DEF CmdSpec

\* The state of every tracer in CMD mode is well formed, and only those that call lsof
\* ever have it running.
THEOREM CmdTypeCorrect == CmdSpec => []CmdTypeOK
<1>1. CmdIInv => CmdTypeOK
  BY DEF CmdIInv
<1> QED
  BY <1>1, CmdInvariant, PTL

\* No tracer other than dns on macOS ends before the command it was given has
\* ended and been waited for.
THEOREM WaitsForCommand == CmdSpec => []NotBeforeCommand
<1>1. CmdIInv => NotBeforeCommand
  BY DEF CmdIInv, CmdTypeOK
<1> QED
  BY <1>1, CmdInvariant, PTL

=============================================================================
