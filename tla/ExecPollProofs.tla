--------------------------- MODULE ExecPollProofs ---------------------------
(* Proofs about ExecPoll, for any processes, roots and bounds.             *)
EXTENDS ExecPoll, ProcTreeProofs

LEMMA Numbers ==
  /\ 0 \notin Pid /\ InitPid \in Pid
  /\ \A p \in Pid : p \in Int /\ p > 0
  /\ \A g \in Gen : g \in Int /\ g >= 0
  /\ 0 \in Gen
  BY InitPidAssumption, MaxForksAssumption DEF Gen

LEMMA InitInv == Init => IInv
<1> SUFFICES ASSUME Init PROVE IInv
  OBVIOUS
<1>1. ProcTypeOK
  BY Numbers DEF Init, ProcInit, ProcTypeOK, Process
<1>2. TypeOK
  BY <1>1, Numbers DEF Init, TypeOK
<1>3. \A p \in Pid : Exists(p) => proc[p].gen <= forks
  BY Numbers, NoneAssumption DEF Init, ProcInit, Exists
<1>4. \A p \in Pid : macDB[p] = None
  BY DEF Init
<1>5. Past
  BY <1>3, <1>4, Numbers DEF Init, ProcInit, Past
<1>6. Unstarted /\ HeldKnown /\ ListCovers /\ InHandFresh /\ ExitTruthful /\ ExitedWasShown /\ OnlyNew
  BY DEF Init, Unstarted, HeldKnown, ListCovers, InHandFresh, InScan, ExitTruthful, ExitedWasShown, OnlyNew
<1>7. DeepShown
  BY <1>4 DEF Init, DeepShown
<1> QED
  BY <1>2, <1>5, <1>6, <1>7 DEF IInv

-----------------------------------------------------------------------------
(* Steps of the kernel.                                                    *)

\* What the invariant needs to know of one: a process is there as it was, is a new
\* one, is gone, or has become a zombie.
KernelStep ==
  /\ ProcTypeOK'
  /\ forks' >= forks
  /\ \A p \in Pid : Exists(p)' =>
       \/ Exists(p) /\ proc'[p].gen = proc[p].gen /\ (proc'[p].alive => proc[p].alive)
       \/ proc'[p].gen = forks' /\ forks' > forks

LEMMA ForkStep ==
  ASSUME ProcTypeOK, NEW p \in Pid, NEW c \in Pid, Fork(p, c)
  PROVE KernelStep
<1>1. /\ ProcTypeOK' /\ forks' = forks + 1 /\ forks \in Nat
      /\ proc'[c].gen = forks + 1
      /\ \A q \in Pid \ {c} : proc'[q] = proc[q]
  BY ForkTable
<1> QED
  BY <1>1 DEF KernelStep, Exists

LEMMA ExitStep ==
  ASSUME ProcTypeOK, NEW p \in Pid, Exit(p) \/ Reap(p)
  PROVE KernelStep
<1>0. forks' = forks /\ forks \in Int
  BY Numbers DEF Exit, Reap, ProcTypeOK
<1>1. CASE Exit(p)
  <2>1. /\ ProcTypeOK' /\ Running(p)
        /\ \A q \in Pid : /\ Exists(q)' <=> Exists(q)
                          /\ Exists(q) => /\ proc'[q].gen = proc[q].gen
                                          /\ q # p => proc'[q].alive = proc[q].alive
    BY <1>1, ExitTable
  <2> QED
    BY <1>0, <2>1 DEF KernelStep, Running
<1>2. CASE Reap(p)
  <2>1. ProcTypeOK' /\ ~Exists(p)' /\ \A q \in Pid \ {p} : proc'[q] = proc[q]
    BY <1>2, ReapTable
  <2> QED
    BY <1>0, <2>1 DEF KernelStep, Exists
<1> QED
  BY <1>1, <1>2

\* The kernel never undoes what the invariant says.
LEMMA KernelKeeps ==
  ASSUME IInv, KernelStep, UNCHANGED <<local, macDB, lines, seeded, shown, inC, cmd>>,
         calm' \in BOOLEAN,
         pc' = pc \/ (pc = "fork" /\ pc' = "seed")
  PROVE IInv'
<1>1. TypeOK'
  BY DEF IInv, TypeOK, KernelStep, local
<1>2. forks \in Int /\ forks' \in Int /\ seeded \in Int /\ seeded <= forks
  BY <1>1, Numbers DEF TypeOK, ProcTypeOK, IInv, Past
<1>3. \A p \in Pid : Exists(p)' => proc'[p].gen \in Int
  BY <1>1, Numbers DEF TypeOK, ProcTypeOK, Exists, Process
<1>4. \A p \in Pid : Exists(p) => proc[p].gen \in Int /\ proc[p].gen <= forks
  BY Numbers DEF IInv, Past, TypeOK, ProcTypeOK, Exists, Process
<1>5. \A p \in Pid : macDB[p] # None => macDB[p].start \in Int /\ macDB[p].start <= forks
  BY Numbers DEF IInv, Past, TypeOK, MacEntry
<1>6. \A x \in shown : x[2] \in Int /\ x[2] <= forks
  BY Numbers DEF IInv, Past, TypeOK
<1>7. \A l \in lines : l.start \in Int /\ l.start <= forks /\ l.pid \in Pid
  BY Numbers DEF IInv, Past, TypeOK, Line
<1>8. Past'
  BY <1>2, <1>3, <1>4, <1>5, <1>6, <1>7 DEF Past, KernelStep
\* A process that is held after the step was there before.
<1>9. \A p \in Pid : Held(p)' => Held(p) /\ proc'[p].gen = proc[p].gen /\ (Listed(p)' => Listed(p))
  <2> SUFFICES ASSUME NEW p \in Pid, Held(p)'
               PROVE Held(p) /\ proc'[p].gen = proc[p].gen /\ (Listed(p)' => Listed(p))
    OBVIOUS
  <2>1. Exists(p)' /\ (proc'[p].gen <= seeded \/ <<p, proc'[p].gen>> \in shown)
    BY DEF Held
  <2>2. ~(proc'[p].gen = forks' /\ forks' > forks)
    BY <1>2, <1>3, <1>6, <2>1
  <2> QED
    BY <2>1, <2>2 DEF KernelStep, Held, Listed
<1>10. \A p \in Pid, g \in Int : g <= forks /\ Exists(p)' /\ proc'[p].gen = g =>
         /\ Exists(p)
         /\ proc[p].gen = g
         /\ Listed(p)' => Listed(p)
         /\ Running(p)' => Running(p)
  BY <1>2 DEF KernelStep, Listed, Running
<1>11. HeldKnown' /\ Unstarted'
  BY <1>9 DEF IInv, HeldKnown, Unstarted, InScan, local
<1>12. ListCovers'
  <2> SUFFICES ASSUME ~inC', InScan', NEW p \in Pid, Listed(p)',
                      Held(p)' \/ (macDB[p] # None /\ macDB[p].start = proc'[p].gen)
               PROVE p \in list'
    BY DEF ListCovers
  <2>1. ~inC /\ InScan /\ list' = list /\ Exists(p)'
    BY DEF InScan, local, Listed
  <2>2. CASE Held(p)'
    BY <1>9, <2>1, <2>2 DEF IInv, ListCovers
  <2>3. CASE macDB[p] # None /\ macDB[p].start = proc'[p].gen
    BY <1>5, <1>10, <2>1, <2>3 DEF IInv, ListCovers
  <2> QED
    BY <2>2, <2>3
<1>13. InHandFresh'
  BY DEF IInv, InHandFresh, local
<1>14. ExitTruthful'
  BY <1>7, <1>10 DEF IInv, ExitTruthful, Runs, Running
<1>15. OnlyNew'
  BY DEF IInv, OnlyNew
<1>16. ExitedWasShown'
  BY <1>7, <1>10 DEF IInv, ExitedWasShown, Runs, Running
<1>17. DeepShown'
  <2>1. \A p \in Pid : macDB[p] # None /\ Runs(p, macDB[p].start)' => Runs(p, macDB[p].start)
    BY <1>5, <1>10 DEF Runs, Running
  <2> QED
    BY <2>1 DEF IInv, DeepShown, local, Runs, Running, Exists
<1> QED
  BY <1>1, <1>8, <1>11, <1>12, <1>13, <1>14, <1>15, <1>16, <1>17 DEF IInv

LEMMA KernelInv == IInv /\ (Kernel \/ ForkCmd) => IInv'
<1> SUFFICES ASSUME IInv, Kernel \/ ForkCmd PROVE IInv'
  OBVIOUS
<1>1. ProcTypeOK /\ calm \in BOOLEAN /\ WatchPIDs \subseteq Pid
  BY WatchPIDsAssumption DEF IInv, TypeOK
<1>2. CASE Kernel
  <2>1. KernelStep
    BY <1>1, <1>2, ForkStep, ExitStep DEF Kernel, KernelFork, KernelEnd
  <2> QED
    BY <1>1, <1>2, <2>1, KernelKeeps DEF Kernel, KernelFork, KernelEnd, tracer
<1>3. CASE ForkCmd
  <2>1. KernelStep
    BY <1>1, <1>3, ForkStep DEF ForkCmd
  <2> QED
    BY <1>1, <1>3, <2>1, KernelKeeps DEF ForkCmd
<1> QED
  BY <1>2, <1>3

-----------------------------------------------------------------------------
(* Steps of the tracer.                                                    *)

\* The typed facts every step below uses.
LEMMA Typed ==
  ASSUME IInv
  PROVE /\ TypeOK /\ Past /\ Unstarted /\ HeldKnown /\ ListCovers /\ InHandFresh
        /\ DeepShown /\ ExitTruthful /\ ExitedWasShown /\ OnlyNew
        /\ forks \in Gen /\ forks \in Int /\ seeded \in Int
        /\ \A p \in Pid : bsdStart(p) \in Gen \cup {-1} /\ bsdStart(p) \in Int /\ bsdStart(p) <= forks
        /\ \A p \in Pid : NewEntry(bsdStart(p)) \in MacEntry
<1>1. /\ TypeOK /\ Past /\ Unstarted /\ HeldKnown /\ ListCovers /\ InHandFresh
        /\ DeepShown /\ ExitTruthful /\ ExitedWasShown /\ OnlyNew
      /\ forks \in Gen /\ forks \in Int /\ seeded \in Int /\ forks >= 0
  BY Numbers DEF IInv, TypeOK, ProcTypeOK
<1>2. \A p \in Pid : bsdStart(p) \in Gen \cup {-1} /\ bsdStart(p) \in Int /\ bsdStart(p) <= forks
  <2> SUFFICES ASSUME NEW p \in Pid
               PROVE bsdStart(p) \in Gen \cup {-1} /\ bsdStart(p) \in Int /\ bsdStart(p) <= forks
    OBVIOUS
  <2>1. Exists(p) => proc[p].gen \in Gen /\ proc[p].gen <= forks
    BY <1>1 DEF TypeOK, ProcTypeOK, Past, Process, Exists
  <2>2. CASE Exists(p)
    BY <1>1, <2>1, <2>2, Numbers DEF bsdStart
  <2>3. CASE ~Exists(p)
    BY <1>1, <2>3 DEF bsdStart
  <2> QED
    BY <2>2, <2>3
<1>3. \A p \in Pid : NewEntry(bsdStart(p)) \in MacEntry
  BY <1>2 DEF NewEntry, MacEntry
<1> QED
  BY <1>1, <1>2, <1>3

\* The Go tracer uses the whole list.
LEMMA WholeList == \A S \in procListAllPIDs : ~inC => S = AllPIDs
<1> SUFFICES ASSUME NEW S \in SUBSET AllPIDs, Cardinality(S) = Cardinality(AllPIDs)
             PROVE S = AllPIDs
  BY DEF procListAllPIDs
<1>1. IsFiniteSet(AllPIDs)
  BY PidAssumption, FS_Subset DEF AllPIDs
<1> QED
  BY <1>1, FS_Subset

LEMMA SeedInv == IInv /\ (Seed \/ SeedFails) => IInv'
<1> SUFFICES ASSUME IInv, Seed \/ SeedFails PROVE IInv'
  OBVIOUS
<1>1. TypeOK'
  BY Typed DEF Seed, SeedFails, TypeOK, ProcTypeOK, local, procListAllPIDs, AllPIDs
<1>2. Past'
  BY Typed DEF Seed, SeedFails, Past, Exists
<1>3. shown = {} /\ seeded = -1 /\ pc = "seed"
  BY Typed DEF Unstarted, Seed, SeedFails
<1>4. HeldKnown'
  <2>1. CASE Seed
    <3>1. (~inC => todo' = AllPIDs) /\ pc' = IF todo' = {} THEN "sleep" ELSE "seeding"
      BY <2>1, WholeList DEF Seed
    <3>2. ~inC => \A p \in Pid : Listed(p)' => p \in todo'
      BY <2>1, <3>1 DEF Seed, Listed, Exists, AllPIDs
    <3>3. inC' = inC
      BY <2>1 DEF Seed
    <3> QED
      BY <3>1, <3>2, <3>3 DEF HeldKnown, InScan
  <2>2. CASE SeedFails
    <3>1. \A p \in Pid : ~Held(p)
      BY <1>3, Numbers, Typed DEF TypeOK, ProcTypeOK, Process, Held, Exists
    <3> QED
      BY <1>3, <2>2, <3>1 DEF SeedFails, HeldKnown, Held, Exists, InScan
  <2> QED
    BY <2>1, <2>2
<1>5. ListCovers' /\ InHandFresh'
  BY DEF Seed, SeedFails, ListCovers, InHandFresh, InScan
<1>5a. Unstarted' /\ DeepShown'
  BY <1>3, Typed DEF Seed, SeedFails, Unstarted, DeepShown, Runs, Running, Exists
<1>6. ExitTruthful'
  BY Typed DEF Seed, SeedFails, ExitTruthful, Runs, Running, Exists
<1>6a. ExitedWasShown'
  BY Typed DEF Seed, SeedFails, ExitedWasShown, Runs, Running, Exists
<1>7. OnlyNew'
  <2>1. lines = {}
    BY Typed, <1>3 DEF Unstarted
  <2> QED
    BY <2>1 DEF Seed, SeedFails, OnlyNew
<1> QED
  BY <1>1, <1>2, <1>4, <1>5, <1>5a, <1>6, <1>6a, <1>7 DEF IInv

LEMMA SeedOneInv == IInv /\ SeedOne => IInv'
<1> SUFFICES ASSUME IInv, SeedOne PROVE IInv'
  OBVIOUS
<1>1. PICK p \in todo :
        /\ macDB' = IF inC \/ bsdInfo(p) THEN [macDB EXCEPT ![p] = NewEntry(bsdStart(p))] ELSE macDB
        /\ todo' = todo \ {p}
  BY DEF SeedOne
<1>2. p \in Pid
  BY Typed DEF TypeOK
<1>3. TypeOK'
  <2>1. macDB' \in [Pid -> MacEntry \cup {None}]
    BY <1>1, <1>2, Typed DEF TypeOK
  <2> QED
    BY <1>1, <2>1, Typed DEF SeedOne, TypeOK, ProcTypeOK
<1>4. \A q \in Pid :
        macDB'[q] = IF q = p /\ (inC \/ bsdInfo(p)) THEN NewEntry(bsdStart(p)) ELSE macDB[q]
  BY <1>1, Typed DEF TypeOK
<1>5. /\ NewEntry(bsdStart(p)) # None
      /\ NewEntry(bsdStart(p)).start = bsdStart(p)
      /\ NewEntry(bsdStart(p)).depth = -1
  BY <1>2, Typed, NoneIsNoEntry DEF NewEntry
<1>6. Past'
  BY <1>2, <1>4, <1>5, Typed DEF SeedOne, Past, Exists
<1>7. HeldKnown' /\ Unstarted'
  BY <1>1, <1>4, <1>5, Typed
     DEF SeedOne, HeldKnown, Unstarted, Held, Listed, Exists, InScan, bsdInfo
<1>8. ListCovers' /\ InHandFresh'
  BY DEF SeedOne, ListCovers, InHandFresh, InScan
<1>9. ExitTruthful' /\ OnlyNew' /\ ExitedWasShown'
  BY Typed DEF SeedOne, ExitTruthful, ExitedWasShown, OnlyNew, Runs, Running, Exists
<1>10. DeepShown'
  BY <1>4, <1>5, Typed DEF SeedOne, DeepShown, Runs, Running, Exists
<1> QED
  BY <1>3, <1>6, <1>7, <1>8, <1>9, <1>10 DEF IInv

LEMMA Unmoved == IInv /\ UNCHANGED vars => IInv'
  BY DEF vars, tracer, local, IInv, TypeOK, ProcTypeOK, Past, Unstarted, HeldKnown, ListCovers,
         InHandFresh, DeepShown, InScan, Held, Listed, Exists, ExitTruthful, ExitedWasShown, OnlyNew,
         Runs, Running

LEMMA ScanInv == IInv /\ (Scan \/ ScanFails \/ KnownPid \/ Over) => IInv'
<1> SUFFICES ASSUME IInv, Scan \/ ScanFails \/ KnownPid \/ Over PROVE IInv'
  OBVIOUS
<1>1. CASE Scan
  <2>1. TypeOK' /\ Past' /\ Unstarted'
    BY <1>1, Typed DEF Scan, TypeOK, ProcTypeOK, procListAllPIDs, AllPIDs, Past, Exists, Unstarted
  <2>2. /\ ~inC => list' = AllPIDs /\ todo' = AllPIDs
        /\ pc = "sleep" /\ pc' = "pids" /\ UNCHANGED <<proc, inC, macDB, seeded, shown>>
    BY <1>1, WholeList DEF Scan
  <2>3. HeldKnown' /\ ListCovers' /\ InHandFresh'
    BY <2>2, Typed DEF HeldKnown, ListCovers, InHandFresh, InScan, Held, Listed, Exists, AllPIDs
  <2>4. ExitTruthful' /\ OnlyNew' /\ ExitedWasShown'
    BY <1>1 DEF Scan, ExitTruthful, OnlyNew, ExitedWasShown
  <2>5. DeepShown'
    BY <2>2, Typed DEF DeepShown, Runs, Running, Exists
  <2> QED
    BY <2>1, <2>3, <2>4, <2>5 DEF IInv
<1>2. CASE ScanFails \/ Over
  BY <1>2, Unmoved DEF ScanFails, Over
<1>3. CASE KnownPid
  <2>1. TypeOK' /\ Past' /\ Unstarted'
    BY <1>3, Typed DEF KnownPid, TypeOK, ProcTypeOK, Past, Exists, Unstarted
  <2>2. HeldKnown' /\ ListCovers' /\ InHandFresh'
    BY <1>3, Typed DEF KnownPid, HeldKnown, ListCovers, InHandFresh, InScan, Held, Listed, Exists
  <2>3. ExitTruthful' /\ OnlyNew' /\ ExitedWasShown'
    BY <1>3 DEF KnownPid, ExitTruthful, OnlyNew, ExitedWasShown
  <2>4. DeepShown'
    BY <1>3, Typed DEF KnownPid, DeepShown, Runs, Running, Exists
  <2> QED
    BY <2>1, <2>2, <2>3, <2>4 DEF IInv
<1> QED
  BY <1>1, <1>2, <1>3

LEMMA NewPidInv == IInv /\ NewPid => IInv'
<1> SUFFICES ASSUME IInv, NewPid PROVE IInv'
  OBVIOUS
<1>1. PICK p \in todo : /\ macDB[p] = None
                       /\ todo' = todo \ {p}
                       /\ macDB' = [macDB EXCEPT ![p] = NewEntry(bsdStart(p))]
                       /\ pid' = p
                       /\ cur' = p
                       /\ pc' = IF bsdInfo(p) THEN "depth" ELSE "pids"
  BY DEF NewPid
<1>2. p \in Pid /\ p \in list
  BY Typed DEF TypeOK
<1>3. \A q \in Pid : macDB'[q] = IF q = p THEN NewEntry(bsdStart(p)) ELSE macDB[q]
  BY <1>1, Typed DEF TypeOK
<1>4. /\ NewEntry(bsdStart(p)) # None
      /\ NewEntry(bsdStart(p)).start = bsdStart(p)
      /\ NewEntry(bsdStart(p)).depth = -1
  BY <1>2, Typed, NoneIsNoEntry DEF NewEntry
<1>5. bsdInfo(p) => bsdStart(p) = proc[p].gen /\ bsdStart(p) # -1 /\ bsdStart(p) \in Gen
  BY <1>2, Typed, Numbers DEF bsdInfo, bsdStart, TypeOK, ProcTypeOK, Process, Exists
<1>6. TypeOK'
  <2>1. macDB' \in [Pid -> MacEntry \cup {None}]
    BY <1>1, <1>2, Typed DEF TypeOK
  <2>2. pc' \in {"depth", "emit"} => macDB'[pid'] # None /\ macDB'[pid'].start # -1
    BY <1>1, <1>2, <1>3, <1>4, <1>5
  <2> QED
    BY <1>1, <1>2, <2>1, <2>2, Typed DEF NewPid, TypeOK, ProcTypeOK
<1>7. Past'
  BY <1>2, <1>3, <1>4, Typed DEF NewPid, Past, Exists
<1>8. HeldKnown'
  BY <1>1, <1>2, <1>3, <1>4, Typed DEF NewPid, HeldKnown, Held, Listed, Exists, InScan
<1>9. ListCovers'
  BY <1>1, <1>2, <1>3, Typed DEF NewPid, ListCovers, Held, Listed, Exists, InScan
<1>10. InHandFresh'
  <2>1. ~inC => ~Held(p)
    BY <1>1, <1>2, Typed DEF NewPid, HeldKnown, InScan
  <2>2. ~inC /\ bsdInfo(p) => bsdStart(p) > seeded /\ <<p, bsdStart(p)>> \notin shown
    BY <1>2, <1>5, <2>1, Typed DEF Held, bsdInfo
  <2> QED
    BY <1>1, <1>2, <1>3, <1>4, <2>2 DEF NewPid, InHandFresh
<1>11. ExitTruthful' /\ OnlyNew' /\ ExitedWasShown' /\ Unstarted'
  BY DEF NewPid, ExitTruthful, OnlyNew, ExitedWasShown, Unstarted
<1>12. DeepShown'
  BY <1>1, <1>2, <1>3, <1>4, Typed DEF NewPid, DeepShown, Runs, Running, Exists
<1> QED
  BY <1>6, <1>7, <1>8, <1>9, <1>10, <1>11, <1>12 DEF IInv

LEMMA DepthValue ==
  ASSUME IInv
  PROVE macPidDepth(cur) \in Nat \cup {-1, -2} /\ (macPidDepth(cur) = Up => statPPID(cur) \in Pid)
<1> DEFINE ppid == statPPID(cur)
<1>1. ppid \in Pid \cup {0, -1}
  BY Typed DEF TypeOK, ProcTypeOK, Process, statPPID, Exists
<1>2. ppid \in Int /\ (ppid > 0 => ppid \in Pid)
  BY <1>1, Numbers
<1>3. ppid \in Pid /\ Cached(ppid) => macDB[ppid].depth + 1 \in Nat
  BY Typed DEF TypeOK, MacEntry, Cached
<1>4. CASE isWatchRoot(cur)
  BY <1>4 DEF macPidDepth, Up
<1>5. CASE ~isWatchRoot(cur) /\ (ppid <= 0 \/ ppid = cur)
  BY <1>2, <1>5 DEF macPidDepth, Up
<1>6. CASE ~isWatchRoot(cur) /\ ppid > 0 /\ ppid # cur /\ isWatchRoot(ppid)
  BY <1>2, <1>6 DEF macPidDepth, Up
<1>7. CASE ~isWatchRoot(cur) /\ ppid > 0 /\ ppid # cur /\ ~isWatchRoot(ppid)
  BY <1>2, <1>3, <1>7 DEF macPidDepth, Up
<1> QED
  BY <1>2, <1>4, <1>5, <1>6, <1>7

LEMMA DepthInv == IInv /\ Depth => IInv'
<1> SUFFICES ASSUME IInv, Depth PROVE IInv'
  OBVIOUS
<1> DEFINE d == macPidDepth(cur)
<1>1. d \in Nat \cup {-1, -2} /\ (d = Up => statPPID(cur) \in Pid) /\ hops \in Nat
  BY DepthValue, Typed DEF TypeOK
<1>2. pc = "depth" /\ pid \in Pid /\ macDB[pid] # None
  BY Typed DEF Depth, TypeOK
<1>3. macDB[pid] \in MacEntry
  BY <1>2, Typed DEF TypeOK
<1> HIDE DEF d
<1>4. CASE d = Up
  <2>1. /\ cur' = statPPID(cur) /\ hops' = hops + 1
        /\ UNCHANGED <<pc, macDB, calm, proc, forks, inC, cmd, list, todo, pid, lines, seeded, shown>>
    BY <1>4 DEF Depth, d
  <2>2. TypeOK'
    BY <1>1, <1>4, <2>1, Typed DEF TypeOK, ProcTypeOK
  <2> QED
    BY <2>1, <2>2, Typed DEF IInv, Past, Unstarted, HeldKnown, ListCovers, InHandFresh, DeepShown, InScan,
                             Held, Listed, Exists, ExitTruthful, ExitedWasShown, OnlyNew, Runs, Running
<1>5. CASE d # Up
  <2>1. /\ macDB' = [macDB EXCEPT ![pid].depth = IF d = -1 THEN -1 ELSE d + hops]
        /\ pc' = IF d = -1 THEN "pids" ELSE "emit"
        /\ cur' = InitPid /\ hops' = 0 /\ calm' = TRUE
        /\ UNCHANGED <<proc, forks, inC, cmd, list, todo, pid, lines, seeded, shown>>
    BY <1>5 DEF Depth, d
  <2> DEFINE e == [macDB[pid] EXCEPT !.depth = IF d = -1 THEN -1 ELSE d + hops]
  <2>2. e \in MacEntry /\ e.start = macDB[pid].start
    BY <1>1, <1>3, <1>5 DEF MacEntry, Up
  <2>3. macDB' = [macDB EXCEPT ![pid] = e]
    BY <2>1
  <2> HIDE DEF e
  <2>4. /\ macDB' \in [Pid -> MacEntry \cup {None}]
        /\ \A p \in Pid : macDB'[p] = IF p = pid THEN e ELSE macDB[p]
    BY <1>2, <2>2, <2>3, Typed DEF TypeOK
  <2>5. e # None
    BY <2>2, NoneIsNoEntry
  <2>6. TypeOK'
    BY <1>2, <2>1, <2>2, <2>4, <2>5, Numbers, Typed DEF TypeOK, ProcTypeOK
  <2>7. Past'
    BY <1>2, <2>1, <2>2, <2>4, Typed DEF Past, Exists
  <2>8. HeldKnown'
    BY <1>2, <2>1, <2>4, <2>5, Typed DEF HeldKnown, Held, Listed, Exists, InScan
  <2>9. ListCovers'
    BY <1>2, <2>1, <2>2, <2>4, Typed DEF ListCovers, Held, Listed, Exists, InScan
  <2>10. InHandFresh'
    BY <1>2, <2>1, <2>2, <2>4, Typed DEF InHandFresh
  <2>11. ExitTruthful' /\ OnlyNew' /\ ExitedWasShown' /\ Unstarted'
    BY <1>2, <2>1, Typed DEF ExitTruthful, OnlyNew, ExitedWasShown, Unstarted, Runs, Running, Exists
  <2>12. DeepShown'
    <3>1. d = -1 => e.depth = -1
      BY <1>3 DEF e, MacEntry
    <3> QED
      BY <1>1, <1>2, <2>1, <2>4, <3>1, Typed DEF DeepShown, Runs, Running, Exists
  <2> QED
    BY <2>6, <2>7, <2>8, <2>9, <2>10, <2>11, <2>12 DEF IInv
<1> QED
  BY <1>4, <1>5

LEMMA EmitInv == IInv /\ macEmitExec => IInv'
<1> SUFFICES ASSUME IInv, macEmitExec PROVE IInv'
  OBVIOUS
<1> DEFINE g == macDB[pid].start
           l == [kind |-> "exec", pid |-> pid, start |-> g]
<1>1. /\ pc = "emit" /\ pid \in Pid /\ macDB[pid] # None /\ g \in Gen
      /\ ~inC => g > seeded /\ pid \in list
  BY Typed DEF macEmitExec, TypeOK, MacEntry, InHandFresh
<1>2. l \in Line /\ l.kind = "exec" /\ l.start = g /\ g <= forks /\ g \in Int
  BY <1>1, Numbers, Typed DEF Line, Past
<1>3. \/ lines' = {l} /\ shown' = shown \cup {<<pid, g>>}
      \/ lines' = {} /\ shown' = shown /\ ~Running(pid)
  BY DEF macEmitExec
<1>4. pc' = "pids" /\ UNCHANGED <<proc, forks, inC, cmd, list, todo, pid, cur, hops, macDB, seeded, calm>>
  BY DEF macEmitExec, local
<1> HIDE DEF l, g
<1>5. TypeOK'
  BY <1>1, <1>2, <1>3, <1>4, Typed DEF TypeOK, ProcTypeOK
<1>6. Past'
  BY <1>1, <1>2, <1>3, <1>4, Typed DEF Past, Exists
<1>7. \A p \in Pid : Held(p)' => Held(p) \/ p = pid
  BY <1>3, <1>4 DEF Held, Exists
<1>8. HeldKnown'
  BY <1>1, <1>4, <1>7, Typed DEF HeldKnown, Listed, Exists, InScan
<1>9. ListCovers'
  BY <1>1, <1>4, <1>7, Typed DEF ListCovers, Listed, Exists, InScan
<1>10. InHandFresh'
  BY <1>4 DEF InHandFresh
<1>11. ExitTruthful' /\ OnlyNew' /\ ExitedWasShown' /\ Unstarted'
  BY <1>1, <1>2, <1>3, <1>4 DEF ExitTruthful, OnlyNew, ExitedWasShown, Unstarted
<1>12. DeepShown'
  BY <1>1, <1>3, <1>4, Typed DEF DeepShown, Runs, Running, Exists, g
<1> QED
  BY <1>5, <1>6, <1>8, <1>9, <1>10, <1>11, <1>12 DEF IInv

LEMMA SweepInv == IInv /\ Sweep => IInv'
<1> SUFFICES ASSUME IInv, Sweep PROVE IInv'
  OBVIOUS
<1>1. PICK gone \in SUBSET {p \in Pid : macDB[p] # None /\ p \notin list} :
        /\ lines' = macEmitExit(gone)
        /\ macDB' = [p \in Pid |-> IF p \in gone THEN None ELSE macDB[p]]
  BY DEF Sweep
<1>2. /\ pc = "pids" /\ pc' = "sleep" /\ list' = {} /\ pid' = InitPid /\ cur' = InitPid /\ todo = {}
      /\ UNCHANGED <<proc, forks, inC, cmd, todo, hops, seeded, shown, calm>>
  BY DEF Sweep
<1>3. \A l \in lines' : \E p \in gone : /\ l = [kind |-> "exited", pid |-> p, start |-> macDB[p].start]
                                       /\ macDB[p].depth >= 0
  BY <1>1 DEF macEmitExit
<1>4. \A p \in gone : p \in Pid /\ macDB[p] \in MacEntry /\ p \notin list
  BY <1>1, Typed DEF TypeOK
<1>5. lines' \subseteq Line
  BY <1>3, <1>4 DEF Line, MacEntry
<1>6. TypeOK'
  BY <1>1, <1>2, <1>5, Numbers, Typed DEF TypeOK, ProcTypeOK
<1>7. Past'
  <2>1. \A p \in Pid : macDB'[p] # None => macDB'[p] = macDB[p]
    BY <1>1
  <2>2. \A l \in lines' : l.start <= forks
    BY <1>1, <1>3, <1>4, Typed DEF Past
  <2> QED
    BY <1>2, <2>1, <2>2, Typed DEF Past, Exists
<1>8. HeldKnown'
  BY <1>1, <1>2, Typed DEF HeldKnown, ListCovers, Held, Listed, Exists, InScan
<1>9. ListCovers' /\ InHandFresh'
  BY <1>2 DEF ListCovers, InHandFresh, InScan
<1>10. ExitTruthful'
  <2> SUFFICES ASSUME ~inC, NEW p \in gone, Running(p)', proc'[p].gen = macDB[p].start PROVE FALSE
    BY <1>2, <1>3 DEF ExitTruthful, Runs, Running, Exists
  <2>1. Listed(p) /\ macDB[p].start = proc[p].gen
    BY <1>2 DEF Running, Exists, Listed
  <2> QED
    BY <1>1, <1>2, <1>4, <2>1, Typed DEF ListCovers, InScan
<1>11. OnlyNew' /\ Unstarted'
  BY <1>2, <1>3 DEF OnlyNew, Unstarted
<1>12. ExitedWasShown'
  BY <1>1, <1>2, <1>3, <1>4, Typed DEF ExitedWasShown, DeepShown, Runs, Running, Exists
<1>13. DeepShown'
  BY <1>1, <1>2, Typed DEF DeepShown, Runs, Running, Exists
<1> QED
  BY <1>6, <1>7, <1>8, <1>9, <1>10, <1>11, <1>12, <1>13 DEF IInv

LEMMA StepInv == IInv /\ [Next]_vars => IInv'
<1> SUFFICES ASSUME IInv, [Next]_vars PROVE IInv'
  OBVIOUS
<1>1. CASE Next
  BY <1>1, KernelInv, SeedInv, SeedOneInv, ScanInv, NewPidInv, DepthInv, EmitInv, SweepInv
     DEF Next, Tracer
<1>2. CASE UNCHANGED vars
  BY <1>2, Unmoved
<1> QED
  BY <1>1, <1>2

\* macDB, the list of the scan under way and the process in hand agree with the
\* process table as far as seedMacDB, scanMacDB and macEmitExec can rely on it.
THEOREM PollInvariant == Spec => []IInv
<1>1. Init => IInv
  BY InitInv
<1>2. IInv /\ [Next]_vars => IInv'
  BY StepInv
<1> QED
  BY <1>1, <1>2, PTL DEF Spec

\* The state of scanMacDB is well formed; the process in hand has an entry whose
\* start bsdInfo has read.
THEOREM TypeCorrect == Spec => []TypeOK
<1>1. IInv => TypeOK
  BY DEF IInv
<1> QED
  BY <1>1, PollInvariant, PTL

\* An exited line of the Go tracer is never about a process that runs.
THEOREM ExitedHaveEnded == Spec => []ExitTruthful
<1>1. IInv => ExitTruthful
  BY DEF IInv
<1> QED
  BY <1>1, PollInvariant, PTL

\* An exited line, of the Go tracer or of the C port, is never about a running process
\* that was not shown.
THEOREM ExitedShown == Spec => []ExitedWasShown
<1>1. IInv => ExitedWasShown
  BY DEF IInv
<1> QED
  BY <1>1, PollInvariant, PTL

\* The Go tracer never shows a process that ran when seedDB listed.
THEOREM ShownAreNew == Spec => []OnlyNew
<1>1. IInv => OnlyNew
  BY DEF IInv
<1> QED
  BY <1>1, PollInvariant, PTL

\* The Go tracer never shows a process again.
THEOREM NeverShownTwice == Spec => ShownOnce
<1> DEFINE Once == ~inC => \A l \in lines' : l.kind = "exec" /\ l \notin lines => <<l.pid, l.start>> \notin shown
<1>1. IInv /\ [Next]_vars => [Once]_vars
  <2> SUFFICES ASSUME IInv, Next PROVE Once
    OBVIOUS
  <2>1. CASE lines' \subseteq lines
    BY <2>1
  <2>2. CASE macEmitExec
    BY <2>2, Typed DEF macEmitExec, InHandFresh
  <2>3. CASE Sweep
    BY <2>3 DEF Sweep, macEmitExit
  <2> QED
    BY <2>1, <2>2, <2>3 DEF Next, Tracer, Kernel, KernelFork, KernelEnd, tracer, ForkCmd, Seed, SeedFails,
                            SeedOne, Scan, ScanFails, KnownPid, NewPid, Depth, Over, vars
<1> QED
  BY <1>1, PollInvariant, PTL DEF Spec, ShownOnce

-----------------------------------------------------------------------------
(* What macPidDepth finds in a process table that changes while it climbs. *)

LEMMA TreeMoves ==
  ASSUME [Next]_vars
  PROVE TreeStep \/ UNCHANGED <<proc, forks>>
<1>1. CASE KernelFork \/ KernelEnd
  BY <1>1 DEF KernelFork, KernelEnd, TreeStep
<1>2. CASE ForkCmd
  BY <1>2, WatchPIDsAssumption DEF ForkCmd, TreeStep
<1>3. CASE Seed \/ SeedFails \/ SeedOne \/ Scan \/ ScanFails \/ KnownPid \/ NewPid \/ Depth
             \/ macEmitExec \/ Sweep \/ Over \/ UNCHANGED vars
  BY <1>3 DEF Seed, SeedFails, SeedOne, Scan, ScanFails, KnownPid, NewPid, Depth, macEmitExec,
              Sweep, Over, vars
<1> QED
  BY <1>1, <1>2, <1>3 DEF Next, Kernel, Tracer

\* The process table keeps its shape while the tracer scans it: pid 1 runs, and every
\* other process has a parent that runs and is pid 1 or started before it.
THEOREM TreeInvariant == Spec => []TreeOK
<1>1. Init => TreeOK
  BY TreeInit DEF Init
<1>2. TypeOK /\ TreeOK /\ [Next]_vars => TreeOK'
  BY TreeMoves, TreePreserved, TreeUnchanged DEF TypeOK
<1> QED
  BY <1>1, <1>2, TypeCorrect, PTL DEF Spec

\* One call of macPidDepth that ends without an answer, or calls itself for the parent.
LEMMA DepthCases ==
  ASSUME TypeOK, TreeOK
  PROVE \/ macPidDepth(cur) = -1 /\ ~Descends(cur)
        \/ macPidDepth(cur) \in Nat
        \/ \E a \in Pid : /\ macPidDepth(cur) = Up /\ statPPID(cur) = a
                          /\ Exists(cur) /\ Exists(a) /\ (Descends(cur) <=> Descends(a))
<1>0. cur \in Pid /\ ProcTypeOK
  BY DEF TypeOK
<1>1. PICK c \in Pid, ppid \in Int : c = cur /\ ppid = statPPID(c)
  BY <1>0, Numbers DEF ProcTypeOK, Process, statPPID, Exists
<1>2. ppid \in Pid \cup {0, -1} /\ ppid \in Int /\ (ppid > 0 => ppid \in Pid)
  <2>1. ppid \in Pid \cup {0, -1}
    BY <1>0, <1>1 DEF ProcTypeOK, Process, statPPID, Exists
  <2> QED
    BY <2>1, Numbers
<1>3. CASE c \in WatchPIDs
  BY <1>1, <1>3 DEF macPidDepth, isWatchRoot
<1>4. CASE c \notin WatchPIDs /\ ppid <= 0
  <2>1. ~Descends(c)
    BY <1>0, <1>1, <1>4, TopDescendsNot
  <2>2. ppid \notin WatchPIDs
    BY <1>2, <1>4, Numbers, WatchPIDsAssumption
  <2>3. macPidDepth(c) = -1
    BY <1>1, <1>2, <1>4, <2>2 DEF macPidDepth, isWatchRoot
  <2> QED
    BY <1>1, <2>1, <2>3
<1>5. CASE c \notin WatchPIDs /\ ppid > 0
  <2>1. Exists(c) /\ proc[c].parent = ppid /\ ppid \in Pid
    BY <1>1, <1>2, <1>5 DEF statPPID
  <2>2. Exists(ppid) /\ c \notin Lineage(proc, ppid)
    BY <1>0, <2>1, ParentOlder
  <2>3. ppid # c
    BY <2>1, <2>2, LineageSelf
  <2>4. Descends(c) <=> Descends(ppid)
    BY <1>0, <1>1, <1>5, <2>2, ParentDescends
  <2>5. CASE ppid \in WatchPIDs
    BY <1>1, <1>2, <1>5, <2>3, <2>5 DEF macPidDepth, isWatchRoot
  <2>6. CASE ppid \notin WatchPIDs
    <3>1. macPidDepth(c) = IF Cached(ppid) THEN macDB[ppid].depth + 1 ELSE Up
      BY <1>1, <1>2, <1>5, <2>3, <2>6 DEF macPidDepth, isWatchRoot
    <3>2. Cached(ppid) => macDB[ppid].depth + 1 \in Nat
      BY <2>1 DEF TypeOK, MacEntry, Cached
    <3>3. CASE Cached(ppid)
      BY <1>1, <3>1, <3>2, <3>3
    <3>4. CASE ~Cached(ppid)
      <4>1. macPidDepth(cur) = Up /\ statPPID(cur) = ppid
        BY <1>1, <3>1, <3>4
      <4> QED
        BY <1>1, <2>1, <2>2, <2>4, <4>1
    <3> QED
      BY <3>3, <3>4
  <2> QED
    BY <2>5, <2>6
<1> QED
  BY <1>2, <1>3, <1>4, <1>5

LEMMA ClimbStep ==
  ASSUME TypeOK, TreeOK, ClimbDescends, [Next]_vars
  PROVE ClimbDescends' /\ [pc = "depth" /\ pc' = "pids" /\ calm => ~Descends(pid)]_vars
<1>0. ProcTypeOK /\ cur \in Pid /\ pid \in Pid
  BY DEF TypeOK
<1>1. CASE Depth
  <2>0. /\ pc = "depth" /\ UNCHANGED <<proc, pid>>
        /\ macPidDepth(cur) = Up => pc' = "depth" /\ cur' = statPPID(cur) /\ calm' = calm
        /\ macPidDepth(cur) # Up => pc' = IF macPidDepth(cur) = -1 THEN "pids" ELSE "emit"
    BY <1>1 DEF Depth
  <2>1. CASE macPidDepth(cur) = -1 /\ ~Descends(cur)
    <3>1. calm => ~Descends(pid)
      BY <2>0, <2>1 DEF ClimbDescends
    <3> QED
      BY <2>0, <2>1, <3>1 DEF ClimbDescends, Up
  <2>2. CASE macPidDepth(cur) \in Nat
    BY <2>0, <2>2 DEF ClimbDescends, Up
  <2>3. ASSUME NEW a \in Pid, macPidDepth(cur) = Up, statPPID(cur) = a,
               Exists(cur), Exists(a), Descends(cur) <=> Descends(a)
        PROVE ClimbDescends' /\ pc' # "pids"
    <3>1. calm => Exists(pid) /\ (Descends(pid) => Descends(a))
      BY <2>0, <2>3 DEF ClimbDescends
    <3>2. proc' = proc /\ pid' = pid /\ cur' = a /\ calm' = calm /\ pc' = "depth"
      BY <2>0, <2>3
    <3> QED
      BY <2>3, <3>1, <3>2 DEF ClimbDescends, Exists, Descends, Lineage, Upward
  <2> QED
    BY <2>1, <2>2, <2>3, DepthCases
<1>2. CASE KernelFork
  <2>1. UNCHANGED <<pc, pid, cur, calm>>
    BY <1>2 DEF KernelFork, tracer, local
  <2>2. PICK x \in Pid, d \in Pid : Fork(x, d)
    BY <1>2 DEF KernelFork
  <2>3. \A q \in Pid : Exists(q) => Exists(q)' /\ (Descends(q)' <=> Descends(q))
    BY <1>0, <2>2, ForkKeeps
  <2>4. PICK h \in Pid, c \in Pid : h = pid /\ c = cur
    BY <1>0
  <2>5. pc = "depth" /\ calm =>
          c = h \/ (Exists(h)' /\ Exists(c)' /\ (Descends(h)' => Descends(c)'))
    BY <2>3, <2>4 DEF ClimbDescends
  <2> QED
    BY <2>1, <2>4, <2>5 DEF ClimbDescends, Exists, Descends
<1>3. CASE KernelEnd
  BY <1>3 DEF KernelEnd, tracer, ClimbDescends
<1>4. CASE ScanFails \/ Over \/ UNCHANGED vars
  BY <1>4 DEF ScanFails, Over, vars, tracer, local, ClimbDescends, Exists, Descends, Lineage, Upward
<1>5. CASE NewPid
  BY <1>5 DEF NewPid, ClimbDescends
<1>6. CASE ForkCmd \/ Seed \/ SeedFails \/ SeedOne \/ Scan \/ KnownPid \/ macEmitExec \/ Sweep
  BY <1>6 DEF ForkCmd, Seed, SeedFails, SeedOne, Scan, KnownPid, macEmitExec, Sweep, ClimbDescends
<1> QED
  BY <1>1, <1>2, <1>3, <1>4, <1>5, <1>6 DEF Next, Kernel, Tracer

\* scanMacDB leaves out a new process below a watched root only if a process exited or
\* was reaped while macPidDepth read the parents.
THEOREM NoDescendantLeftOut == Spec => DescendantsShown
<1>1. Init => ClimbDescends
  BY DEF Init, ClimbDescends
<1>2. TypeOK /\ TreeOK /\ ClimbDescends /\ [Next]_vars => ClimbDescends'
  BY ClimbStep
<1>3. Spec => []ClimbDescends
  BY <1>1, <1>2, TypeCorrect, TreeInvariant, PTL DEF Spec
<1>4. TypeOK /\ TreeOK /\ ClimbDescends /\ [Next]_vars
        => [pc = "depth" /\ pc' = "pids" /\ calm => ~Descends(pid)]_vars
  BY ClimbStep
<1> QED
  BY <1>3, <1>4, TypeCorrect, TreeInvariant, PTL DEF Spec, DescendantsShown
=============================================================================
