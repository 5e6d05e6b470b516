--------------------------- MODULE ProcTreeProofs ---------------------------
(* Lemmas about the process table: what a lineage is made of, and what the *)
(* kernel's steps leave of it.  The proofs about the tracers that climb it *)
(* rest on them.                                                           *)
EXTENDS ProcTree, FiniteSetTheorems, TLAPS

LEMMA PidPositive == \A p \in Pid : p \in Nat /\ p > 0
  BY InitPidAssumption

-----------------------------------------------------------------------------
(* Lineages.                                                               *)

\* A set that goes upward from p has p's lineage.
LEMMA LineageLeast ==
  ASSUME NEW table, NEW p, NEW S \in SUBSET Pid, p \in S, Upward(table, S)
  PROVE Lineage(table, p) \subseteq S
  BY DEF Lineage

LEMMA LineageSelf ==
  ASSUME NEW table, NEW p \in Pid
  PROVE p \in Lineage(table, p) /\ Lineage(table, p) \in SUBSET Pid
  BY DEF Lineage

\* A lineage goes upward itself.
LEMMA LineageUpward ==
  ASSUME NEW table \in [Pid -> Process \cup {None}], NEW p \in Pid
  PROVE Upward(table, Lineage(table, p))
<1> SUFFICES ASSUME NEW q \in Lineage(table, p) \ WatchPIDs,
                    table[q] # None, table[q].parent # 0
             PROVE table[q].parent \in Lineage(table, p)
  BY DEF Upward
<1>1. q \in Pid /\ table[q].parent \in Pid
  BY DEF Lineage, Process
<1>2. ASSUME NEW S \in SUBSET Pid, p \in S, Upward(table, S)
      PROVE table[q].parent \in S
  <2>1. q \in S
    BY <1>2, LineageLeast
  <2> QED
    BY <1>2, <2>1 DEF Upward
<1> QED
  BY <1>1, <1>2 DEF Lineage

\* The lineage of a member is part of the lineage.
LEMMA LineageWithin ==
  ASSUME NEW table \in [Pid -> Process \cup {None}], NEW p \in Pid,
         NEW q \in Lineage(table, p)
  PROVE Lineage(table, q) \subseteq Lineage(table, p)
  BY LineageUpward, LineageSelf, LineageLeast

\* A root, a process that is gone and one without a parent end a lineage.
LEMMA LineageEnds ==
  ASSUME NEW table, NEW p \in Pid,
         p \in WatchPIDs \/ table[p] = None \/ table[p].parent = 0
  PROVE Lineage(table, p) = {p}
<1>1. Upward(table, {p})
  BY DEF Upward
<1> QED
  BY <1>1, LineageLeast, LineageSelf

\* Otherwise it goes on with the lineage of the parent.
LEMMA LineageStep ==
  ASSUME NEW table \in [Pid -> Process \cup {None}], NEW p \in Pid \ WatchPIDs,
         table[p] # None, table[p].parent # 0
  PROVE /\ table[p].parent \in Pid
        /\ Lineage(table, p) = {p} \cup Lineage(table, table[p].parent)
<1> DEFINE a == table[p].parent
           S == {p} \cup Lineage(table, a)
<1>1. a \in Pid
  BY DEF Process
<1>2. S \in SUBSET Pid /\ a \in S
  BY <1>1, LineageSelf
<1>3. Upward(table, S)
  BY <1>1, <1>2, LineageUpward DEF Upward
<1>4. Lineage(table, p) \subseteq S
  BY <1>2, <1>3, LineageLeast
<1>5. a \in Lineage(table, p)
  BY LineageSelf, LineageUpward DEF Upward
<1>6. S \subseteq Lineage(table, p)
  BY <1>5, LineageSelf, LineageWithin
<1> QED
  BY <1>1, <1>4, <1>6

\* Two tables that agree about the parents in a set that goes upward have the same
\* lineages in it.
Agree(t, u, A) ==
  \A q \in A \ WatchPIDs :
    /\ (t[q] = None) <=> (u[q] = None)
    /\ t[q] # None => t[q].parent = u[q].parent

LEMMA LineageSame ==
  ASSUME NEW t \in [Pid -> Process \cup {None}], NEW u \in [Pid -> Process \cup {None}],
         NEW A \in SUBSET Pid, NEW p \in A, Upward(t, A), Agree(t, u, A)
  PROVE Lineage(t, p) = Lineage(u, p) /\ Lineage(t, p) \subseteq A
<1>1. Upward(u, A)
  BY DEF Upward, Agree
<1>2. Lineage(t, p) \subseteq A /\ Lineage(u, p) \subseteq A
  BY <1>1, LineageLeast
<1>3. Upward(u, Lineage(t, p))
  <2>1. Upward(t, Lineage(t, p))
    BY LineageUpward
  <2> QED
    BY <1>2, <2>1 DEF Upward, Agree
<1>4. Upward(t, Lineage(u, p))
  <2>1. Upward(u, Lineage(u, p))
    BY LineageUpward
  <2> QED
    BY <1>2, <2>1 DEF Upward, Agree
<1>5. Lineage(u, p) \subseteq Lineage(t, p)
  BY <1>3, LineageSelf, LineageLeast
<1>6. Lineage(t, p) \subseteq Lineage(u, p)
  BY <1>4, LineageSelf, LineageLeast
<1> QED
  BY <1>2, <1>5, <1>6

-----------------------------------------------------------------------------
(* Descent from a watched root.                                            *)

LEMMA RootDescends ==
  ASSUME ProcTypeOK, NEW p \in WatchPIDs, Exists(p)
  PROVE Descends(p)
  BY WatchPIDsAssumption, LineageSelf DEF Descends

\* A process that is no root and has no parent descends from none.
LEMMA TopDescendsNot ==
  ASSUME ProcTypeOK, NEW p \in Pid \ WatchPIDs, statPPID(p) <= 0
  PROVE ~Descends(p)
<1>1. CASE ~Exists(p)
  BY <1>1 DEF Descends
<1>2. CASE Exists(p)
  <2>1. proc[p].parent = 0
    <3>1. proc[p] \in Process
      BY <1>2 DEF Exists, ProcTypeOK
    <3>2. proc[p].parent \in Pid \cup {0}
      BY <3>1 DEF Process
    <3>3. proc[p].parent <= 0
      BY <1>2 DEF statPPID
    <3> QED
      BY <3>2, <3>3, PidPositive
  <2>2. Lineage(proc, p) = {p}
    BY <2>1, LineageEnds
  <2> QED
    BY <2>2 DEF Descends
<1> QED
  BY <1>1, <1>2

\* One that is no root descends from one exactly if its parent does.
LEMMA ParentDescends ==
  ASSUME ProcTypeOK, NEW p \in Pid \ WatchPIDs, statPPID(p) > 0, Exists(statPPID(p))
  PROVE /\ Exists(p)
        /\ statPPID(p) \in Pid
        /\ Descends(p) <=> Descends(statPPID(p))
<1>1. Exists(p) /\ proc[p].parent = statPPID(p) /\ proc[p].parent # 0
  BY DEF statPPID
<1>2. /\ statPPID(p) \in Pid
      /\ Lineage(proc, p) = {p} \cup Lineage(proc, statPPID(p))
  BY <1>1, LineageStep DEF Exists, ProcTypeOK
<1> QED
  BY <1>1, <1>2 DEF Descends

-----------------------------------------------------------------------------
(* The kernel's steps.                                                     *)

LEMMA TreeInit == ProcInit => ProcTypeOK /\ TreeOK
<1> SUFFICES ASSUME ProcInit PROVE ProcTypeOK /\ TreeOK
  OBVIOUS
<1> USE InitPidAssumption, WatchPIDsAssumption, MaxForksAssumption, NoneAssumption
<1> DEFINE new(p) == [parent |-> IF p = InitPid THEN 0 ELSE InitPid,
                      gen |-> 0, alive |-> TRUE, orphan |-> FALSE]
<1>1. \A p \in Pid : new(p) \in Process /\ new(p) # None
  <2>1. 0 \in Gen
    BY DEF Gen
  <2>2. \A p \in Pid : new(p) \in Process
    BY <2>1 DEF Process
  <2> QED
    BY <2>2
<1>2. /\ \A p \in Pid : proc[p] = IF p \in WatchPIDs \cup {InitPid} THEN new(p) ELSE None
      /\ proc = [p \in Pid |-> IF p \in WatchPIDs \cup {InitPid} THEN new(p) ELSE None]
      /\ forks = 0
  BY DEF ProcInit
<1> HIDE DEF new
<1>3. ProcTypeOK
  BY <1>1, <1>2 DEF ProcTypeOK, Gen
<1>4. \A p \in Pid : Exists(p) => proc[p] = new(p)
  BY <1>2 DEF Exists
<1>5. Exists(InitPid)
  BY <1>1, <1>2 DEF Exists
<1>6. \A p \in Pid : /\ new(p).gen = 0 /\ new(p).alive
                     /\ new(p).parent = IF p = InitPid THEN 0 ELSE InitPid
  BY DEF new
<1>7. Running(InitPid) /\ proc[InitPid].parent = 0 /\ proc[InitPid].gen = 0
  BY <1>4, <1>5, <1>6 DEF Running
<1>8. \A p \in Pid : Exists(p) => /\ proc[p].gen = 0
                                  /\ p # InitPid => proc[p].parent = InitPid
  BY <1>4, <1>6
<1> QED
  BY <1>2, <1>3, <1>7, <1>8 DEF TreeOK

\* What Fork, Exit and Reap do to the table, one process at a time.
LEMMA ForkTable ==
  ASSUME ProcTypeOK, NEW x \in Pid, NEW c \in Pid, Fork(x, c)
  PROVE /\ ProcTypeOK'
        /\ ~Exists(c) /\ Running(x) /\ x # c
        /\ forks' = forks + 1 /\ forks \in Nat
        /\ Exists(c)' /\ Running(c)'
        /\ proc'[c].parent = x /\ proc'[c].gen = forks + 1 /\ ~proc'[c].orphan
        /\ \A q \in Pid \ {c} : proc'[q] = proc[q]
<1> USE NoneAssumption, MaxForksAssumption
<1> DEFINE new == [parent |-> x, gen |-> forks + 1, alive |-> TRUE, orphan |-> FALSE]
<1>1. forks' = forks + 1 /\ forks + 1 \in Gen /\ forks \in Nat
  BY DEF Fork, ProcTypeOK, Gen
<1>2. new \in Process /\ new # None
  <2>1. new \in Process
    BY <1>1 DEF Process
  <2> QED
    BY <2>1
<1>3. proc' = [proc EXCEPT ![c] = new]
  BY DEF Fork
<1>4. new.parent = x /\ new.gen = forks + 1 /\ new.alive /\ ~new.orphan
  OBVIOUS
<1>5. ~Exists(c) /\ Running(x) /\ x # c
  BY DEF Fork, Running
<1> HIDE DEF new
<1>6. proc'[c] = new /\ \A q \in Pid \ {c} : proc'[q] = proc[q]
  BY <1>3 DEF ProcTypeOK
<1>7. ProcTypeOK'
  BY <1>1, <1>2, <1>3 DEF ProcTypeOK
<1> QED
  BY <1>1, <1>2, <1>4, <1>5, <1>6, <1>7 DEF Exists, Running

LEMMA ExitTable ==
  ASSUME ProcTypeOK, NEW x \in Pid, Exit(x)
  PROVE /\ ProcTypeOK'
        /\ x # InitPid /\ Running(x) /\ forks' = forks
        /\ \A q \in Pid :
             /\ Exists(q)' <=> Exists(q)
             /\ Exists(q) =>
                  /\ proc'[q].gen = proc[q].gen
                  /\ q # x => proc'[q].alive = proc[q].alive
                  /\ IF q # x /\ proc[q].parent = x
                       THEN proc'[q].parent = InitPid /\ proc'[q].orphan
                       ELSE proc'[q].parent = proc[q].parent /\ proc'[q].orphan = proc[q].orphan
<1> USE NoneAssumption, InitPidAssumption
<1>1. x # InitPid /\ Running(x) /\ forks' = forks
  BY DEF Exit
<1>2. proc' = [q \in Pid |->
                CASE q = x -> [proc[x] EXCEPT !.alive = FALSE]
                  [] q # x /\ Exists(q) /\ proc[q].parent = x ->
                       [proc[q] EXCEPT !.parent = InitPid, !.orphan = TRUE]
                  [] OTHER -> proc[q]]
  BY DEF Exit
<1>3. ASSUME NEW q \in Pid
      PROVE /\ proc'[q] \in Process \cup {None}
            /\ Exists(q)' <=> Exists(q)
            /\ Exists(q) =>
                 /\ proc'[q].gen = proc[q].gen
                 /\ q # x => proc'[q].alive = proc[q].alive
                 /\ IF q # x /\ proc[q].parent = x
                      THEN proc'[q].parent = InitPid /\ proc'[q].orphan
                      ELSE proc'[q].parent = proc[q].parent /\ proc'[q].orphan = proc[q].orphan
  <2>0. proc[q] \in Process \cup {None} /\ (Exists(q) => proc[q] \in Process)
    BY DEF ProcTypeOK, Exists
  <2>1. CASE q = x
    <3>1. proc'[q] = [proc[q] EXCEPT !.alive = FALSE] /\ Exists(q) /\ proc[q] \in Process
      BY <1>1, <1>2, <2>0, <2>1 DEF Running
    <3>2. proc'[q] \in Process
      BY <3>1 DEF Process
    <3>3. Exists(q)'
      BY <3>2 DEF Exists
    <3> QED
      BY <2>1, <3>1, <3>2, <3>3 DEF Process
  <2>2. CASE q # x /\ Exists(q) /\ proc[q].parent = x
    <3>1. proc'[q] = [proc[q] EXCEPT !.parent = InitPid, !.orphan = TRUE] /\ proc[q] \in Process
      BY <1>2, <2>0, <2>2
    <3>2. proc'[q] \in Process
      BY <3>1 DEF Process
    <3>3. Exists(q)'
      BY <3>2 DEF Exists
    <3> QED
      BY <2>2, <3>1, <3>2, <3>3 DEF Process
  <2>3. CASE q # x /\ ~(Exists(q) /\ proc[q].parent = x)
    <3>1. proc'[q] = proc[q]
      BY <1>2, <2>3
    <3> QED
      BY <2>0, <2>3, <3>1 DEF Exists
  <2> QED
    BY <2>1, <2>2, <2>3
<1>4. ProcTypeOK'
  <2>1. proc' \in [Pid -> Process \cup {None}]
    BY <1>2, <1>3
  <2> QED
    BY <1>1, <2>1 DEF ProcTypeOK
<1> QED
  BY <1>1, <1>3, <1>4

LEMMA ReapTable ==
  ASSUME ProcTypeOK, NEW x \in Pid, Reap(x)
  PROVE /\ ProcTypeOK'
        /\ Exists(x) /\ ~Running(x) /\ ~Exists(x)' /\ forks' = forks
        /\ \A q \in Pid \ {x} : proc'[q] = proc[q]
  BY DEF Reap, ProcTypeOK, Exists, Running

TreeStep ==
  \/ \E x, c \in Pid : Fork(x, c)
  \/ \E x \in Pid : Exit(x) \/ Reap(x)

\* Fork, Exit and Reap keep the shape of the table.
LEMMA TreePreserved ==
  ASSUME ProcTypeOK, TreeOK, TreeStep
  PROVE ProcTypeOK' /\ TreeOK'
<1> USE InitPidAssumption
<1>0. \A q \in Pid : Exists(q) => /\ proc[q].gen \in Nat /\ proc[q] \in Process
                                  /\ proc[q].parent \in Pid \cup {0}
  <2>1. \A g \in Gen : g \in Nat
    BY MaxForksAssumption DEF Gen
  <2> QED
    BY <2>1 DEF Exists, ProcTypeOK, Process
<1>1. ASSUME NEW x \in Pid, NEW c \in Pid, Fork(x, c)
      PROVE ProcTypeOK' /\ TreeOK'
  <2>1. /\ ProcTypeOK'
        /\ ~Exists(c) /\ Running(x) /\ x # c
        /\ forks' = forks + 1 /\ forks \in Nat
        /\ Exists(c)' /\ Running(c)'
        /\ proc'[c].parent = x /\ proc'[c].gen = forks + 1
        /\ \A q \in Pid \ {c} : proc'[q] = proc[q]
    BY <1>1, ForkTable
  <2>2. c # InitPid /\ Exists(x)
    BY <2>1 DEF TreeOK, Running
  <2>3. \A q \in Pid \ {c} : (Running(q)' <=> Running(q)) /\ (Exists(q)' <=> Exists(q))
    BY <2>1 DEF Running, Exists
  <2>4. \A q \in Pid : Exists(q)' => proc'[q].gen <= forks'
    <3> SUFFICES ASSUME NEW q \in Pid, Exists(q)' PROVE proc'[q].gen <= forks'
      OBVIOUS
    <3>1. CASE q = c
      BY <2>1, <3>1
    <3>2. CASE q # c
      BY <1>0, <2>1, <2>3, <3>2 DEF TreeOK
    <3> QED
      BY <3>1, <3>2
  <2>5. ASSUME NEW q \in Pid \ {InitPid}, Exists(q)'
        PROVE \E a \in Pid : /\ a = proc'[q].parent
                             /\ Running(a)'
                             /\ a = InitPid \/ proc'[a].gen < proc'[q].gen
    <3>1. CASE q = c
      <4>1. proc[x].gen <= forks /\ proc[x].gen \in Nat /\ proc'[x] = proc[x] /\ Running(x)'
        BY <1>0, <2>1, <2>2, <2>3 DEF TreeOK
      <4>2. proc'[q].parent = x /\ proc'[q].gen = forks + 1
        BY <2>1, <3>1
      <4> QED
        BY <2>1, <4>1, <4>2
    <3>2. CASE q # c
      <4>1. Exists(q) /\ proc'[q] = proc[q]
        BY <2>1, <2>3, <2>5, <3>2
      <4>2. PICK a \in Pid : /\ a = proc[q].parent
                             /\ Running(a)
                             /\ a = InitPid \/ proc[a].gen < proc[q].gen
        BY <4>1 DEF TreeOK
      <4>3. a # c /\ proc'[a] = proc[a]
        BY <2>1, <4>2 DEF Running
      <4>4. Running(a)'
        BY <2>3, <4>2, <4>3
      <4> QED
        BY <4>1, <4>2, <4>3, <4>4
    <3> QED
      BY <3>1, <3>2
  <2>6. Running(InitPid)' /\ proc'[InitPid].parent = 0 /\ proc'[InitPid].gen = 0
    BY <2>1, <2>2, <2>3 DEF TreeOK
  <2> QED
    BY <2>1, <2>4, <2>5, <2>6 DEF TreeOK
<1>2. ASSUME NEW x \in Pid, Exit(x)
      PROVE ProcTypeOK' /\ TreeOK'
  <2>1. /\ ProcTypeOK'
        /\ x # InitPid /\ Running(x) /\ forks' = forks
        /\ \A q \in Pid :
             /\ Exists(q)' <=> Exists(q)
             /\ Exists(q) =>
                  /\ proc'[q].gen = proc[q].gen
                  /\ q # x => proc'[q].alive = proc[q].alive
                  /\ IF q # x /\ proc[q].parent = x
                       THEN proc'[q].parent = InitPid /\ proc'[q].orphan
                       ELSE proc'[q].parent = proc[q].parent /\ proc'[q].orphan = proc[q].orphan
    BY <1>2, ExitTable
  <2>2. \A q \in Pid \ {x} : Running(q) => Running(q)'
    BY <2>1 DEF Running
  <2>3. Running(InitPid)' /\ proc'[InitPid].parent = 0 /\ proc'[InitPid].gen = 0
    <3>1. Exists(InitPid) /\ proc[InitPid].parent = 0 /\ Running(InitPid)
      BY DEF TreeOK, Running
    <3>2. x # 0
      BY PidPositive
    <3> QED
      BY <2>1, <2>2, <3>1, <3>2 DEF TreeOK
  <2>4. \A q \in Pid : Exists(q)' => proc'[q].gen <= forks'
    BY <2>1 DEF TreeOK
  <2>5. ASSUME NEW q \in Pid \ {InitPid}, Exists(q)'
        PROVE \E a \in Pid : /\ a = proc'[q].parent
                             /\ Running(a)'
                             /\ a = InitPid \/ proc'[a].gen < proc'[q].gen
    <3>1. Exists(q) /\ proc'[q].gen = proc[q].gen
      BY <2>1, <2>5
    <3>2. PICK a \in Pid : /\ a = proc[q].parent
                           /\ Running(a)
                           /\ a = InitPid \/ proc[a].gen < proc[q].gen
      BY <3>1 DEF TreeOK
    <3>3. CASE a = x
      <4>1. q # x
        <5>1. a # InitPid /\ proc[a].gen < proc[q].gen /\ proc[q].gen \in Nat
          BY <1>0, <2>1, <3>1, <3>2, <3>3
        <5>2. a # q
          BY <5>1
        <5> QED
          BY <3>3, <5>2
      <4>2. proc'[q].parent = InitPid
        BY <2>1, <3>1, <3>2, <3>3, <4>1
      <4> QED
        BY <2>3, <4>2
    <3>4. CASE a # x
      <4>1. proc'[q].parent = a
        BY <2>1, <3>1, <3>2, <3>4
      <4>2. Running(a)' /\ proc'[a].gen = proc[a].gen
        BY <2>1, <2>2, <3>2, <3>4 DEF Running
      <4> QED
        BY <3>1, <3>2, <4>1, <4>2
    <3> QED
      BY <3>3, <3>4
  <2> QED
    BY <2>1, <2>3, <2>4, <2>5 DEF TreeOK
<1>3. ASSUME NEW x \in Pid, Reap(x)
      PROVE ProcTypeOK' /\ TreeOK'
  <2>1. /\ ProcTypeOK'
        /\ Exists(x) /\ ~Running(x) /\ ~Exists(x)' /\ forks' = forks
        /\ \A q \in Pid \ {x} : proc'[q] = proc[q]
    BY <1>3, ReapTable
  <2>2. x # InitPid
    BY <2>1 DEF TreeOK
  <2>3. \A q \in Pid : Running(q) => Running(q)' /\ proc'[q] = proc[q]
    BY <2>1 DEF Running, Exists
  <2>4. \A q \in Pid : Exists(q)' => Exists(q) /\ proc'[q] = proc[q]
    BY <2>1 DEF Exists
  <2>5. ASSUME NEW q \in Pid \ {InitPid}, Exists(q)'
        PROVE \E a \in Pid : /\ a = proc'[q].parent
                             /\ Running(a)'
                             /\ a = InitPid \/ proc'[a].gen < proc'[q].gen
    <3>1. Exists(q) /\ proc'[q] = proc[q]
      BY <2>4, <2>5
    <3>2. PICK a \in Pid : /\ a = proc[q].parent
                           /\ Running(a)
                           /\ a = InitPid \/ proc[a].gen < proc[q].gen
      BY <3>1 DEF TreeOK
    <3> QED
      BY <2>3, <3>1, <3>2
  <2> QED
    BY <2>1, <2>2, <2>3, <2>4, <2>5 DEF TreeOK
<1> QED
  BY <1>1, <1>2, <1>3 DEF TreeStep

LEMMA TreeUnchanged ==
  ASSUME ProcTypeOK, TreeOK, UNCHANGED <<proc, forks>>
  PROVE ProcTypeOK' /\ TreeOK'
  BY DEF ProcTypeOK, TreeOK, Running, Exists

\* Everybody in the lineage of a process exists.
LEMMA LineageExists ==
  ASSUME ProcTypeOK, TreeOK, NEW p \in Pid, Exists(p)
  PROVE \A q \in Lineage(proc, p) : q \in Pid /\ Exists(q)
<1> DEFINE A == {q \in Pid : Exists(q)}
<1>1. Upward(proc, A)
  BY DEF Upward, TreeOK, Running
<1> QED
  BY <1>1, LineageLeast

\* A fork changes no lineage but the child's.
LEMMA ForkKeeps ==
  ASSUME ProcTypeOK, TreeOK, NEW x \in Pid, NEW c \in Pid, Fork(x, c),
         NEW p \in Pid, Exists(p)
  PROVE /\ proc'[p] = proc[p] /\ Exists(p)' /\ p # c
        /\ Lineage(proc', p) = Lineage(proc, p)
        /\ Descends(p)' <=> Descends(p)
<1>1. /\ ProcTypeOK' /\ ~Exists(c)
      /\ \A q \in Pid \ {c} : proc'[q] = proc[q]
  BY ForkTable
<1>2. p # c /\ proc'[p] = proc[p] /\ Exists(p)'
  BY <1>1 DEF Exists
<1> DEFINE A == {q \in Pid : Exists(q)}
<1>3. Upward(proc, A)
  BY DEF Upward, TreeOK, Running
<1>4. Agree(proc, proc', A)
  BY <1>1 DEF Agree
<1>5. Lineage(proc', p) = Lineage(proc, p)
  BY <1>1, <1>3, <1>4, LineageSame DEF ProcTypeOK
<1> QED
  BY <1>2, <1>5 DEF Descends

-----------------------------------------------------------------------------
(* The depth of a process.                                                 *)

\* The lineage of the parent is older: the process is not in it.
LEMMA ParentOlder ==
  ASSUME ProcTypeOK, TreeOK, NEW p \in Pid, Exists(p), NEW a \in Pid, a = proc[p].parent
  PROVE /\ p # InitPid /\ Exists(a) /\ p \notin Lineage(proc, a)
        /\ a = InitPid \/ proc[a].gen < proc[p].gen
        /\ proc[a].gen <= proc[p].gen
<1>0. \A q \in Pid : Exists(q) => proc[q].gen \in Nat
  <2>1. \A g \in Gen : g \in Nat
    BY MaxForksAssumption DEF Gen
  <2> QED
    BY <2>1 DEF Exists, ProcTypeOK, Process
<1>1. p # InitPid
  BY PidPositive DEF TreeOK
<1>2. Exists(a) /\ (a = InitPid \/ proc[a].gen < proc[p].gen)
  BY <1>1 DEF TreeOK, Running
<1> DEFINE A == {q \in Pid : Exists(q) /\ (q = InitPid \/ proc[q].gen < proc[p].gen)}
<1>3. Upward(proc, A)
  <2> SUFFICES ASSUME NEW q \in A \ WatchPIDs, proc[q] # None, proc[q].parent # 0
               PROVE proc[q].parent \in A
    BY DEF Upward
  <2>1. q \in Pid /\ Exists(q) /\ q # InitPid /\ proc[q].gen < proc[p].gen
    BY DEF TreeOK
  <2>2. PICK b \in Pid : /\ b = proc[q].parent
                         /\ Running(b)
                         /\ b = InitPid \/ proc[b].gen < proc[q].gen
    BY <2>1 DEF TreeOK
  <2>3. Exists(b)
    BY <2>2 DEF Running
  <2>4. b = InitPid \/ proc[b].gen < proc[p].gen
    BY <1>0, <2>1, <2>2, <2>3
  <2> QED
    BY <2>2, <2>3, <2>4
<1>4. a \in A /\ p \notin A
  BY <1>0, <1>1, <1>2
<1>5. p \notin Lineage(proc, a)
  BY <1>3, <1>4, LineageLeast
<1>6. proc[a].gen <= proc[p].gen
  BY <1>0, <1>2 DEF TreeOK
<1> QED
  BY <1>1, <1>2, <1>5, <1>6

\* Nobody in a lineage is younger than the process it is of.
LEMMA LineageOlder ==
  ASSUME ProcTypeOK, TreeOK, NEW p \in Pid, Exists(p)
  PROVE \A q \in Lineage(proc, p) : proc[q].gen <= proc[p].gen
<1>0. \A q \in Pid : Exists(q) => proc[q].gen \in Nat
  <2>1. \A g \in Gen : g \in Nat
    BY MaxForksAssumption DEF Gen
  <2> QED
    BY <2>1 DEF Exists, ProcTypeOK, Process
<1> DEFINE A == {q \in Pid : Exists(q) /\ proc[q].gen <= proc[p].gen}
<1>1. Upward(proc, A)
  <2> SUFFICES ASSUME NEW q \in A \ WatchPIDs, proc[q] # None, proc[q].parent # 0
               PROVE proc[q].parent \in A
    BY DEF Upward
  <2>1. PICK b \in Pid : b = proc[q].parent
    BY DEF ProcTypeOK, Process
  <2>2. Exists(b) /\ proc[b].gen <= proc[q].gen
    BY <2>1, ParentOlder
  <2> QED
    BY <1>0, <2>1, <2>2
<1>2. p \in A
  BY <1>0
<1> QED
  BY <1>1, <1>2, LineageLeast

LEMMA BelowFinite ==
  ASSUME NEW p \in Pid
  PROVE IsFiniteSet(Below(p)) /\ Cardinality(Below(p)) \in Nat
<1>1. Below(p) \in SUBSET Pid
  BY LineageSelf DEF Below
<1>2. IsFiniteSet(Below(p))
  BY <1>1, PidAssumption, FS_Subset
<1> QED
  BY <1>2, FS_CardinalityType

\* A process is one further down than its parent.
LEMMA BelowParent ==
  ASSUME ProcTypeOK, TreeOK, NEW p \in Pid \ WatchPIDs, Exists(p),
         NEW a \in Pid, a = proc[p].parent
  PROVE /\ Cardinality(Below(p)) = Cardinality(Below(a)) + 1
        /\ Lineage(proc, p) = {p} \cup Lineage(proc, a)
<1>1. Lineage(proc, p) = {p} \cup Lineage(proc, a)
  <2>1. a # 0
    BY PidPositive
  <2> QED
    BY <2>1, LineageStep DEF Exists, ProcTypeOK
<1>2. p \notin Lineage(proc, a)
  BY ParentOlder
<1>3. Below(p) = Below(a) \cup {p} /\ p \notin Below(a)
  BY <1>1, <1>2 DEF Below
<1>4. IsFiniteSet(Below(a))
  BY BelowFinite
<1>5. Cardinality(Below(a) \cup {p}) = Cardinality(Below(a)) + 1
  BY <1>3, <1>4, FS_AddElement
<1> QED
  BY <1>1, <1>3, <1>5

\* A root has depth 0, and a child of a root.
LEMMA BelowRoot ==
  ASSUME ProcTypeOK, NEW p \in WatchPIDs
  PROVE Below(p) = {} /\ Cardinality(Below(p)) = 0 /\ TreeDepth(p) = 0
<1>1. p \in Pid
  BY WatchPIDsAssumption
<1>2. Below(p) = {}
  BY <1>1, LineageEnds DEF Below
<1> QED
  BY <1>2, FS_EmptySet DEF TreeDepth

LEMMA DepthIsBelow ==
  ASSUME NEW p \in Pid \ WatchPIDs
  PROVE Cardinality(Below(p)) >= 1 /\ TreeDepth(p) = Cardinality(Below(p)) - 1
<1>1. p \in Below(p)
  BY LineageSelf DEF Below
<1>2. Cardinality(Below(p)) # 0 /\ Cardinality(Below(p)) \in Nat
  BY <1>1, BelowFinite, FS_EmptySet
<1> QED
  BY <1>1, <1>2 DEF TreeDepth

\* Rooted processes below a root have a rooted parent.
LEMMA RootedParent ==
  ASSUME ProcTypeOK, TreeOK, NEW p \in Pid \ WatchPIDs, Rooted(p)
  PROVE \E a \in Pid : a = proc[p].parent /\ Rooted(a)
<1>1. Exists(p) /\ Descends(p)
  BY DEF Rooted, Descends
<1>2. proc[p].parent # 0
  <2>1. CASE proc[p].parent = 0
    <3>1. Lineage(proc, p) = {p}
      BY <2>1, LineageEnds
    <3> QED
      BY <1>1, <3>1 DEF Descends
  <2> QED
    BY <2>1
<1>3. PICK a \in Pid : a = proc[p].parent
  BY <1>1, <1>2 DEF Exists, ProcTypeOK, Process
<1>4. Exists(a)
  BY <1>1, <1>3, ParentOlder
<1>5. Lineage(proc, p) = {p} \cup Lineage(proc, a)
  BY <1>1, <1>3, BelowParent
<1>6. Rooted(a)
  BY <1>1, <1>4, <1>5 DEF Rooted, Descends, Below
<1> QED
  BY <1>3, <1>6

\* A process that is rooted after a step of the kernel, and that the step did not
\* start, was so before, and nothing about its lineage has changed.
LEMMA RootedKept ==
  ASSUME ProcTypeOK, TreeOK, TreeStep, NEW p \in Pid,
         Exists(p)', proc'[p].gen <= forks, Rooted(p)'
  PROVE /\ Exists(p) /\ proc'[p].gen = proc[p].gen /\ Rooted(p)
        /\ \A q \in Lineage(proc, p) :
             /\ q \in Pid /\ Exists(q) /\ Exists(q)'
             /\ proc'[q].gen = proc[q].gen
             /\ Lineage(proc', q) = Lineage(proc, q)
<1> DEFINE L == Lineage(proc, p)
<1>0. ProcTypeOK' /\ TreeOK'
  BY TreePreserved
<1>1. ASSUME NEW x \in Pid, NEW c \in Pid, Fork(x, c)
      PROVE /\ Exists(p) /\ proc'[p].gen = proc[p].gen /\ Rooted(p)
            /\ \A q \in Lineage(proc, p) :
                 /\ q \in Pid /\ Exists(q) /\ Exists(q)'
                 /\ proc'[q].gen = proc[q].gen
                 /\ Lineage(proc', q) = Lineage(proc, q)
  <2>1. proc'[c].gen = forks + 1 /\ forks \in Nat /\ \A q \in Pid \ {c} : proc'[q] = proc[q]
    BY <1>1, ForkTable
  <2>2. p # c
    BY <2>1
  <2>3. Exists(p)
    BY <2>1, <2>2 DEF Exists
  <2>4. \A q \in Lineage(proc, p) : q \in Pid /\ Exists(q)
    BY <2>3, LineageExists
  <2>5. \A q \in Lineage(proc, p) :
          /\ Exists(q)' /\ proc'[q] = proc[q] /\ Lineage(proc', q) = Lineage(proc, q)
    BY <1>1, <2>4, ForkKeeps
  <2>6. p \in Lineage(proc, p)
    BY LineageSelf
  <2>7. Rooted(p)
    BY <2>3, <2>5, <2>6 DEF Rooted, Descends, Below
  <2> QED
    BY <2>3, <2>4, <2>5, <2>6, <2>7
<1>2. ASSUME NEW x \in Pid, Exit(x)
      PROVE /\ Exists(p) /\ proc'[p].gen = proc[p].gen /\ Rooted(p)
            /\ \A q \in Lineage(proc, p) :
                 /\ q \in Pid /\ Exists(q) /\ Exists(q)'
                 /\ proc'[q].gen = proc[q].gen
                 /\ Lineage(proc', q) = Lineage(proc, q)
  <2>1. \A q \in Pid :
             /\ Exists(q)' <=> Exists(q)
             /\ Exists(q) =>
                  /\ proc'[q].gen = proc[q].gen
                  /\ IF q # x /\ proc[q].parent = x
                       THEN proc'[q].parent = InitPid /\ proc'[q].orphan
                       ELSE proc'[q].parent = proc[q].parent /\ proc'[q].orphan = proc[q].orphan
    BY <1>2, ExitTable
  <2> DEFINE A == Lineage(proc', p)
  <2>2. A \in SUBSET Pid /\ p \in A /\ Upward(proc', A)
    BY <1>0, LineageSelf, LineageUpward DEF ProcTypeOK
  <2>3. \A q \in A \ WatchPIDs : ~proc'[q].orphan
    BY DEF Rooted, Below
  <2>4. \A q \in A \ WatchPIDs : Exists(q) =>
          proc'[q].parent = proc[q].parent /\ ~proc[q].orphan
    BY <2>1, <2>2, <2>3
  <2>5. Agree(proc', proc, A)
    BY <2>1, <2>2, <2>4 DEF Agree, Exists
  <2>6. \A q \in A : Lineage(proc', q) = Lineage(proc, q)
    BY <1>0, <2>2, <2>5, LineageSame DEF ProcTypeOK
  <2>7. A = L
    BY <2>2, <2>6
  <2>8. Exists(p) /\ \A q \in L : q \in Pid /\ Exists(q)
    BY <2>1, LineageExists
  <2>9. Rooted(p)
    BY <2>4, <2>7, <2>8 DEF Rooted, Descends, Below
  <2> QED
    BY <2>1, <2>6, <2>7, <2>8, <2>9
<1>3. ASSUME NEW x \in Pid, Reap(x)
      PROVE /\ Exists(p) /\ proc'[p].gen = proc[p].gen /\ Rooted(p)
            /\ \A q \in Lineage(proc, p) :
                 /\ q \in Pid /\ Exists(q) /\ Exists(q)'
                 /\ proc'[q].gen = proc[q].gen
                 /\ Lineage(proc', q) = Lineage(proc, q)
  <2>1. /\ Exists(x) /\ ~Running(x) /\ ~Exists(x)'
        /\ \A q \in Pid \ {x} : proc'[q] = proc[q]
    BY <1>3, ReapTable
  <2>2. p # x /\ Exists(p) /\ proc'[p] = proc[p]
    BY <2>1 DEF Exists
  <2> DEFINE A == {q \in Pid : Exists(q) /\ q # x}
  <2>3. A \in SUBSET Pid /\ p \in A /\ Upward(proc, A)
    BY <2>1, <2>2 DEF Upward, TreeOK, Running
  <2>4. Agree(proc, proc', A)
    BY <2>1 DEF Agree
  <2>5. \A q \in A : Lineage(proc, q) = Lineage(proc', q) /\ Lineage(proc, q) \subseteq A
    BY <1>0, <2>3, <2>4, LineageSame DEF ProcTypeOK
  <2>6. \A q \in L : q \in Pid /\ Exists(q) /\ Exists(q)' /\ proc'[q] = proc[q]
    BY <2>1, <2>3, <2>5 DEF Exists
  <2>7. L = Lineage(proc', p)
    BY <2>3, <2>5
  <2>8. Rooted(p)
    BY <2>2, <2>6, <2>7 DEF Rooted, Descends, Below
  <2> QED
    BY <2>2, <2>3, <2>5, <2>6, <2>8
<1> QED
  BY <1>1, <1>2, <1>3 DEF TreeStep
=============================================================================
