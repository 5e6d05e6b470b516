--------------------------- MODULE ExecTraceProofs --------------------------
(* Proofs about ExecTrace, for any processes, watched roots and bounds.    *)
EXTENDS ExecTrace, ProcTreeProofs, SequenceTheorems

LEMMA PidsAreNats == 0 \notin Pid /\ \A p \in Pid : p \in Int /\ p > 0
  BY InitPidAssumption

LEMMA GenInt == \A g \in Gen : g \in Int /\ g >= 0
  BY MaxForksAssumption DEF Gen

LEMMA InitInv == Init => IInv
<1> SUFFICES ASSUME Init PROVE IInv
  OBVIOUS
<1>1. 0 \in Gen
  BY MaxForksAssumption DEF Gen
<1>2. ProcTypeOK /\ \A p \in Pid : Exists(p) => proc[p].gen = 0
  BY <1>1, InitPidAssumption DEF Init, ProcInit, ProcTypeOK, Process, Exists
<1>3. queue \in Seq(Event) /\ Len(queue) = 0 /\ Queued = {}
  <2>1. queue = <<>> /\ Len(<<>>) = 0 /\ <<>> \in Seq(Event)
    BY EmptySeq DEF Init
  <2> QED
    BY <2>1 DEF Queued
<1>4. TypeOK
  <2>1. Len(queue) <= QueueCap
    BY <1>3, QueueCapAssumption
  <2>2. pc = "recv" /\ ev = None /\ pidDB = [p \in Pid |-> None]
    BY DEF Init
  <2>3. pidDB \in [Pid -> PidEntry \cup {None}]
    BY <2>2
  <2> QED
    BY <1>2, <1>3, <2>1, <2>2, <2>3, InitPidAssumption DEF Init, TypeOK
<1>5. InHand /\ LinePairs
  BY DEF Init, InHand, LinePairs
<1>6. GensUsed
  BY <1>2, <1>3 DEF Init, ProcInit, GensUsed
<1>7. Complete
  BY <1>3 DEF Init, Complete, NoStaleEntry, Ordered, NotNewer, EntryOldest, Accounted
<1> QED
  BY <1>4, <1>5, <1>6, <1>7 DEF IInv

-----------------------------------------------------------------------------
(* The kernel's steps.                                                     *)

\* Queueing an event, when there is room.
LEMMA Appending ==
  ASSUME queue \in Seq(Event), NEW e \in Event, queue' = Append(queue, e)
  PROVE \E n \in Nat :
          /\ queue' \in Seq(Event)
          /\ Len(queue) + 1 = n
          /\ Len(queue') = n
          /\ \A i \in Queued : queue'[i] = queue[i] /\ i \in Int /\ i < n
          /\ queue'[n] = e
          /\ Queued' = Queued \cup {n}
          /\ n \notin Queued
<1>1. /\ queue' \in Seq(Event) /\ Len(queue') = Len(queue) + 1
      /\ \A i \in 1 .. Len(queue) : queue'[i] = queue[i]
      /\ queue'[Len(queue) + 1] = e
  BY AppendProperties
<1>2. Len(queue) \in Nat
  BY LenProperties
<1> QED
  BY <1>1, <1>2 DEF Queued

\* What Send leaves: one more event, or an overrun.
LEMMA Sending ==
  ASSUME TypeOK, NEW kind \in {"exec", "exit"}, NEW p \in Pid, Exists(p), Send(kind, p)
  PROVE \E e \in Event :
          /\ e = [kind |-> kind, pid |-> p, gen |-> proc[p].gen]
          /\ \/ /\ ~overrun /\ ~overrun'
                /\ queue' = Append(queue, e)
                /\ Len(queue) + 1 <= QueueCap
             \/ overrun' /\ queue' = queue
          /\ overrun' \in BOOLEAN
<1> DEFINE e == [kind |-> kind, pid |-> p, gen |-> proc[p].gen]
<1>1. proc[p].gen \in Gen
  BY DEF TypeOK, ProcTypeOK, Exists, Process
<1>2. e \in Event
  BY <1>1 DEF Event
<1>3. Len(queue) \in Nat
  BY LenProperties DEF TypeOK
<1>4. CASE Len(queue) < QueueCap /\ ~overrun
  <2>1. queue' = Append(queue, e) /\ overrun' = overrun
    BY <1>4 DEF Send
  <2> QED
    BY <1>2, <1>3, <1>4, <2>1, QueueCapAssumption DEF TypeOK
<1>5. CASE ~(Len(queue) < QueueCap /\ ~overrun)
  <2>1. queue' = queue /\ overrun' = TRUE
    BY <1>5 DEF Send
  <2> QED
    BY <1>2, <2>1
<1> QED
  BY <1>4, <1>5

\* An event of process p is queued while no process changes, but for p, which
\* ends if it is an exit event.
LEMMA AppendComplete ==
  ASSUME TypeOK, Complete, GensUsed,
         NEW p \in Pid, Running(p), NEW e \in Event,
         e.pid = p, e.gen = proc[p].gen,
         queue' = Append(queue, e),
         \A q \in Pid : /\ (proc'[q] # None <=> proc[q] # None)
                        /\ proc[q] # None => proc'[q].gen = proc[q].gen
                        /\ q # p /\ Running(q) => proc'[q].alive,
         e.kind = "exec" => proc'[p].alive,
         e.kind = "exit" => e = [kind |-> "exit", pid |-> p, gen |-> proc[p].gen],
         e.kind \in {"exec", "exit"},
         pidDB' = pidDB, ev' = ev, ~overrun, overrun' = overrun
  PROVE Complete'
<1>0. PICK n \in Nat :
        /\ \A i \in Queued : queue'[i] = queue[i] /\ i \in Int /\ i < n
        /\ queue'[n] = e
        /\ Queued' = Queued \cup {n}
        /\ n \notin Queued
  <2>1. queue \in Seq(Event)
    BY DEF TypeOK
  <2> QED
    BY <2>1, Appending
<1>00. n \in Queued' /\ \A i \in Queued : i \in Queued'
  BY <1>0
<1>1. \A i \in Queued : queue[i] \in Event
  BY ElementOfSeq DEF TypeOK, Queued
<1>2. \A i \in Queued : queue[i].pid \in Pid /\ queue[i].gen \in Int
  BY <1>1, GenInt DEF Event
<1>3. ev # None => ev \in Event /\ ev.pid \in Pid /\ ev.gen \in Int
  BY GenInt DEF TypeOK, Event
<1>4. proc[p] # None /\ proc[p].gen \in Int
  BY GenInt DEF Running, Exists, TypeOK, ProcTypeOK, Process
<1>5. NoStaleEntry'
  <2> SUFFICES ASSUME ~overrun, NEW q \in Pid, pidDB[q] # None
               PROVE \/ /\ proc'[q] # None /\ proc'[q].alive
                        /\ proc'[q].gen = pidDB[q].start
                     \/ \E i \in Queued' : queue'[i] = [kind |-> "exit", pid |-> q, gen |-> pidDB[q].start]
                     \/ ev = [kind |-> "exit", pid |-> q, gen |-> pidDB[q].start]
    BY DEF NoStaleEntry, ExitPending, Running, Exists, Queued
  <2>1. CASE Running(q) /\ proc[q].gen = pidDB[q].start
    <3>1. CASE q # p
      BY <2>1, <3>1 DEF Running, Exists
    <3>2. CASE q = p /\ e.kind = "exec"
      BY <2>1, <3>2 DEF Running, Exists
    <3>3. CASE q = p /\ e.kind = "exit"
      BY <2>1, <3>3, <1>0, <1>00
    <3> QED
      BY <3>1, <3>2, <3>3
  <2>2. CASE ExitPending(q, pidDB[q].start)
    BY <2>2, <1>0 DEF ExitPending, Queued
  <2> QED
    BY <2>1, <2>2 DEF Complete, NoStaleEntry
<1>6. Ordered'
  <2>1. \A i \in Queued : queue[i].pid = p => queue[i].gen <= e.gen
    BY <1>4 DEF Complete, NotNewer, Exists
  <2>2. ev # None /\ ev.pid = p => ev.gen <= e.gen
    BY <1>4 DEF Complete, NotNewer, Exists
  <2>3. \A i, j \in Queued' : i < j /\ queue'[i].pid = queue'[j].pid => queue'[i].gen <= queue'[j].gen
    <3> SUFFICES ASSUME NEW i \in Queued', NEW j \in Queued', i < j, queue'[i].pid = queue'[j].pid
                 PROVE queue'[i].gen <= queue'[j].gen
      OBVIOUS
    <3>1. CASE i \in Queued /\ j \in Queued
      <4>1. queue'[i] = queue[i] /\ queue'[j] = queue[j]
        BY <3>1, <1>0
      <4> QED
        BY <3>1, <4>1 DEF Complete, Ordered
    <3>2. CASE i \in Queued /\ j = n
      <4>1. queue'[i] = queue[i] /\ queue'[j] = e
        BY <3>2, <1>0
      <4> QED
        BY <3>2, <4>1, <2>1
    <3>3. CASE i = n
      BY <3>3, <1>0
    <3> QED
      BY <3>1, <3>2, <3>3, <1>0
  <2>4. ev # None => \A j \in Queued' : ev.pid = queue'[j].pid => ev.gen <= queue'[j].gen
    BY <1>0, <2>2 DEF Complete, Ordered
  <2> QED
    BY <2>3, <2>4 DEF Ordered
<1>7. NotNewer'
  <2>1. \A i \in Queued' : proc'[queue'[i].pid] # None => queue'[i].gen <= proc'[queue'[i].pid].gen
    <3> SUFFICES ASSUME NEW i \in Queued', proc'[queue'[i].pid] # None
                 PROVE queue'[i].gen <= proc'[queue'[i].pid].gen
      OBVIOUS
    <3>1. CASE i \in Queued
      <4>1. queue'[i] = queue[i] /\ queue[i].pid \in Pid
        BY <3>1, <1>0, <1>2
      <4> QED
        BY <3>1, <4>1 DEF Complete, NotNewer, Exists
    <3>2. CASE i = n
      <4>1. queue'[i] = e
        BY <3>2, <1>0
      <4> QED
        BY <4>1, <1>4
    <3> QED
      BY <3>1, <3>2, <1>0
  <2>2. ev # None /\ proc'[ev.pid] # None => ev.gen <= proc'[ev.pid].gen
    BY <1>3 DEF Complete, NotNewer, Exists
  <2> QED
    BY <2>1, <2>2 DEF NotNewer, Exists
<1>8. EntryOldest'
  <2>1. pidDB[p] # None => pidDB[p].start <= e.gen
    <3> SUFFICES ASSUME pidDB[p] # None PROVE pidDB[p].start <= proc[p].gen
      OBVIOUS
    <3>1. CASE proc[p].gen = pidDB[p].start
      BY <3>1, <1>4
    <3>2. CASE \E i \in Queued : queue[i] = [kind |-> "exit", pid |-> p, gen |-> pidDB[p].start]
      BY <3>2, <1>4 DEF Complete, NotNewer, Exists
    <3>3. CASE ev = [kind |-> "exit", pid |-> p, gen |-> pidDB[p].start]
      <4>1. ev # None
        BY <3>3, NoneIsNoData, GenInt DEF TypeOK, PidEntry, Event
      <4> QED
        BY <3>3, <4>1, <1>4 DEF Complete, NotNewer, Exists
    <3> QED
      BY <3>1, <3>2, <3>3 DEF Complete, NoStaleEntry, ExitPending, Queued
  <2> SUFFICES ASSUME NEW q \in Pid, pidDB[q] # None, NEW i \in Queued', queue'[i].pid = q
               PROVE pidDB[q].start <= queue'[i].gen
    BY DEF EntryOldest
  <2>2. CASE i \in Queued
    <3>1. queue'[i] = queue[i]
      BY <2>2, <1>0
    <3> QED
      BY <2>2, <3>1 DEF Complete, EntryOldest
  <2>3. CASE i = n
    <3>1. queue'[i] = e
      BY <2>3, <1>0
    <3> QED
      BY <3>1, <2>1
  <2> QED
    BY <2>2, <2>3, <1>0
<1>9. Accounted'
  <2> USE DEF ExitOf
  <2>1. ASSUME NEW x \in Event, Lives(x)
        PROVE \/ proc'[x.pid] # None /\ proc'[x.pid].alive /\ proc'[x.pid].gen = x.gen
              \/ e = ExitOf(x)
    BY <2>1 DEF Lives, Running, Exists, ExitOf, Event
  <2>2. \A i \in Queued' : queue'[i].kind = "exec" =>
          \/ Lives(queue[i])'
          \/ \E j \in Queued' : i < j /\ queue'[j] = ExitOf(queue'[i])
    <3> SUFFICES ASSUME NEW i \in Queued', queue'[i].kind = "exec"
                 PROVE \/ /\ proc'[queue'[i].pid] # None /\ proc'[queue'[i].pid].alive
                          /\ proc'[queue'[i].pid].gen = queue'[i].gen
                       \/ \E j \in Queued' : i < j /\ queue'[j] = ExitOf(queue'[i])
      BY DEF Lives, Running, Exists
    <3>1. CASE i = n
      BY <3>1, <1>0, <1>4
    <3>2. CASE i \in Queued
      <4>1. PICK x \in Event : x = queue[i]
        BY <3>2, <1>1
      <4>2. queue'[i] = x /\ x.kind = "exec" /\ i < n
        BY <3>2, <4>1, <1>0
      <4>3. CASE Lives(x)
        <5>1. CASE e = ExitOf(x)
          <6>1. n \in Queued' /\ i < n /\ queue'[n] = ExitOf(x)
            BY <5>1, <4>2, <1>0, <1>00
          <6> HIDE DEF ExitOf
          <6> QED
            BY <6>1, <4>2
        <5>2. CASE e # ExitOf(x)
          <6>1. proc'[x.pid] # None /\ proc'[x.pid].alive /\ proc'[x.pid].gen = x.gen
            BY <5>2, <4>3, <2>1
          <6> QED
            BY <6>1, <4>2
        <5> QED
          BY <5>1, <5>2
      <4>4. CASE \E j \in Queued : i < j /\ queue[j] = ExitOf(x)
        <5>1. PICK j \in Queued : i < j /\ queue[j] = ExitOf(x)
          BY <4>4
        <5>2. j \in Queued' /\ queue'[j] = ExitOf(x)
          BY <5>1, <1>0, <1>00
        <5> QED
          BY <5>1, <5>2, <4>2
      <4> QED
        BY <4>1, <4>2, <4>3, <4>4, <3>2 DEF Complete, Accounted
    <3> QED
      BY <3>1, <3>2, <1>0
  <2>3. ev # None /\ ev.kind = "exec" =>
          \/ Lives(ev)'
          \/ \E j \in Queued' : queue'[j] = ExitOf(ev)
    <3> SUFFICES ASSUME ev # None, ev.kind = "exec"
                 PROVE \/ /\ proc'[ev.pid] # None /\ proc'[ev.pid].alive
                          /\ proc'[ev.pid].gen = ev.gen
                       \/ \E j \in Queued' : queue'[j] = ExitOf(ev)
      BY DEF Lives, Running, Exists
    <3>1. CASE Lives(ev)
      BY <3>1, <2>1, <1>0, <1>00, <1>3
    <3>2. CASE \E j \in Queued : queue[j] = ExitOf(ev)
      BY <3>2, <1>0, <1>00
    <3> QED
      BY <3>1, <3>2 DEF Complete, Accounted
  <2> QED
    BY <2>2, <2>3 DEF Accounted
<1> QED
  BY <1>5, <1>6, <1>7, <1>8, <1>9 DEF Complete

\* No process appears, goes, or changes but for p, which may end.
Keeps(p) ==
  /\ proc' \in [Pid -> Process \cup {None}]
  /\ forks' = forks
  /\ \A q \in Pid : /\ (proc'[q] # None <=> proc[q] # None)
                    /\ proc[q] # None => proc'[q].gen = proc[q].gen
                    /\ q # p /\ Running(q) => proc'[q].alive

\* Send with its effect on processes, for both of its callers.
LEMMA SendInv ==
  ASSUME IInv, NEW kind \in {"exec", "exit"}, NEW p \in Pid, Running(p), Send(kind, p),
         Keeps(p), kind = "exec" => proc'[p].alive,
         calm' \in BOOLEAN, UNCHANGED tracer
  PROVE IInv'
<1> USE DEF Keeps
<1>0. TypeOK /\ GensUsed /\ Exists(p)
  BY DEF IInv, Running
<1>1. PICK e \in Event :
        /\ e = [kind |-> kind, pid |-> p, gen |-> proc[p].gen]
        /\ \/ /\ ~overrun /\ ~overrun'
              /\ queue' = Append(queue, e)
              /\ Len(queue) + 1 <= QueueCap
           \/ overrun' /\ queue' = queue
        /\ overrun' \in BOOLEAN
  BY <1>0, Sending
<1>2. e.kind = kind /\ e.pid = p /\ e.gen = proc[p].gen
  BY <1>1
<1>3. UNCHANGED <<pc, ev, cur, hops, pidDB, line>>
  BY DEF tracer
<1>4. e.gen <= forks
  BY <1>0, <1>2 DEF GensUsed
<1>5. InHand' /\ LinePairs'
  BY <1>3 DEF IInv, InHand, LinePairs
<1>6. CASE ~overrun'
  <2>1. /\ ~overrun /\ queue' = Append(queue, e) /\ Len(queue) + 1 <= QueueCap
    BY <1>1, <1>6
  <2>2. PICK n \in Nat :
          /\ queue' \in Seq(Event)
          /\ Len(queue) + 1 = n
          /\ Len(queue') = n
          /\ \A i \in Queued : queue'[i] = queue[i]
          /\ queue'[n] = e
          /\ Queued' = Queued \cup {n}
    BY <2>1, Appending DEF IInv, TypeOK
  <2>3. queue' \in Seq(Event) /\ Len(queue') <= QueueCap
    BY <2>1, <2>2
  <2>4. TypeOK'
    BY <2>3, <1>1, <1>3 DEF IInv, TypeOK, ProcTypeOK
  <2>5. GensUsed'
    <3>1. \A i \in Queued' : queue'[i].gen <= forks
      BY <2>2, <1>4 DEF IInv, GensUsed
    <3> QED
      BY <3>1, <1>3 DEF IInv, GensUsed, Exists
  <2>6. Complete'
    BY <1>0, <1>1, <1>2, <1>3, <1>6, <2>1, AppendComplete DEF IInv, TypeOK
  <2> QED
    BY <2>4, <2>5, <2>6, <1>5 DEF IInv
<1>7. CASE overrun'
  <2>1. queue' = queue
    BY <1>1, <1>7
  <2>2. TypeOK'
    BY <2>1, <1>1, <1>3 DEF IInv, TypeOK, ProcTypeOK
  <2>3. GensUsed'
    BY <2>1, <1>3 DEF IInv, GensUsed, Exists, Queued
  <2> QED
    BY <2>2, <2>3, <1>5, <1>7 DEF IInv
<1> QED
  BY <1>6, <1>7

LEMMA KernelExecInv == IInv /\ KernelExec => IInv'
<1> SUFFICES ASSUME IInv, KernelExec PROVE IInv'
  OBVIOUS
<1>1. PICK p \in Pid : Running(p) /\ Send("exec", p)
  BY DEF KernelExec
<1>2. proc' = proc /\ forks' = forks /\ calm' = calm /\ UNCHANGED tracer
  BY DEF KernelExec
<1>3. calm' \in BOOLEAN
  BY <1>2 DEF IInv, TypeOK
<1>4. Keeps(p) /\ proc'[p].alive
  BY <1>1, <1>2 DEF IInv, TypeOK, ProcTypeOK, Running, Keeps
<1> QED
  BY <1>1, <1>2, <1>3, <1>4, SendInv

\* What an exit changes in the process table.
LEMMA ExitKeeps ==
  ASSUME IInv, NEW p \in Pid, Exit(p)
  PROVE Keeps(p)
<1>0. proc \in [Pid -> Process \cup {None}]
  BY DEF IInv, TypeOK, ProcTypeOK
<1>1. ASSUME NEW q \in Pid
      PROVE /\ proc'[q] \in Process \cup {None}
            /\ (proc'[q] # None <=> proc[q] # None)
            /\ proc[q] # None => proc'[q].gen = proc[q].gen
            /\ q # p /\ Running(q) => proc'[q].alive
  <2>1. CASE q = p
    <3>1. proc[p] \in Process
      BY <1>0 DEF Exit, Running, Exists
    <3>2. proc'[p] = [proc[p] EXCEPT !.alive = FALSE]
      BY DEF Exit
    <3>3. proc'[p] \in Process /\ proc'[p].gen = proc[p].gen
      BY <3>1, <3>2 DEF Process
    <3> QED
      BY <2>1, <3>1, <3>3, NoneAssumption
  <2>2. CASE q # p /\ Exists(q) /\ proc[q].parent = p
    <3>1. proc[q] \in Process
      BY <1>0, <2>2 DEF Exists
    <3>2. proc'[q] = [proc[q] EXCEPT !.parent = InitPid, !.orphan = TRUE]
      BY <2>2 DEF Exit
    <3>3. proc'[q] \in Process /\ proc'[q].gen = proc[q].gen /\ proc'[q].alive = proc[q].alive
      BY <3>1, <3>2, InitPidAssumption DEF Process
    <3> QED
      BY <3>1, <3>3, NoneAssumption DEF Running
  <2>3. CASE q # p /\ ~(Exists(q) /\ proc[q].parent = p)
    <3>1. proc'[q] = proc[q]
      BY <2>3 DEF Exit
    <3> QED
      BY <3>1, <1>0 DEF Running
  <2> QED
    BY <2>1, <2>2, <2>3
<1>2. proc' = [q \in Pid |-> proc'[q]] /\ forks' = forks
  BY DEF Exit
<1>3. proc' \in [Pid -> Process \cup {None}]
  BY <1>1, <1>2
<1> QED
  BY <1>1, <1>2, <1>3 DEF Keeps

LEMMA KernelExitInv == IInv /\ KernelExit => IInv'
<1> SUFFICES ASSUME IInv, KernelExit PROVE IInv'
  OBVIOUS
<1>1. PICK p \in Pid : Exit(p) /\ Send("exit", p)
  BY DEF KernelExit
<1>2. forks' = forks /\ Running(p)
  BY <1>1 DEF Exit
<1>3. calm' \in BOOLEAN /\ UNCHANGED tracer
  BY DEF KernelExit
<1>4. Keeps(p)
  BY <1>1, ExitKeeps
<1>5. PICK kind \in {"exec", "exit"} : kind = "exit"
  OBVIOUS
<1>6. Send(kind, p) /\ (kind = "exec" => proc'[p].alive)
  BY <1>1, <1>5
<1> QED
  BY <1>2, <1>3, <1>4, <1>6, SendInv

\* A step that leaves events and tracer alone, after which every process that
\* ran still runs and every process that is new is newer than the events.
Grows ==
  /\ proc' \in [Pid -> Process \cup {None}]
  /\ forks' \in Gen /\ forks <= forks'
  /\ \A q \in Pid : proc'[q] # None => proc'[q].gen <= forks'
  /\ \A q \in Pid : Running(q) => proc'[q] = proc[q]
  /\ \A q \in Pid : proc'[q] # None => proc'[q] = proc[q] \/ proc'[q].gen >= forks

LEMMA GrowsInv ==
  ASSUME IInv, Grows, calm' \in BOOLEAN, UNCHANGED <<queue, overrun, tracer>>
  PROVE IInv'
<1>1. UNCHANGED <<pc, ev, cur, hops, pidDB, line, queue, overrun>> /\ Queued' = Queued
  BY DEF tracer, Queued
<1>2. TypeOK'
  BY <1>1 DEF IInv, TypeOK, ProcTypeOK, Grows
<1>3. InHand' /\ LinePairs'
  BY <1>1 DEF IInv, InHand, LinePairs
<1>4. /\ forks \in Int /\ forks' \in Int
      /\ \A i \in Queued : queue[i] \in Event /\ queue[i].pid \in Pid /\ queue[i].gen \in Int
      /\ ev # None => ev \in Event /\ ev.pid \in Pid /\ ev.gen \in Int
      /\ \A q \in Pid : proc'[q] # None => proc'[q].gen \in Int
  <2>1. \A i \in Queued : queue[i] \in Event
    BY ElementOfSeq DEF IInv, TypeOK, Queued
  <2> QED
    BY <2>1, GenInt DEF IInv, TypeOK, ProcTypeOK, Event, Grows, Process
<1>5. GensUsed'
  <2>1. \A i \in Queued : queue[i].gen <= forks'
    BY <1>4 DEF IInv, GensUsed, Grows
  <2>2. ev # None => ev.gen <= forks'
    BY <1>4 DEF IInv, GensUsed, Grows
  <2> QED
    BY <2>1, <2>2, <1>1 DEF GensUsed, Grows, Exists
<1>6. ASSUME ~overrun PROVE Complete'
  <2>0. Complete
    BY <1>6 DEF IInv
  <2>1. NoStaleEntry'
    <3>1. \A p \in Pid : \A g : ExitPending(p, g) => ExitPending(p, g)'
      BY <1>1 DEF ExitPending
    <3>2. \A p \in Pid : Running(p) => Running(p)' /\ proc'[p].gen = proc[p].gen
      BY DEF Grows, Running, Exists
    <3> QED
      BY <2>0, <3>1, <3>2, <1>1, <1>6 DEF Complete, NoStaleEntry
  <2>2. Ordered' /\ EntryOldest'
    BY <2>0, <1>1 DEF Complete, Ordered, EntryOldest
  <2>3. NotNewer'
    <3>1. ASSUME NEW x \in Event, x.gen <= forks, proc[x.pid] # None => x.gen <= proc[x.pid].gen,
                 proc'[x.pid] # None
          PROVE x.gen <= proc'[x.pid].gen
      <4>1. x.pid \in Pid /\ x.gen \in Int
        BY GenInt DEF Event
      <4>2. CASE proc'[x.pid] = proc[x.pid]
        BY <3>1, <4>2
      <4>3. CASE proc'[x.pid].gen >= forks
        BY <3>1, <4>1, <4>3, <1>4
      <4> QED
        BY <3>1, <4>1, <4>2, <4>3 DEF Grows
    <3>2. \A i \in Queued : proc'[queue[i].pid] # None => queue[i].gen <= proc'[queue[i].pid].gen
      BY <3>1, <1>4, <2>0 DEF IInv, GensUsed, Complete, NotNewer, Exists
    <3>3. ev # None /\ proc'[ev.pid] # None => ev.gen <= proc'[ev.pid].gen
      BY <3>1, <1>4, <2>0 DEF IInv, GensUsed, Complete, NotNewer, Exists
    <3> QED
      BY <3>2, <3>3, <1>1 DEF NotNewer, Exists
  <2>4. Accounted'
    <3>1. \A x \in Event : Lives(x) => Lives(x)'
      BY DEF Lives, Running, Exists, Grows, Event
    <3>2. \A i \in Queued : Lives(queue[i]) => Lives(queue[i])'
      BY <3>1, <1>1, <1>4
    <3>3. ev # None /\ Lives(ev) => Lives(ev)'
      BY <3>1, <1>1, <1>4
    <3> QED
      BY <3>2, <3>3, <2>0, <1>1 DEF Complete, Accounted, ExitOf
  <2> QED
    BY <2>1, <2>2, <2>3, <2>4 DEF Complete
<1> QED
  BY <1>1, <1>2, <1>3, <1>5, <1>6 DEF IInv

LEMMA KernelForkInv == IInv /\ KernelFork => IInv'
<1> SUFFICES ASSUME IInv, KernelFork PROVE IInv'
  OBVIOUS
<1>1. PICK p \in Pid, c \in Pid : Fork(p, c)
  BY DEF KernelFork
<1>2. UNCHANGED <<queue, overrun, tracer>> /\ calm' \in BOOLEAN
  BY DEF KernelFork, IInv, TypeOK
<1>3. forks \in Nat /\ forks < MaxForks /\ forks' = forks + 1
  BY <1>1, MaxForksAssumption DEF Fork, IInv, TypeOK, ProcTypeOK, Gen
<1>4. PICK new \in Process : proc' = [proc EXCEPT ![c] = new] /\ new.gen = forks + 1
  <2>1. [parent |-> p, gen |-> forks + 1, alive |-> TRUE, orphan |-> FALSE] \in Process
    BY <1>3, MaxForksAssumption DEF Process, Gen
  <2> QED
    BY <1>1, <2>1 DEF Fork
<1>5. proc \in [Pid -> Process \cup {None}] /\ proc[c] = None
  BY <1>1 DEF IInv, TypeOK, ProcTypeOK, Fork, Exists
<1>6. \A q \in Pid : proc[q] # None => proc[q].gen \in Int /\ proc[q].gen <= forks
  BY <1>5, GenInt DEF IInv, GensUsed, Exists, Process
<1>7. Grows
  <2>1. proc' \in [Pid -> Process \cup {None}]
    BY <1>4, <1>5
  <2>2. \A q \in Pid : q # c => proc'[q] = proc[q]
    BY <1>4, <1>5
  <2>3. proc'[c] = new
    BY <1>4, <1>5
  <2>4. forks' \in Gen /\ forks <= forks'
    BY <1>3, MaxForksAssumption DEF Gen
  <2>5. \A q \in Pid : proc'[q] # None => proc'[q].gen <= forks'
    BY <2>2, <2>3, <1>3, <1>4, <1>6
  <2>6. \A q \in Pid : Running(q) => proc'[q] = proc[q]
    BY <2>2, <1>5 DEF Running, Exists
  <2>7. \A q \in Pid : proc'[q] # None => proc'[q] = proc[q] \/ proc'[q].gen >= forks
    BY <2>2, <2>3, <1>3, <1>4
  <2> QED
    BY <2>1, <2>4, <2>5, <2>6, <2>7 DEF Grows
<1> QED
  BY <1>2, <1>7, GrowsInv

LEMMA KernelReapInv == IInv /\ KernelReap => IInv'
<1> SUFFICES ASSUME IInv, KernelReap PROVE IInv'
  OBVIOUS
<1>1. PICK p \in Pid : Reap(p)
  BY DEF KernelReap
<1>2. UNCHANGED <<queue, overrun, tracer>> /\ calm' \in BOOLEAN
  BY DEF KernelReap
<1>3. proc \in [Pid -> Process \cup {None}] /\ forks \in Gen /\ forks \in Int
  BY GenInt DEF IInv, TypeOK, ProcTypeOK
<1>4. proc' = [proc EXCEPT ![p] = None] /\ forks' = forks /\ ~proc[p].alive
  BY <1>1 DEF Reap
<1>5. \A q \in Pid : proc'[q] = proc[q] \/ (q = p /\ proc'[q] = None)
  BY <1>3, <1>4
<1>6. Grows
  BY <1>3, <1>4, <1>5 DEF Grows, IInv, GensUsed, Exists, Running
<1> QED
  BY <1>2, <1>6, GrowsInv

-----------------------------------------------------------------------------
(* The tracer's steps.                                                     *)

\* A handler goes on or ends: entries only go, and the entry of an exit event
\* that has been handled is gone.
Settles ==
  /\ UNCHANGED <<proc, forks, queue, overrun>>
  /\ ev' = ev \/ ev' = None
  /\ \A q \in Pid : pidDB'[q] \in {None, pidDB[q]}
  /\ ev # None /\ ev' = None /\ ev.kind = "exit" => pidDB'[ev.pid] = None

LEMMA SettlesInv ==
  ASSUME IInv, Settles, TypeOK', LinePairs'
  PROVE IInv'
<1>1. UNCHANGED <<proc, forks, queue, overrun>> /\ Queued' = Queued
  BY DEF Settles, Queued
<1>2. ev # None => ev \in Event /\ ev.pid \in Pid
  BY DEF IInv, TypeOK, Event
<1>3. InHand'
  BY <1>2 DEF IInv, InHand, Settles
<1>4. GensUsed'
  BY <1>1 DEF IInv, GensUsed, Settles, Exists
<1>5. ASSUME ~overrun PROVE Complete'
  <2>0. Complete
    BY <1>5 DEF IInv
  <2>1. NoStaleEntry'
    <3>1. ASSUME NEW p \in Pid, pidDB'[p] # None
          PROVE \/ Running(p) /\ proc[p].gen = pidDB'[p].start
                \/ \E i \in Queued : queue[i] = [kind |-> "exit", pid |-> p, gen |-> pidDB'[p].start]
                \/ ev' = [kind |-> "exit", pid |-> p, gen |-> pidDB'[p].start]
      <4>1. pidDB'[p] = pidDB[p] /\ pidDB[p] # None
        BY <3>1 DEF Settles
      <4>2. CASE ev = [kind |-> "exit", pid |-> p, gen |-> pidDB[p].start]
        <5>1. ev # None
          BY <4>1, <4>2, NoneIsNoData DEF IInv, TypeOK, PidEntry, Event
        <5>2. ev' = ev
          BY <3>1, <4>2, <5>1 DEF Settles
        <5> QED
          BY <4>1, <4>2, <5>2
      <4> QED
        BY <4>1, <4>2, <2>0, <1>5 DEF Complete, NoStaleEntry, ExitPending, Queued
    <3> QED
      BY <3>1, <1>1 DEF NoStaleEntry, ExitPending, Running, Exists, Queued
  <2>2. Ordered'
    BY <2>0, <1>1 DEF Complete, Ordered, Settles
  <2>3. NotNewer'
    BY <2>0, <1>1 DEF Complete, NotNewer, Exists, Settles
  <2>4. EntryOldest'
    BY <2>0, <1>1 DEF Complete, EntryOldest, Settles
  <2>5. Accounted'
    <3>1. \A i \in Queued : Lives(queue[i]) => Lives(queue[i])'
      BY <1>1 DEF Lives, Running, Exists
    <3>2. ev' = ev /\ Lives(ev) => Lives(ev)'
      BY <1>1 DEF Lives, Running, Exists
    <3> QED
      BY <3>1, <3>2, <2>0, <1>1 DEF Complete, Accounted, ExitOf, Settles
  <2> QED
    BY <2>1, <2>2, <2>3, <2>4, <2>5 DEF Complete
<1> QED
  BY <1>1, <1>3, <1>4, <1>5 DEF IInv

LEMMA RecvErrorInv == IInv /\ RecvError => IInv'
<1> SUFFICES ASSUME IInv, RecvError PROVE IInv'
  OBVIOUS
<1>1. TypeOK'
  BY DEF IInv, TypeOK, ProcTypeOK, RecvError
<1>2. LinePairs'
  BY DEF IInv, LinePairs, RecvError
<1>3. UNCHANGED <<proc, forks, queue, overrun>> /\ ev' = ev /\ pidDB' = pidDB
  BY DEF RecvError
<1>4. Settles
  BY <1>3 DEF Settles
<1> QED
  BY <1>1, <1>2, <1>4, SettlesInv

\* One call of pidDepth climbs to an existing pid, gives up, or finds a depth.
LEMMA DepthValue ==
  ASSUME TypeOK
  PROVE \/ pidDepth(cur) = Up /\ statPPID(cur) \in Pid
        \/ pidDepth(cur) = -1
        \/ pidDepth(cur) \in Nat
<1>1. cur \in Pid /\ proc \in [Pid -> Process \cup {None}]
      /\ pidDB \in [Pid -> PidEntry \cup {None}]
  BY DEF TypeOK, ProcTypeOK
<1>2. statPPID(cur) \in Pid \cup {0, -1}
  BY <1>1 DEF statPPID, Exists, Process
<1>3. CASE isWatchRoot(cur)
  BY <1>3 DEF pidDepth
<1>4. CASE ~isWatchRoot(cur) /\ statPPID(cur) <= 0
  <2>1. ~isWatchRoot(statPPID(cur)) /\ ~(statPPID(cur) > 0)
    BY <1>2, <1>4, PidsAreNats, WatchPIDsAssumption DEF isWatchRoot
  <2> QED
    BY <1>4, <2>1 DEF pidDepth
<1>5. CASE ~isWatchRoot(cur) /\ isWatchRoot(statPPID(cur)) /\ ~(statPPID(cur) <= 0)
  BY <1>5 DEF pidDepth
<1>6. CASE ~isWatchRoot(cur) /\ ~(statPPID(cur) <= 0) /\ ~isWatchRoot(statPPID(cur))
  <2>1. statPPID(cur) \in Pid /\ statPPID(cur) > 0
    BY <1>2, <1>6, PidsAreNats
  <2>2. pidDepth(cur) = IF pidDB[statPPID(cur)] # None THEN pidDB[statPPID(cur)].depth + 1 ELSE Up
    BY <1>6, <2>1 DEF pidDepth
  <2>3. pidDB[statPPID(cur)] # None => pidDB[statPPID(cur)].depth \in Nat
    BY <1>1, <2>1 DEF PidEntry
  <2> QED
    BY <2>1, <2>2, <2>3
<1> QED
  BY <1>3, <1>4, <1>5, <1>6

LEMMA DepthInv == IInv /\ Depth => IInv'
<1> SUFFICES ASSUME IInv, Depth PROVE IInv'
  OBVIOUS
<1>0. TypeOK /\ pc = "depth" /\ hops \in Nat
  BY DEF IInv, TypeOK, Depth
<1>1. UNCHANGED <<proc, forks, queue, overrun, pidDB, line>> /\ calm' \in BOOLEAN
  BY <1>0 DEF Depth, TypeOK
<1>2. ev # None /\ ev.kind = "exec" /\ ev \in Event
  BY <1>0 DEF TypeOK
<1>3. \/ pidDepth(cur) = Up /\ statPPID(cur) \in Pid
      \/ pidDepth(cur) = -1
      \/ pidDepth(cur) \in Nat
  BY <1>0, DepthValue
<1>4. \/ /\ pc' = "depth" /\ ev' = ev
         /\ cur' \in Pid /\ hops' \in Nat
      \/ /\ pc' = "recv" /\ ev' = None
         /\ cur' \in Pid /\ hops' \in Nat
      \/ /\ pc' = "store" /\ ev' = ev
         /\ cur' \in Pid /\ hops' \in Nat
  <2>1. \/ /\ pidDepth(cur) = Up
           /\ cur' = statPPID(cur) /\ hops' = hops + 1 /\ UNCHANGED <<pc, ev>>
        \/ pidDepth(cur) = -1 /\ Drop
        \/ /\ pidDepth(cur) >= 0
           /\ hops' = hops + pidDepth(cur) /\ pc' = "store" /\ UNCHANGED <<ev, cur>>
    BY DEF Depth, Climb
  <2>2. cur \in Pid /\ Up = -2
    BY <1>0 DEF TypeOK, Up
  <2>3. CASE pidDepth(cur) = Up /\ statPPID(cur) \in Pid
    BY <2>1, <2>2, <2>3, <1>0
  <2>4. CASE pidDepth(cur) = -1
    BY <2>1, <2>2, <2>4, InitPidAssumption DEF Drop
  <2>5. CASE pidDepth(cur) \in Nat
    BY <2>1, <2>2, <2>5, <1>0
  <2> QED
    BY <1>3, <2>3, <2>4, <2>5
<1>5. TypeOK'
  BY <1>0, <1>1, <1>2, <1>4 DEF TypeOK, ProcTypeOK
<1>6. LinePairs'
  BY <1>1 DEF IInv, LinePairs
<1>7. Settles
  BY <1>1, <1>2, <1>4 DEF Settles
<1> QED
  BY <1>5, <1>6, <1>7, SettlesInv

LEMMA PrintInv == IInv /\ printExec => IInv'
<1> SUFFICES ASSUME IInv, printExec PROVE IInv'
  OBVIOUS
<1>0. TypeOK /\ pc = "print"
  BY DEF IInv, printExec
<1>1. ev # None /\ ev.kind = "exec" /\ ev \in Event /\ ev.pid \in Pid /\ ev.gen \in Gen
  BY <1>0 DEF TypeOK, Event
<1>2. /\ UNCHANGED <<proc, forks, queue, overrun, pidDB, calm>>
      /\ pc' = "recv" /\ ev' = None /\ cur' = InitPid /\ hops' = 0
  BY DEF printExec, Drop
<1>3. /\ line' \in Line \cup {None}
      /\ line' = line \/ line'.kind = "exec"
  <2>1. CASE Exists(ev.pid)
    <3>1. line' = [kind |-> "exec", pid |-> ev.pid, gen |-> ev.gen,
                   entry |-> proc[ev.pid].gen, depth |-> hops]
      BY <2>1 DEF printExec
    <3>2. proc[ev.pid].gen \in Gen /\ hops \in Nat
      BY <2>1, <1>0, <1>1 DEF TypeOK, ProcTypeOK, Exists, Process
    <3> QED
      BY <3>1, <3>2, <1>1 DEF Line
  <2>2. CASE ~Exists(ev.pid)
    BY <2>2, <1>0 DEF printExec, TypeOK
  <2> QED
    BY <2>1, <2>2
<1>4. TypeOK'
  BY <1>0, <1>2, <1>3, InitPidAssumption DEF TypeOK, ProcTypeOK
<1>5. LinePairs'
  BY <1>3 DEF IInv, LinePairs
<1>6. Settles
  BY <1>1, <1>2 DEF Settles
<1> QED
  BY <1>4, <1>5, <1>6, SettlesInv

LEMMA handleExitInv == IInv /\ handleExit => IInv'
<1> SUFFICES ASSUME IInv, handleExit PROVE IInv'
  OBVIOUS
<1>0. TypeOK /\ pc = "exit" /\ InHand
  BY DEF IInv, handleExit
<1>1. ev # None /\ ev \in Event /\ ev.pid \in Pid /\ ev.gen \in Gen
  BY <1>0 DEF TypeOK, Event
<1>2. /\ UNCHANGED <<proc, forks, queue, overrun, calm>>
      /\ pidDB' = [pidDB EXCEPT ![ev.pid] = None]
      /\ pc' = "recv" /\ ev' = None /\ cur' = InitPid /\ hops' = 0
  BY DEF handleExit, Drop
<1>3. /\ line' \in Line \cup {None}
      /\ line' = line \/ line'.entry = line'.gen
  <2>1. CASE pidDB[ev.pid] # None /\ ShowExit
    <3>1. line' = [kind |-> "exited", pid |-> ev.pid, gen |-> ev.gen,
                   entry |-> pidDB[ev.pid].start, depth |-> pidDB[ev.pid].depth]
      BY <2>1 DEF handleExit
    <3>2. pidDB[ev.pid].start = ev.gen /\ pidDB[ev.pid].depth \in Nat
      BY <2>1, <1>0, <1>1 DEF InHand, TypeOK, PidEntry
    <3> QED
      BY <3>1, <3>2, <1>1 DEF Line
  <2>2. CASE ~(pidDB[ev.pid] # None /\ ShowExit)
    BY <2>2, <1>0 DEF handleExit, TypeOK
  <2> QED
    BY <2>1, <2>2
<1>4. TypeOK'
  <2>1. pidDB' \in [Pid -> PidEntry \cup {None}]
    BY <1>0, <1>2 DEF TypeOK
  <2> QED
    BY <1>0, <1>2, <1>3, <2>1, InitPidAssumption DEF TypeOK, ProcTypeOK
<1>5. LinePairs'
  BY <1>3 DEF IInv, LinePairs
<1>6. Settles
  <2>1. pidDB \in [Pid -> PidEntry \cup {None}]
    BY <1>0 DEF TypeOK
  <2> QED
    BY <1>1, <1>2, <2>1 DEF Settles
<1> QED
  BY <1>4, <1>5, <1>6, SettlesInv

LEMMA StoreInv == IInv /\ Store => IInv'
<1> SUFFICES ASSUME IInv, Store PROVE IInv'
  OBVIOUS
<1>0. TypeOK /\ pc = "store" /\ InHand
  BY DEF IInv, Store
<1>1. /\ ev # None /\ ev \in Event /\ ev.pid \in Pid /\ ev.gen \in Gen
      /\ ev.kind = "exec" /\ hops \in Nat
  BY <1>0 DEF TypeOK, Event
<1>2. /\ UNCHANGED <<proc, forks, queue, overrun, calm, ev, cur, hops>>
      /\ pc' = "print" /\ Queued' = Queued
  BY DEF Store, Queued
<1>3. PICK new \in PidEntry : pidDB' = [pidDB EXCEPT ![ev.pid] = new] /\ new.start = ev.gen
  <2>1. readFirstArg(ev.pid) \in Gen \cup {-1}
    BY <1>0, <1>1 DEF readFirstArg, Exists, TypeOK, ProcTypeOK, Process
  <2>2. [depth |-> hops, start |-> ev.gen, cmd |-> readFirstArg(ev.pid)] \in PidEntry
    BY <1>1, <2>1 DEF PidEntry
  <2> QED
    BY <2>2 DEF Store
<1>4. /\ pidDB' \in [Pid -> PidEntry \cup {None}]
      /\ pidDB'[ev.pid] = new
      /\ \A q \in Pid : q # ev.pid => pidDB'[q] = pidDB[q]
  BY <1>0, <1>1, <1>3 DEF TypeOK
<1>5. /\ line' \in Line \cup {None}
      /\ line' = line \/ line'.entry = line'.gen
  <2>1. CASE ShowExit /\ pidDB[ev.pid] # None /\ pidDB[ev.pid].cmd # -1
    <3>1. line' = [kind |-> "execed", pid |-> ev.pid, gen |-> ev.gen,
                   entry |-> pidDB[ev.pid].start, depth |-> pidDB[ev.pid].depth]
      BY <2>1 DEF Store
    <3>2. pidDB[ev.pid].start = ev.gen /\ pidDB[ev.pid].depth \in Nat
      BY <2>1, <1>0, <1>1 DEF InHand, TypeOK, PidEntry
    <3> QED
      BY <3>1, <3>2, <1>1 DEF Line
  <2>2. CASE ~(ShowExit /\ pidDB[ev.pid] # None /\ pidDB[ev.pid].cmd # -1)
    BY <2>2, <1>0 DEF Store, TypeOK
  <2> QED
    BY <2>1, <2>2
<1>6. TypeOK'
  BY <1>0, <1>1, <1>2, <1>4, <1>5 DEF TypeOK, ProcTypeOK
<1>7. LinePairs'
  BY <1>5 DEF IInv, LinePairs
<1>8. InHand'
  BY <1>2, <1>3, <1>4 DEF InHand
<1>9. GensUsed'
  BY <1>2 DEF IInv, GensUsed, Exists
<1>10. ASSUME ~overrun PROVE Complete'
  <2>0. Complete
    BY <1>10 DEF IInv
  <2>1. NoStaleEntry'
    <3>1. ASSUME NEW q \in Pid, pidDB'[q] # None
          PROVE \/ Running(q) /\ proc[q].gen = pidDB'[q].start
                \/ \E i \in Queued : queue[i] = [kind |-> "exit", pid |-> q, gen |-> pidDB'[q].start]
                \/ ev = [kind |-> "exit", pid |-> q, gen |-> pidDB'[q].start]
      <4>1. CASE q = ev.pid
        BY <4>1, <2>0, <1>1, <1>3, <1>4 DEF Complete, Accounted, Lives, ExitOf
      <4>2. CASE q # ev.pid
        BY <3>1, <4>2, <2>0, <1>4, <1>10 DEF Complete, NoStaleEntry, ExitPending, Queued
      <4> QED
        BY <4>1, <4>2
    <3> QED
      BY <3>1, <1>2 DEF NoStaleEntry, ExitPending, Running, Exists, Queued
  <2>2. Ordered'
    BY <2>0, <1>2 DEF Complete, Ordered
  <2>3. NotNewer'
    BY <2>0, <1>2 DEF Complete, NotNewer, Exists
  <2>4. EntryOldest'
    <3>1. ASSUME NEW q \in Pid, pidDB'[q] # None, NEW i \in Queued, queue[i].pid = q
          PROVE pidDB'[q].start <= queue[i].gen
      <4>1. CASE q = ev.pid
        BY <3>1, <4>1, <2>0, <1>1, <1>3, <1>4 DEF Complete, Ordered
      <4>2. CASE q # ev.pid
        BY <3>1, <4>2, <2>0, <1>4 DEF Complete, EntryOldest
      <4> QED
        BY <4>1, <4>2
    <3> QED
      BY <3>1, <1>2 DEF EntryOldest
  <2>5. Accounted'
    <3>1. \A i \in Queued : Lives(queue[i]) => Lives(queue[i])'
      BY <1>2 DEF Lives, Running, Exists
    <3>2. Lives(ev) => Lives(ev)'
      BY <1>2 DEF Lives, Running, Exists
    <3> QED
      BY <3>1, <3>2, <2>0, <1>2 DEF Complete, Accounted, ExitOf
  <2> QED
    BY <2>1, <2>2, <2>3, <2>4, <2>5 DEF Complete
<1> QED
  BY <1>2, <1>6, <1>7, <1>8, <1>9, <1>10 DEF IInv

\* The event received is the oldest one, and the others move up.
LEMMA Receiving ==
  ASSUME queue \in Seq(Event), queue # <<>>, ev' = Head(queue), queue' = Tail(queue)
  PROVE /\ queue' \in Seq(Event) /\ Len(queue') = Len(queue) - 1
        /\ Len(queue) \in Nat /\ 1 \in Queued
        /\ ev' = queue[1] /\ ev' \in Event
        /\ \A i \in Queued' : i \in Nat /\ i + 1 \in Queued /\ queue'[i] = queue[i + 1]
        /\ \A j \in Queued : j \in Nat /\ (j = 1 \/ (1 < j /\ j - 1 \in Queued' /\ queue'[j - 1] = queue[j]))
<1>1. /\ Head(queue) \in Event /\ Tail(queue) \in Seq(Event)
      /\ Len(Tail(queue)) = Len(queue) - 1
      /\ \A i \in 1 .. Len(Tail(queue)) : Tail(queue)[i] = queue[i + 1]
  BY HeadTailProperties
<1>2. Len(queue) \in Nat /\ Len(queue) # 0
  BY LenProperties, EmptySeq
<1>3. Head(queue) = queue[1]
  OBVIOUS
<1>4. Queued' = 1 .. (Len(queue) - 1) /\ Queued = 1 .. Len(queue)
  BY <1>1 DEF Queued
<1>5. \A i \in Queued' : i \in Nat /\ i + 1 \in Queued /\ queue'[i] = queue[i + 1]
  BY <1>1, <1>2, <1>4
<1>6. \A j \in Queued : j \in Nat /\ (j = 1 \/ (1 < j /\ j - 1 \in Queued'))
  BY <1>2, <1>4
<1>7. \A j \in Queued : 1 < j => queue'[j - 1] = queue[j]
  <2> SUFFICES ASSUME NEW j \in Queued, 1 < j PROVE queue'[j - 1] = queue[j]
    OBVIOUS
  <2>1. j \in Nat /\ j - 1 \in Queued' /\ (j - 1) + 1 = j
    BY <1>6
  <2> QED
    BY <1>5, <2>1
<1> QED
  BY <1>1, <1>2, <1>3, <1>4, <1>5, <1>6, <1>7

LEMMA RecvInv == IInv /\ Recv => IInv'
<1> SUFFICES ASSUME IInv, Recv PROVE IInv'
  OBVIOUS
<1>0. TypeOK /\ pc = "recv" /\ ev = None /\ ~overrun /\ Complete
  BY DEF IInv, TypeOK, Recv
<1>1. /\ UNCHANGED <<proc, forks, overrun, pidDB>>
      /\ line' = None /\ calm' = TRUE /\ hops' = 0 /\ cur' = ev'.pid
      /\ pc' = IF ev'.kind = "exec" THEN "depth" ELSE "exit"
  BY DEF Recv
<1>2. /\ queue' \in Seq(Event) /\ Len(queue') = Len(queue) - 1
      /\ Len(queue) \in Nat /\ 1 \in Queued
      /\ ev' = queue[1] /\ ev' \in Event
      /\ \A i \in Queued' : i \in Nat /\ i + 1 \in Queued /\ queue'[i] = queue[i + 1]
      /\ \A j \in Queued : j \in Nat /\ (j = 1 \/ (1 < j /\ j - 1 \in Queued' /\ queue'[j - 1] = queue[j]))
  BY Receiving DEF IInv, TypeOK, Recv
<1>3. PICK e \in Event : e = ev' /\ e = queue[1]
  BY <1>2
<1>4. e.kind \in {"exec", "exit"} /\ e.pid \in Pid /\ e.gen \in Int /\ e # None
  BY GenInt, NoneIsNoData DEF Event
<1>5. TypeOK'
  <2>1. Len(queue') <= QueueCap
    BY <1>0, <1>2, QueueCapAssumption DEF TypeOK
  <2>2. (pc' = "depth" /\ e.kind = "exec") \/ (pc' = "exit" /\ e.kind = "exit")
    BY <1>1, <1>3, <1>4
  <2>3. cur' \in Pid
    BY <1>1, <1>3, <1>4
  <2> QED
    BY <1>0, <1>1, <1>2, <1>3, <1>4, <2>1, <2>2, <2>3 DEF TypeOK, ProcTypeOK
<1>6. LinePairs'
  BY <1>1 DEF LinePairs
<1>7. InHand'
  <2> SUFFICES ASSUME pidDB[e.pid] # None PROVE pidDB[e.pid].start = e.gen
    BY <1>1, <1>3 DEF InHand
  <2>0. pidDB[e.pid].start \in Int
    BY <1>0, <1>4, GenInt DEF TypeOK, PidEntry
  <2>1. pidDB[e.pid].start <= e.gen
    BY <1>0, <1>2, <1>3, <1>4 DEF Complete, EntryOldest
  <2>2. CASE Running(e.pid) /\ proc[e.pid].gen = pidDB[e.pid].start
    BY <2>0, <2>1, <2>2, <1>0, <1>2, <1>3, <1>4 DEF Complete, NotNewer, Running
  <2>3. CASE \E i \in Queued : queue[i] = [kind |-> "exit", pid |-> e.pid, gen |-> pidDB[e.pid].start]
    <3>1. PICK i \in Queued : queue[i] = [kind |-> "exit", pid |-> e.pid, gen |-> pidDB[e.pid].start]
      BY <2>3
    <3>2. queue[i].pid = e.pid /\ queue[i].gen = pidDB[e.pid].start
      BY <3>1
    <3>3. CASE i = 1
      BY <3>2, <3>3, <1>3
    <3>4. CASE 1 < i
      <4>1. e.gen <= queue[i].gen
        BY <3>2, <3>4, <1>0, <1>2, <1>3 DEF Complete, Ordered
      <4> QED
        BY <4>1, <3>2, <2>0, <2>1, <1>4
    <3> QED
      BY <3>3, <3>4, <1>2
  <2>4. ev # [kind |-> "exit", pid |-> e.pid, gen |-> pidDB[e.pid].start]
    BY <1>0, <1>4, NoneIsNoData DEF TypeOK, PidEntry, Event
  <2> QED
    BY <2>2, <2>3, <2>4, <1>0, <1>4 DEF Complete, NoStaleEntry, ExitPending, Queued
<1>8. GensUsed'
  <2>1. \A i \in Queued' : queue'[i].gen <= forks
    BY <1>2 DEF IInv, GensUsed
  <2>2. e.gen <= forks
    BY <1>2, <1>3 DEF IInv, GensUsed
  <2> QED
    BY <2>1, <2>2, <1>1, <1>3 DEF IInv, GensUsed, Exists
<1>9. Complete'
  <2>1. NoStaleEntry'
    <3>1. ASSUME NEW q \in Pid, pidDB[q] # None
          PROVE \/ Running(q) /\ proc[q].gen = pidDB[q].start
                \/ \E i \in Queued' : queue'[i] = [kind |-> "exit", pid |-> q, gen |-> pidDB[q].start]
                \/ e = [kind |-> "exit", pid |-> q, gen |-> pidDB[q].start]
      <4>1. CASE \E i \in Queued : queue[i] = [kind |-> "exit", pid |-> q, gen |-> pidDB[q].start]
        <5>1. PICK i \in Queued : queue[i] = [kind |-> "exit", pid |-> q, gen |-> pidDB[q].start]
          BY <4>1
        <5> QED
          BY <5>1, <1>2, <1>3
      <4>2. ev # [kind |-> "exit", pid |-> q, gen |-> pidDB[q].start]
        BY <3>1, <1>0, NoneIsNoData DEF TypeOK, PidEntry, Event
      <4> QED
        BY <3>1, <4>1, <4>2, <1>0 DEF Complete, NoStaleEntry, ExitPending, Queued
    <3> QED
      BY <3>1, <1>1, <1>3 DEF NoStaleEntry, ExitPending, Running, Exists, Queued
  <2>2. Ordered'
    <3>1. ASSUME NEW i \in Queued', NEW j \in Queued', i < j, queue'[i].pid = queue'[j].pid
          PROVE queue'[i].gen <= queue'[j].gen
      <4>1. i + 1 \in Queued /\ j + 1 \in Queued /\ i + 1 < j + 1
            /\ queue'[i] = queue[i + 1] /\ queue'[j] = queue[j + 1]
        BY <3>1, <1>2
      <4> QED
        BY <3>1, <4>1, <1>0 DEF Complete, Ordered
    <3>2. ASSUME NEW j \in Queued', e.pid = queue'[j].pid
          PROVE e.gen <= queue'[j].gen
      <4>1. j + 1 \in Queued /\ 1 < j + 1 /\ queue'[j] = queue[j + 1]
        <5>1. j \in Queued' /\ Len(queue') \in Nat
          BY <3>2, <1>2, LenProperties
        <5>2. j >= 1
          BY <5>1 DEF Queued
        <5> QED
          BY <3>2, <1>2, <5>2
      <4> QED
        BY <3>2, <4>1, <1>0, <1>2, <1>3 DEF Complete, Ordered
    <3> QED
      BY <3>1, <3>2, <1>3 DEF Ordered
  <2>3. NotNewer'
    <3>1. \A i \in Queued : proc[queue[i].pid] # None => queue[i].gen <= proc[queue[i].pid].gen
      BY <1>0 DEF Complete, NotNewer, Exists
    <3>2. \A i \in Queued' : proc[queue'[i].pid] # None => queue'[i].gen <= proc[queue'[i].pid].gen
      BY <3>1, <1>2
    <3>3. proc[e.pid] # None => e.gen <= proc[e.pid].gen
      BY <3>1, <1>2, <1>3
    <3> QED
      BY <3>2, <3>3, <1>1, <1>3 DEF NotNewer, Exists
  <2>4. EntryOldest'
    BY <1>0, <1>1, <1>2 DEF Complete, EntryOldest
  <2>5. Accounted'
    <3>1. ASSUME NEW i \in Queued', queue'[i].kind = "exec"
          PROVE \/ Lives(queue[i + 1])
                \/ \E j \in Queued' : i < j /\ queue'[j] = ExitOf(queue'[i])
      <4>1. i \in Nat /\ i + 1 \in Queued /\ queue'[i] = queue[i + 1]
        BY <1>2
      <4>2. CASE \E j \in Queued : i + 1 < j /\ queue[j] = ExitOf(queue[i + 1])
        <5>1. PICK j \in Queued : i + 1 < j /\ queue[j] = ExitOf(queue[i + 1])
          BY <4>2
        <5>2. j - 1 \in Queued' /\ i < j - 1 /\ queue'[j - 1] = queue[j]
          BY <5>1, <4>1, <1>2
        <5> QED
          BY <5>1, <5>2, <4>1
      <4> QED
        BY <3>1, <4>1, <4>2, <1>0 DEF Complete, Accounted
    <3>2. ASSUME e.kind = "exec"
          PROVE Lives(e) \/ \E j \in Queued' : queue'[j] = ExitOf(e)
      <4>1. CASE \E j \in Queued : 1 < j /\ queue[j] = ExitOf(e)
        BY <4>1, <1>2
      <4> QED
        BY <3>2, <4>1, <1>0, <1>2, <1>3 DEF Complete, Accounted
    <3>3. \A i \in Queued' : Lives(queue[i + 1]) => Lives(queue[i])'
      BY <1>1, <1>2 DEF Lives, Running, Exists
    <3>4. Lives(e) => Lives(ev)'
      BY <1>1, <1>3 DEF Lives, Running, Exists
    <3> QED
      BY <3>1, <3>2, <3>3, <3>4, <1>3 DEF Accounted, ExitOf
  <2> QED
    BY <2>1, <2>2, <2>3, <2>4, <2>5 DEF Complete
<1> QED
  BY <1>5, <1>6, <1>7, <1>8, <1>9 DEF IInv

-----------------------------------------------------------------------------
(* The theorems.                                                           *)

LEMMA StepInv == IInv /\ [Next]_vars => IInv'
<1> SUFFICES ASSUME IInv, [Next]_vars PROVE IInv'
  OBVIOUS
<1>1. CASE Kernel
  BY <1>1, KernelForkInv, KernelExecInv, KernelExitInv, KernelReapInv DEF Kernel
<1>2. CASE Tracer
  BY <1>2, RecvInv, RecvErrorInv, DepthInv, StoreInv, PrintInv, handleExitInv DEF Tracer
<1>3. CASE UNCHANGED vars
  <2>1. UNCHANGED <<proc, forks, queue, overrun, calm, pc, ev, cur, hops, pidDB, line>>
    BY <1>3 DEF vars, tracer
  <2> QED
    BY <2>1 DEF IInv, TypeOK, ProcTypeOK, InHand, LinePairs, GensUsed, Complete, NoStaleEntry,
                ExitPending, Ordered, NotNewer, EntryOldest, Accounted, Lives, ExitOf,
                Running, Exists, Queued
<1> QED
  BY <1>1, <1>2, <1>3 DEF Next, Dead

\* The inductive invariant of the exec tracer: entries, the event in hand, the
\* queue and the process table agree about which process has a pid.
THEOREM ExecInvariant == Spec => []IInv
<1>1. Init => IInv
  BY InitInv
<1>2. IInv /\ [Next]_vars => IInv'
  BY StepInv
<1> QED
  BY <1>1, <1>2, PTL DEF Spec

\* Every variable of the exec tracer keeps its type: an event is in hand
\* exactly while handleExec or handleExit runs.
THEOREM TypeCorrect == Spec => []TypeOK
<1>1. IInv => TypeOK
  BY DEF IInv
<1> QED
  BY <1>1, ExecInvariant, PTL

\* While the socket loses no event, an entry of pidDB is about the process that
\* has the pid, or handleExit has its exit event still to come.
THEOREM EntriesCurrent == Spec => []NoStaleEntry
<1>1. IInv => NoStaleEntry
  BY DEF IInv, TypeOK, Complete, NoStaleEntry
<1> QED
  BY <1>1, ExecInvariant, PTL

\* An exited or execed line is always computed from an entry of the very
\* process it reports, whatever pids are used again and whatever is lost.
THEOREM LinesPaired == Spec => []LinePairs
<1>1. IInv => LinePairs
  BY DEF IInv
<1> QED
  BY <1>1, ExecInvariant, PTL

-----------------------------------------------------------------------------
(* What pidDepth finds in a process table that changes while it climbs.    *)

LEMMA TreeMoves ==
  ASSUME [Next]_vars
  PROVE TreeStep \/ UNCHANGED <<proc, forks>>
  BY DEF Next, Kernel, KernelFork, KernelExec, KernelExit, KernelReap, Tracer, Recv, RecvError,
         Depth, Store, printExec, handleExit, Dead, vars, TreeStep

LEMMA TreeStepInv == TypeOK /\ TreeOK /\ [Next]_vars => TreeOK'
  BY TreeMoves, TreePreserved, TreeUnchanged DEF TypeOK

\* One call of pidDepth, with the parent it reads.
LEMMA PidDepthCases ==
  ASSUME TypeOK, TreeOK
  PROVE \/ cur \in WatchPIDs /\ pidDepth(cur) = 0
        \/ cur \notin WatchPIDs /\ statPPID(cur) <= 0 /\ pidDepth(cur) = -1
        \/ \E a \in Pid :
             /\ cur \notin WatchPIDs /\ statPPID(cur) = a /\ a > 0
             /\ Exists(cur) /\ proc[cur].parent = a /\ Exists(a)
             /\ \/ a \in WatchPIDs /\ pidDepth(cur) = 0
                \/ /\ a \notin WatchPIDs /\ pidDB[a] # None
                   /\ pidDepth(cur) = pidDB[a].depth + 1 /\ pidDB[a].depth \in Nat
                \/ a \notin WatchPIDs /\ pidDB[a] = None /\ pidDepth(cur) = Up
<1>1. cur \in Pid /\ pidDB \in [Pid -> PidEntry \cup {None}] /\ ProcTypeOK
  BY DEF TypeOK
<1>2. statPPID(cur) \in Pid \cup {0, -1}
  BY <1>1 DEF statPPID, Exists, Process, ProcTypeOK
<1>3. CASE isWatchRoot(cur)
  BY <1>3 DEF pidDepth, isWatchRoot
<1>4. CASE ~isWatchRoot(cur) /\ statPPID(cur) <= 0
  <2>1. ~isWatchRoot(statPPID(cur)) /\ ~(statPPID(cur) > 0)
    BY <1>2, <1>4, PidsAreNats, WatchPIDsAssumption DEF isWatchRoot
  <2>2. pidDepth(cur) = -1
    BY <1>4, <2>1 DEF pidDepth
  <2> QED
    BY <1>4, <2>2 DEF isWatchRoot
<1>5. CASE ~isWatchRoot(cur) /\ ~(statPPID(cur) <= 0)
  <2>1. PICK a \in Pid : a = statPPID(cur) /\ a > 0
    BY <1>2, <1>5, PidsAreNats
  <2>2. Exists(cur) /\ proc[cur].parent = a
    BY <2>1 DEF statPPID
  <2>3. Exists(a)
    BY <1>1, <2>2, ParentOlder
  <2>4. CASE isWatchRoot(a)
    <3>1. pidDepth(cur) = 0
      BY <1>5, <2>1, <2>4 DEF pidDepth
    <3> QED
      BY <1>5, <2>1, <2>2, <2>3, <2>4, <3>1 DEF isWatchRoot
  <2>5. CASE ~isWatchRoot(a)
    <3>1. pidDepth(cur) = IF pidDB[a] # None THEN pidDB[a].depth + 1 ELSE Up
      BY <1>5, <2>1, <2>5 DEF pidDepth
    <3>2. pidDB[a] # None => pidDB[a].depth \in Nat
      BY <1>1 DEF PidEntry
    <3> QED
      BY <1>5, <2>1, <2>2, <2>3, <2>5, <3>1, <3>2 DEF isWatchRoot
  <2> QED
    BY <2>4, <2>5
<1> QED
  BY <1>3, <1>4, <1>5

\* One step of Depth, told by what pidDepth found.
LEMMA DepthOutcome ==
  ASSUME TypeOK, Depth
  PROVE /\ pc = "depth" /\ UNCHANGED <<proc, forks, queue, overrun, pidDB>>
        /\ pidDepth(cur) = Up =>
             pc' = "depth" /\ ev' = ev /\ cur' = statPPID(cur) /\ hops' = hops + 1 /\ calm' = calm
        /\ pidDepth(cur) = -1 => pc' = "recv"
        /\ pidDepth(cur) \in Nat =>
             pc' = "store" /\ ev' = ev /\ hops' = hops + pidDepth(cur)
<1>1. pc = "depth" /\ UNCHANGED <<proc, forks, queue, overrun, pidDB>>
  BY DEF Depth
<1>2. \/ /\ pidDepth(cur) = Up
         /\ cur' = statPPID(cur) /\ hops' = hops + 1 /\ UNCHANGED <<pc, ev>>
      \/ pidDepth(cur) = -1 /\ pc' = "recv"
      \/ /\ pidDepth(cur) >= 0
         /\ hops' = hops + pidDepth(cur) /\ pc' = "store" /\ UNCHANGED <<ev, cur>>
  BY DEF Depth, Climb, Drop
<1>3. calm' = (pc' = "depth" => calm) /\ calm \in BOOLEAN
  BY DEF Depth, TypeOK
<1> QED
  BY <1>1, <1>2, <1>3 DEF Up

LEMMA ClimbDescendsStep ==
  ASSUME TypeOK, TypeOK', TreeOK, ClimbDescends, [Next]_vars
  PROVE ClimbDescends' /\ [pc = "depth" /\ pc' = "recv" /\ calm => ~Descends(ev.pid)]_vars
<1>0. ProcTypeOK /\ cur \in Pid /\ (pc = "depth" => ev \in Event /\ ev.pid \in Pid)
  BY DEF TypeOK, Event
<1>1. CASE Depth
  <2>0. /\ pc = "depth" /\ UNCHANGED <<proc, forks>>
        /\ pidDepth(cur) = Up =>
             pc' = "depth" /\ ev' = ev /\ cur' = statPPID(cur) /\ calm' = calm
        /\ pidDepth(cur) = -1 => pc' = "recv"
        /\ pidDepth(cur) \in Nat => pc' = "store"
    BY <1>1, DepthOutcome
  <2>1. CASE cur \notin WatchPIDs /\ statPPID(cur) <= 0 /\ pidDepth(cur) = -1
    <3>1. ~Descends(cur)
      BY <1>0, <2>1, TopDescendsNot
    <3>2. calm => ~Descends(ev.pid)
      BY <2>0, <3>1 DEF ClimbDescends
    <3> QED
      BY <2>0, <2>1, <3>2 DEF ClimbDescends
  <2>2. ASSUME NEW a \in Pid, cur \notin WatchPIDs, statPPID(cur) = a, a > 0,
               Exists(cur), Exists(a), pidDepth(cur) = Up
        PROVE ClimbDescends'
    <3>1. Descends(cur) <=> Descends(a)
      BY <1>0, <2>2, ParentDescends
    <3>2. calm => Exists(ev.pid) /\ (Descends(ev.pid) => Descends(a))
      BY <2>0, <2>2, <3>1 DEF ClimbDescends
    <3>3. proc' = proc /\ ev' = ev /\ cur' = a /\ calm' = calm
      BY <2>0, <2>2
    <3> QED
      BY <2>2, <3>2, <3>3 DEF ClimbDescends, Exists, Descends, Lineage, Upward
  <2>3. pidDepth(cur) \in Nat => ClimbDescends' /\ pc' # "recv"
    BY <2>0 DEF ClimbDescends
  <2>4. pidDepth(cur) = Up => pc' # "recv"
    BY <2>0
  <2> QED
    BY <2>1, <2>2, <2>3, <2>4, PidDepthCases
<1>2. CASE KernelFork
  <2>1. UNCHANGED <<pc, ev, cur, calm>>
    BY <1>2 DEF KernelFork, tracer
  <2>2. PICK x \in Pid, c \in Pid : Fork(x, c)
    BY <1>2 DEF KernelFork
  <2>3. \A q \in Pid : Exists(q) => Exists(q)' /\ (Descends(q)' <=> Descends(q))
    BY <1>0, <2>2, ForkKeeps
  <2>4. pc = "depth" => (Exists(ev.pid) => Exists(ev.pid)' /\ (Descends(ev.pid)' <=> Descends(ev.pid)))
    <3> SUFFICES ASSUME pc = "depth", Exists(ev.pid)
                 PROVE Exists(ev.pid)' /\ (Descends(ev.pid)' <=> Descends(ev.pid))
      OBVIOUS
    <3>1. PICK q \in Pid : q = ev.pid
      BY <1>0
    <3>2. Exists(q) /\ q = ev'.pid
      BY <2>1, <3>1
    <3> QED
      BY <2>3, <3>1, <3>2 DEF Exists, Descends
  <2>5. Exists(cur) => Exists(cur)' /\ (Descends(cur)' <=> Descends(cur))
    <3> SUFFICES ASSUME Exists(cur)
                 PROVE Exists(cur)' /\ (Descends(cur)' <=> Descends(cur))
      OBVIOUS
    <3>1. PICK q \in Pid : q = cur
      BY <1>0
    <3>2. Exists(q) /\ q = cur'
      BY <2>1, <3>1
    <3> QED
      BY <2>3, <3>1, <3>2 DEF Exists, Descends
  <2> QED
    BY <2>1, <2>4, <2>5 DEF ClimbDescends
<1>3. CASE KernelExit \/ KernelReap
  <2>1. pc' = pc /\ calm' = (pc # "depth" /\ calm)
    BY <1>3 DEF KernelExit, KernelReap, tracer
  <2> QED
    BY <2>1 DEF ClimbDescends
<1>4. CASE UNCHANGED <<proc, pc, ev, cur, calm>>
  BY <1>4 DEF ClimbDescends, Exists, Descends, Lineage, Upward
<1>5. CASE Recv
  BY <1>5 DEF Recv, ClimbDescends
<1>6. CASE RecvError \/ Store \/ printExec \/ handleExit
  BY <1>6 DEF RecvError, Store, printExec, handleExit, Drop, ClimbDescends
<1>7. CASE KernelExec \/ Dead \/ UNCHANGED vars
  BY <1>4, <1>7 DEF KernelExec, Dead, vars, tracer
<1> QED
  BY <1>1, <1>2, <1>3, <1>5, <1>6, <1>7 DEF Next, Kernel, Tracer

LEMMA ClimbDescendsInit == Init => TreeOK /\ ClimbDescends
  BY TreeInit DEF Init, ClimbDescends

\* The process table keeps its shape while the tracer runs: pid 1 runs, and every other
\* process has a parent that runs and is pid 1 or started before it.
THEOREM TreeInvariant == Spec => []TreeOK
<1>1. TypeOK /\ TreeOK /\ [Next]_vars => TreeOK'
  BY TreeStepInv
<1> QED
  BY <1>1, ClimbDescendsInit, TypeCorrect, PTL DEF Spec

\* handleExec drops the exec of a process below a watched root only if a process
\* exited or was reaped while pidDepth read /proc.
THEOREM NoDescendantDropped == Spec => DescendantsTraced
<1>1. TypeOK /\ TypeOK' /\ TreeOK /\ ClimbDescends /\ [Next]_vars => ClimbDescends'
  BY ClimbDescendsStep
<1>2. Spec => []ClimbDescends
  BY <1>1, ClimbDescendsInit, TypeCorrect, TreeInvariant, PTL DEF Spec
<1>3. TypeOK /\ TypeOK' /\ TreeOK /\ ClimbDescends /\ [Next]_vars
        => [pc = "depth" /\ pc' = "recv" /\ calm => ~Descends(ev.pid)]_vars
  BY ClimbDescendsStep
<1> QED
  BY <1>2, <1>3, TypeCorrect, TreeInvariant, PTL DEF Spec, DescendantsTraced

-----------------------------------------------------------------------------
(* Depths.                                                                 *)

\* What a queued event is.
LEMMA QueuedEvent ==
  ASSUME TypeOK, NEW i \in Queued
  PROVE queue[i] \in Event /\ queue[i].pid \in Pid /\ queue[i].gen \in Int
<1>1. i \in 1 .. Len(queue) /\ queue \in Seq(Event)
  BY DEF Queued, TypeOK
<1>2. queue[i] \in Event
  BY <1>1
<1> QED
  BY <1>2, GenInt DEF Event

\* The order of the queue and the age of processes: kept when no process starts and
\* nothing is queued ...
LEMMA OlderKept ==
  ASSUME TypeOK, OlderFirst, queue' = queue, ev' = ev \/ ev' = None,
         \A q \in Pid : Exists(q)' => Exists(q) /\ proc'[q].gen = proc[q].gen
  PROVE OlderFirst'
<1>1. \A i \in Queued : queue[i].pid \in Pid
  BY QueuedEvent
<1> QED
  BY <1>1 DEF OlderFirst, Queued, Exists

\* ... when an exec event is, or the exit event of the process that has the pid ...
LEMMA OlderAppend ==
  ASSUME TypeOK, OlderFirst, NEW e \in Event, queue' = Append(queue, e), ev' = ev,
         \A q \in Pid : Exists(q)' => Exists(q) /\ proc'[q].gen = proc[q].gen,
         e.kind = "exit" => proc[e.pid].gen = e.gen
  PROVE OlderFirst'
<1>1. PICK n \in Nat :
          /\ \A i \in Queued : queue'[i] = queue[i] /\ i \in Int /\ i < n
          /\ queue'[n] = e
          /\ Queued' = Queued \cup {n}
          /\ n \notin Queued
  BY Appending DEF TypeOK
<1>2. e.pid \in Pid /\ \A i \in Queued : queue[i].pid \in Pid
  BY QueuedEvent DEF Event
<1> SUFFICES ASSUME NEW j \in Queued', queue'[j].kind = "exit", Exists(queue[j].pid)',
                    proc'[queue'[j].pid].gen # queue'[j].gen
             PROVE /\ \A i \in Queued' : i < j => queue'[i].gen < proc'[queue'[j].pid].gen
                   /\ ev' # None => ev'.gen < proc'[queue'[j].pid].gen
  BY DEF OlderFirst, Exists
<1>3. CASE j = n
  BY <1>1, <1>2, <1>3 DEF Exists
<1>4. CASE j \in Queued
  <2>1. PICK q \in Pid : q = queue[j].pid /\ queue'[j] = queue[j]
    BY <1>1, <1>2, <1>4
  <2>2. Exists(q) /\ proc'[q].gen = proc[q].gen
    BY <2>1 DEF Exists
  <2>3. /\ \A i \in Queued : i < j => queue[i].gen < proc[q].gen
        /\ ev # None => ev.gen < proc[q].gen
    BY <1>4, <2>1, <2>2 DEF OlderFirst
  <2>4. ASSUME NEW i \in Queued', i < j PROVE i \in Queued /\ queue'[i] = queue[i]
    <3>1. j \in Int /\ j < n
      BY <1>1, <1>4
    <3>2. i # n
      BY <2>4, <3>1
    <3> QED
      BY <1>1, <3>2
  <2> QED
    BY <2>1, <2>2, <2>3, <2>4
<1> QED
  BY <1>1, <1>3, <1>4

\* ... when a process starts, which is younger than everything known ...
LEMMA OlderFork ==
  ASSUME TypeOK, GensUsed, OlderFirst, UNCHANGED <<queue, ev>>,
         NEW x \in Pid, NEW c \in Pid, Fork(x, c)
  PROVE OlderFirst'
<1>1. /\ proc'[c].gen = forks + 1 /\ forks \in Nat
      /\ \A q \in Pid \ {c} : proc'[q] = proc[q]
  BY ForkTable DEF TypeOK
<1>2. /\ \A i \in Queued : /\ queue[i] \in Event /\ queue[i].pid \in Pid
                           /\ queue[i].gen \in Int /\ queue[i].gen <= forks
      /\ ev # None => ev \in Event /\ ev.gen \in Int /\ ev.gen <= forks
  <2>1. ev # None => ev \in Event /\ ev.gen \in Gen
    BY DEF TypeOK, Event
  <2> QED
    BY <2>1, GenInt, QueuedEvent DEF GensUsed
<1> SUFFICES ASSUME NEW j \in Queued, queue[j].kind = "exit", proc'[queue[j].pid] # None,
                    proc'[queue[j].pid].gen # queue[j].gen
             PROVE /\ \A i \in Queued : i < j => queue[i].gen < proc'[queue[j].pid].gen
                   /\ ev # None => ev.gen < proc'[queue[j].pid].gen
  BY DEF OlderFirst, Exists, Queued
<1>3. PICK q \in Pid : q = queue[j].pid
  BY <1>2
<1>4. CASE q = c
  BY <1>1, <1>2, <1>3, <1>4
<1>5. CASE q # c
  BY <1>1, <1>3, <1>5 DEF OlderFirst, Exists
<1> QED
  BY <1>3, <1>4, <1>5

\* ... and when an event is received.
LEMMA OlderRecv ==
  ASSUME TypeOK, OlderFirst, queue # <<>>, ev' = Head(queue), queue' = Tail(queue), proc' = proc
  PROVE OlderFirst'
<1>1. /\ 1 \in Queued /\ ev' = queue[1]
      /\ \A i \in Queued' : i \in Nat /\ i + 1 \in Queued /\ queue'[i] = queue[i + 1]
      /\ \A i \in Queued' : i >= 1
  BY Receiving DEF TypeOK, Queued
<1> SUFFICES ASSUME NEW j \in Queued', queue'[j].kind = "exit", proc[queue'[j].pid] # None,
                    proc[queue'[j].pid].gen # queue'[j].gen
             PROVE /\ \A i \in Queued' : i < j => queue'[i].gen < proc[queue'[j].pid].gen
                   /\ ev'.gen < proc[queue'[j].pid].gen
  BY DEF OlderFirst, Exists
<1>2. queue'[j] = queue[j + 1] /\ j + 1 \in Queued /\ j \in Nat /\ 1 < j + 1
  <2>1. j \in Nat /\ j >= 1
    BY <1>1
  <2>2. 1 < j + 1
    BY <2>1
  <2>3. queue'[j] = queue[j + 1] /\ j + 1 \in Queued
    BY <1>1
  <2> QED
    BY <2>1, <2>2, <2>3
<1>3. \A i \in Queued : i < j + 1 => queue[i].gen < proc[queue[j + 1].pid].gen
  BY <1>2 DEF OlderFirst, Exists
<1>4. ASSUME NEW i \in Queued', i < j
      PROVE i + 1 \in Queued /\ i + 1 < j + 1 /\ queue'[i] = queue[i + 1]
  <2>1. i \in Nat /\ i + 1 \in Queued /\ queue'[i] = queue[i + 1]
    BY <1>1
  <2>2. j \in Nat
    BY <1>2
  <2>3. i + 1 < j + 1
    BY <1>4, <2>1, <2>2
  <2> QED
    BY <2>1, <2>3
<1> QED
  BY <1>1, <1>2, <1>3, <1>4

\* Every step of the tracer and the kernel keeps it.
LEMMA OlderStep ==
  ASSUME IInv, TreeOK, OlderFirst, [Next]_vars, ~overrun, ~overrun'
  PROVE OlderFirst'
<1>0. TypeOK /\ ProcTypeOK /\ GensUsed
  BY DEF IInv, TypeOK
<1>1. CASE KernelFork
  <2>1. PICK x \in Pid, c \in Pid : Fork(x, c)
    BY <1>1 DEF KernelFork
  <2>2. UNCHANGED <<queue, ev>>
    BY <1>1 DEF KernelFork, tracer
  <2> QED
    BY <1>0, <2>1, <2>2, OlderFork
<1>2. CASE KernelExec
  <2>1. PICK p \in Pid : Running(p) /\ Send("exec", p)
    BY <1>2 DEF KernelExec
  <2>2. PICK e \in Event : /\ e = [kind |-> "exec", pid |-> p, gen |-> proc[p].gen]
                           /\ queue' = Append(queue, e)
    BY <1>0, <2>1, Sending DEF Running
  <2>3. UNCHANGED <<proc, ev>>
    BY <1>2 DEF KernelExec, tracer
  <2>4. \A q \in Pid : Exists(q)' => Exists(q) /\ proc'[q].gen = proc[q].gen
    BY <2>3 DEF Exists
  <2>5. e.kind # "exit"
    BY <2>2
  <2> QED
    BY <1>0, <2>2, <2>3, <2>4, <2>5, OlderAppend
<1>3. CASE KernelExit
  <2>1. PICK p \in Pid : Exit(p) /\ Send("exit", p)
    BY <1>3 DEF KernelExit
  <2>2. /\ Running(p)
        /\ \A q \in Pid : /\ Exists(q)' <=> Exists(q)
                          /\ Exists(q) => proc'[q].gen = proc[q].gen
    BY <1>0, <2>1, ExitTable
  <2>3. PICK e \in Event : /\ e = [kind |-> "exit", pid |-> p, gen |-> proc[p].gen]
                           /\ queue' = Append(queue, e)
    BY <1>0, <2>1, <2>2, Sending DEF Running
  <2>4. ev' = ev
    BY <1>3 DEF KernelExit, tracer
  <2>5. proc[e.pid].gen = e.gen
    BY <2>3
  <2> QED
    BY <1>0, <2>2, <2>3, <2>4, <2>5, OlderAppend
<1>4. CASE KernelReap
  <2>1. PICK x \in Pid : Reap(x)
    BY <1>4 DEF KernelReap
  <2>2. ~Exists(x)' /\ \A q \in Pid \ {x} : proc'[q] = proc[q]
    BY <1>0, <2>1, ReapTable
  <2>3. \A q \in Pid : Exists(q)' => Exists(q) /\ proc'[q].gen = proc[q].gen
    BY <2>2 DEF Exists
  <2>4. UNCHANGED <<queue, ev>>
    BY <1>4 DEF KernelReap, tracer
  <2> QED
    BY <1>0, <2>3, <2>4, OlderKept
<1>5. CASE Recv
  BY <1>0, <1>5, OlderRecv DEF Recv
<1>6. CASE /\ UNCHANGED <<proc, queue>> /\ (ev' = ev \/ ev' = None)
  <2>1. \A q \in Pid : Exists(q)' => Exists(q) /\ proc'[q].gen = proc[q].gen
    BY <1>6 DEF Exists
  <2> QED
    BY <1>0, <1>6, <2>1, OlderKept
<1>7. CASE RecvError \/ Depth \/ Store \/ printExec \/ handleExit \/ Dead \/ UNCHANGED vars
  BY <1>6, <1>7 DEF RecvError, Depth, Climb, Drop, Store, printExec, handleExit, Dead, vars, tracer
<1> QED
  BY <1>1, <1>2, <1>3, <1>4, <1>5, <1>7 DEF Next, Kernel, Tracer

\* An entry is about a process that has started.
LEMMA EntryStarted ==
  ASSUME IInv, ~overrun, NEW p \in Pid, pidDB[p] # None
  PROVE pidDB[p].start \in Int /\ pidDB[p].start <= forks
<1>1. pidDB[p].start \in Int
  BY GenInt DEF IInv, TypeOK, PidEntry
<1>2. CASE Running(p) /\ proc[p].gen = pidDB[p].start
  BY <1>1, <1>2 DEF IInv, GensUsed, Running
<1>3. CASE ExitPending(p, pidDB[p].start)
  <2>1. PICK g : g = pidDB[p].start
    OBVIOUS
  <2>2. \/ \E i \in Queued : queue[i] = [kind |-> "exit", pid |-> p, gen |-> g]
        \/ ev = [kind |-> "exit", pid |-> p, gen |-> g]
    BY <1>3, <2>1 DEF ExitPending, Queued
  <2>3. CASE \E i \in Queued : queue[i] = [kind |-> "exit", pid |-> p, gen |-> g]
    <3>1. PICK i \in Queued : queue[i] = [kind |-> "exit", pid |-> p, gen |-> g]
      BY <2>3
    <3>2. queue[i].gen = g
      BY <3>1
    <3> QED
      BY <1>1, <2>1, <3>2 DEF IInv, GensUsed
  <2>4. CASE ev = [kind |-> "exit", pid |-> p, gen |-> g]
    <3>1. ev # None
      BY <2>4, <2>1, <1>1, NoneIsNoData DEF Event, IInv, TypeOK, PidEntry
    <3>2. ev.gen = g
      BY <2>4
    <3> QED
      BY <1>1, <2>1, <3>1, <3>2 DEF IInv, GensUsed
  <2> QED
    BY <2>2, <2>3, <2>4
<1> QED
  BY <1>2, <1>3 DEF IInv, Complete, NoStaleEntry

\* While an exec event is in hand, the entry of a process that is no younger is its
\* own, not one of an earlier process with the same pid.
LEMMA EntryOfAncestor ==
  ASSUME IInv, OlderFirst, ~overrun, ev # None, ev.kind = "exec",
         NEW a \in Pid, Exists(a), proc[a].gen <= ev.gen, pidDB[a] # None
  PROVE pidDB[a].start = proc[a].gen
<1>1. ev.gen \in Int /\ proc[a].gen \in Int
  <2>1. ev.gen \in Gen /\ proc[a].gen \in Gen
    BY DEF IInv, TypeOK, Event, ProcTypeOK, Process, Exists
  <2> QED
    BY <2>1, GenInt
<1>2. CASE ExitPending(a, pidDB[a].start)
  <2>1. PICK g : g = pidDB[a].start
    OBVIOUS
  <2>2. \E j \in Queued : queue[j] = [kind |-> "exit", pid |-> a, gen |-> g]
    BY <1>2, <2>1 DEF ExitPending, Queued
  <2>3. PICK j \in Queued : queue[j] = [kind |-> "exit", pid |-> a, gen |-> g]
    BY <2>2
  <2>4. queue[j].kind = "exit" /\ queue[j].pid = a /\ queue[j].gen = g
    BY <2>3
  <2>5. CASE proc[a].gen # g
    <3>1. ev.gen < proc[a].gen
      BY <2>4, <2>5 DEF OlderFirst
    <3> QED
      BY <1>1, <3>1
  <2> QED
    BY <2>1, <2>5
<1> QED
  BY <1>2 DEF IInv, Complete, NoStaleEntry

\* Depths depend on the lineage alone.
LEMMA SameBelow ==
  ASSUME NEW q, Lineage(proc', q) = Lineage(proc, q)
  PROVE Below(q)' = Below(q) /\ TreeDepth(q)' = TreeDepth(q)
<1>1. Below(q)' = Below(q)
  BY DEF Below
<1> QED
  BY <1>1 DEF TreeDepth

\* A step of the kernel keeps the count of pidDepth and the depths in pidDB.
LEMMA DepthKernel ==
  ASSUME IInv, TreeOK, ClimbDepth, DepthExact, ~overrun, TreeStep, UNCHANGED tracer
  PROVE ClimbDepth' /\ DepthExact'
<1>0. ProcTypeOK /\ UNCHANGED <<pc, ev, cur, hops, pidDB>> /\ cur \in Pid
  BY DEF IInv, TypeOK, tracer
<1>1. ASSUME HandRooted'
      PROVE /\ HandRooted /\ ev.pid \in Pid
            /\ \A q \in Lineage(proc, ev.pid) : /\ Exists(q) /\ Exists(q)'
                                                /\ Lineage(proc', q) = Lineage(proc, q)
  <2>1. PICK h \in Pid : h = ev.pid
    BY <1>0, <1>1 DEF IInv, TypeOK, Event, HandRooted
  <2>2. /\ ev # None /\ Exists(h)' /\ proc'[h].gen = ev.gen /\ Rooted(h)'
    BY <1>0, <1>1, <2>1 DEF HandRooted, Rooted, Descends, Below, Exists
  <2>3. proc'[h].gen <= forks
    BY <2>2 DEF IInv, GensUsed
  <2>4. /\ Exists(h) /\ proc'[h].gen = proc[h].gen /\ Rooted(h)
        /\ \A q \in Lineage(proc, h) : /\ Exists(q) /\ Exists(q)'
                                       /\ Lineage(proc', q) = Lineage(proc, q)
    BY <1>0, <2>2, <2>3, RootedKept
  <2> QED
    BY <2>1, <2>2, <2>4 DEF HandRooted
<1>2. ASSUME pc = "depth", HandRooted'
      PROVE /\ cur \in Lineage(proc, ev.pid)' /\ Descends(cur)'
            /\ Cardinality(Below(ev.pid))' = hops + Cardinality(Below(cur))'
            /\ IF hops = 0 THEN cur = ev.pid ELSE cur \notin WatchPIDs
  <2>1. PICK h \in Pid, c \in Pid : h = ev.pid /\ c = cur
    BY <1>0, <1>1, <1>2
  <2>2. /\ c \in Lineage(proc, h) /\ Descends(c)
        /\ Cardinality(Below(h)) = hops + Cardinality(Below(c))
        /\ IF hops = 0 THEN c = h ELSE c \notin WatchPIDs
    BY <1>1, <1>2, <2>1 DEF ClimbDepth
  <2>3. /\ Lineage(proc', h) = Lineage(proc, h) /\ Lineage(proc', c) = Lineage(proc, c)
        /\ Exists(c)'
    BY <1>1, <1>2, <2>1, <2>2, LineageSelf
  <2>4. Below(h)' = Below(h) /\ Below(c)' = Below(c)
    BY <2>3, SameBelow
  <2>5. Descends(c)'
    BY <2>2, <2>3 DEF Descends
  <2> QED
    BY <1>0, <2>1, <2>2, <2>3, <2>4, <2>5 DEF Below, Descends, Exists
<1>3. ASSUME pc = "store", HandRooted'
      PROVE hops = TreeDepth(ev.pid)'
  <2>1. PICK h \in Pid : h = ev.pid
    BY <1>1, <1>3
  <2>2. hops = TreeDepth(h)
    BY <1>1, <1>3, <2>1 DEF ClimbDepth
  <2>3. TreeDepth(h)' = TreeDepth(h)
    BY <1>1, <1>3, <2>1, LineageSelf, SameBelow
  <2> QED
    BY <1>0, <2>1, <2>2, <2>3 DEF TreeDepth, Below
<1>4. ClimbDepth'
  BY <1>0, <1>2, <1>3 DEF ClimbDepth
<1>5. ASSUME NEW p \in Pid, pidDB[p] # None, Exists(p)', proc'[p].gen = pidDB[p].start, Rooted(p)'
      PROVE pidDB[p].depth = TreeDepth(p)'
  <2>1. proc'[p].gen <= forks
    BY <1>5, EntryStarted
  <2>2. /\ Exists(p) /\ proc'[p].gen = proc[p].gen /\ Rooted(p)
        /\ Lineage(proc', p) = Lineage(proc, p)
    BY <1>0, <1>5, <2>1, RootedKept, LineageSelf
  <2> QED
    BY <1>5, <2>2, SameBelow DEF DepthExact
<1> QED
  BY <1>0, <1>4, <1>5 DEF DepthExact

\* One call of pidDepth: what it returns, or leaves to the parent's call, is what is
\* missing of the depth.
LEMMA DepthCounts ==
  ASSUME IInv, TreeOK, OlderFirst, ClimbDepth, DepthExact, ~overrun, pc = "depth", HandRooted,
         NEW h \in Pid, h = ev.pid
  PROVE /\ pidDepth(cur) # -1
        /\ pidDepth(cur) \in Nat => hops + pidDepth(cur) = TreeDepth(h)
        /\ pidDepth(cur) = Up =>
             \E a \in Pid \ WatchPIDs :
               /\ a = statPPID(cur) /\ a \in Lineage(proc, h) /\ Descends(a)
               /\ Cardinality(Below(h)) = hops + 1 + Cardinality(Below(a))
<1> USE DEF Up
<1>0. /\ TypeOK /\ ProcTypeOK /\ cur \in Pid /\ hops \in Nat
      /\ ev # None /\ ev.kind = "exec" /\ Exists(h) /\ proc[h].gen = ev.gen /\ Rooted(h)
  BY DEF IInv, TypeOK, HandRooted
<1>1. PICK c \in Pid : c = cur
  BY <1>0
<1>2. /\ c \in Lineage(proc, h) /\ Descends(c)
      /\ Cardinality(Below(h)) = hops + Cardinality(Below(c))
      /\ IF hops = 0 THEN c = h ELSE c \notin WatchPIDs
  BY <1>1 DEF ClimbDepth
<1>3. Cardinality(Below(h)) \in Nat /\ Cardinality(Below(c)) \in Nat
  BY BelowFinite
<1>4. CASE c \in WatchPIDs /\ pidDepth(c) = 0
  <2>1. hops = 0 /\ c = h
    BY <1>2, <1>4
  <2>2. TreeDepth(h) = 0
    BY <1>0, <1>4, <2>1, BelowRoot
  <2> QED
    BY <1>1, <1>4, <2>1, <2>2
<1>5. CASE c \notin WatchPIDs /\ statPPID(c) <= 0 /\ pidDepth(c) = -1
  BY <1>0, <1>2, <1>5, TopDescendsNot
<1>6. ASSUME NEW a \in Pid, c \notin WatchPIDs, statPPID(c) = a, a > 0,
             Exists(c), proc[c].parent = a, Exists(a)
      PROVE /\ h \notin WatchPIDs /\ TreeDepth(h) = Cardinality(Below(h)) - 1
            /\ Cardinality(Below(a)) \in Nat
            /\ Cardinality(Below(h)) = hops + 1 + Cardinality(Below(a))
            /\ a \in Lineage(proc, h) /\ Descends(a)
  <2>1. /\ Cardinality(Below(c)) = Cardinality(Below(a)) + 1
        /\ Lineage(proc, c) = {c} \cup Lineage(proc, a)
    BY <1>0, <1>6, BelowParent
  <2>2. Cardinality(Below(a)) \in Nat
    BY BelowFinite
  <2>3. Cardinality(Below(h)) = hops + 1 + Cardinality(Below(a))
    BY <1>0, <1>2, <1>3, <2>1, <2>2
  <2>4. h \notin WatchPIDs
    <3>1. CASE h \in WatchPIDs
      <4>1. Cardinality(Below(h)) = 0
        BY <1>0, <3>1, BelowRoot
      <4> QED
        BY <1>0, <2>2, <2>3, <4>1
    <3> QED
      BY <3>1
  <2>5. a \in Lineage(proc, h)
    <3>1. Lineage(proc, c) \subseteq Lineage(proc, h)
      BY <1>0, <1>2, LineageWithin DEF ProcTypeOK
    <3> QED
      BY <2>1, <3>1, LineageSelf
  <2>6. Descends(a)
    BY <1>0, <1>2, <1>6, ParentDescends
  <2> QED
    BY <2>2, <2>3, <2>4, <2>5, <2>6, DepthIsBelow
<1>7. CASE \E a \in Pid :
             /\ c \notin WatchPIDs /\ statPPID(c) = a /\ a > 0
             /\ Exists(c) /\ proc[c].parent = a /\ Exists(a)
             /\ \/ a \in WatchPIDs /\ pidDepth(c) = 0
                \/ /\ a \notin WatchPIDs /\ pidDB[a] # None
                   /\ pidDepth(c) = pidDB[a].depth + 1 /\ pidDB[a].depth \in Nat
                \/ a \notin WatchPIDs /\ pidDB[a] = None /\ pidDepth(c) = Up
  <2>1. PICK a \in Pid :
             /\ c \notin WatchPIDs /\ statPPID(c) = a /\ a > 0
             /\ Exists(c) /\ proc[c].parent = a /\ Exists(a)
             /\ \/ a \in WatchPIDs /\ pidDepth(c) = 0
                \/ /\ a \notin WatchPIDs /\ pidDB[a] # None
                   /\ pidDepth(c) = pidDB[a].depth + 1 /\ pidDB[a].depth \in Nat
                \/ a \notin WatchPIDs /\ pidDB[a] = None /\ pidDepth(c) = Up
    BY <1>7
  <2>2. /\ h \notin WatchPIDs /\ TreeDepth(h) = Cardinality(Below(h)) - 1
        /\ Cardinality(Below(a)) \in Nat
        /\ Cardinality(Below(h)) = hops + 1 + Cardinality(Below(a))
        /\ a \in Lineage(proc, h) /\ Descends(a)
    BY <1>6, <2>1
  <2>3. CASE a \in WatchPIDs /\ pidDepth(c) = 0
    <3>1. Cardinality(Below(a)) = 0
      BY <1>0, <2>3, BelowRoot
    <3>2. hops + 0 = TreeDepth(h)
      BY <1>0, <1>3, <2>2, <3>1
    <3> QED
      BY <1>1, <2>3, <3>2
  <2>4. CASE /\ a \notin WatchPIDs /\ pidDB[a] # None
             /\ pidDepth(c) = pidDB[a].depth + 1 /\ pidDB[a].depth \in Nat
    <3>1. proc[a].gen <= ev.gen
      BY <1>0, <2>2, LineageOlder
    <3>2. pidDB[a].start = proc[a].gen
      BY <1>0, <2>1, <2>4, <3>1, EntryOfAncestor
    <3>3. Rooted(a)
      <4>1. Lineage(proc, a) \subseteq Lineage(proc, h)
        BY <1>0, <2>2, LineageWithin DEF ProcTypeOK
      <4> QED
        BY <1>0, <2>2, <4>1 DEF Rooted, Below
    <3>4. pidDB[a].depth = TreeDepth(a)
      BY <2>1, <2>4, <3>2, <3>3 DEF DepthExact
    <3>5. TreeDepth(a) = Cardinality(Below(a)) - 1
      BY <2>4, DepthIsBelow
    <3>6. hops + (pidDB[a].depth + 1) = TreeDepth(h)
      BY <1>0, <1>3, <2>2, <3>4, <3>5
    <3>7. pidDepth(c) # Up /\ pidDepth(c) # -1
      BY <2>4
    <3> QED
      BY <1>1, <2>4, <3>6, <3>7
  <2>5. CASE a \notin WatchPIDs /\ pidDB[a] = None /\ pidDepth(c) = Up
    BY <1>1, <2>1, <2>2, <2>5
  <2> QED
    BY <2>1, <2>3, <2>4, <2>5
<1> QED
  BY <1>0, <1>1, <1>4, <1>5, <1>7, PidDepthCases

LEMMA DepthClimbs ==
  ASSUME IInv, TreeOK, OlderFirst, ClimbDepth, DepthExact, ~overrun, Depth
  PROVE ClimbDepth'
<1>0. TypeOK /\ UNCHANGED proc /\ pc = "depth"
  BY DepthOutcome DEF IInv
<1>1. pidDepth(cur) = Up \/ pidDepth(cur) = -1 \/ pidDepth(cur) \in Nat
  BY <1>0, PidDepthCases
<1>2. ASSUME ev' = ev, HandRooted' PROVE HandRooted /\ \E h \in Pid : h = ev.pid
  BY <1>0, <1>2 DEF HandRooted, Rooted, Descends, Below, Exists, TypeOK, Event
<1>3. CASE pidDepth(cur) = Up
  <2>1. pc' = "depth" /\ ev' = ev /\ cur' = statPPID(cur) /\ hops' = hops + 1
    BY <1>0, <1>3, DepthOutcome
  <2> SUFFICES ASSUME HandRooted'
               PROVE /\ cur' \in Lineage(proc', ev'.pid) /\ Descends(cur)'
                     /\ Cardinality(Below(ev.pid))' = hops' + Cardinality(Below(cur))'
                     /\ IF hops' = 0 THEN cur' = ev'.pid ELSE cur' \notin WatchPIDs
    BY <2>1 DEF ClimbDepth
  <2>2. PICK h \in Pid : h = ev.pid /\ HandRooted
    BY <1>2, <2>1
  <2>3. PICK a \in Pid \ WatchPIDs :
          /\ a = statPPID(cur) /\ a \in Lineage(proc, h) /\ Descends(a)
          /\ Cardinality(Below(h)) = hops + 1 + Cardinality(Below(a))
    BY <1>0, <1>3, <2>2, DepthCounts
  <2>4. hops' # 0
    BY <1>0, <2>1 DEF TypeOK
  <2>5. cur' = a /\ ev'.pid = h /\ proc' = proc
    BY <1>0, <2>1, <2>2, <2>3
  <2>6. Descends(cur)' /\ Below(ev.pid)' = Below(h) /\ Below(cur)' = Below(a)
    BY <2>3, <2>5 DEF Descends, Below, Exists
  <2> QED
    BY <2>1, <2>3, <2>4, <2>5, <2>6
<1>4. CASE pidDepth(cur) = -1
  BY <1>0, <1>4, DepthOutcome DEF ClimbDepth
<1>5. CASE pidDepth(cur) \in Nat
  <2>1. pc' = "store" /\ ev' = ev /\ hops' = hops + pidDepth(cur)
    BY <1>0, <1>5, DepthOutcome
  <2> SUFFICES ASSUME HandRooted' PROVE hops' = TreeDepth(ev.pid)'
    BY <2>1 DEF ClimbDepth
  <2>2. PICK h \in Pid : h = ev.pid /\ HandRooted
    BY <1>2, <2>1
  <2>3. hops' = TreeDepth(h)
    BY <1>0, <1>5, <2>1, <2>2, DepthCounts
  <2> QED
    BY <1>0, <2>1, <2>2, <2>3 DEF TreeDepth, Below
<1> QED
  BY <1>1, <1>3, <1>4, <1>5

\* A step of the tracer other than pidDepth: Store files what pidDepth has counted.
LEMMA DepthFiled ==
  ASSUME IInv, TreeOK, ClimbDepth, DepthExact, ~overrun, Store
  PROVE ClimbDepth' /\ DepthExact'
<1>1. /\ pc = "store" /\ pc' = "print" /\ proc' = proc
      /\ pidDB' = [pidDB EXCEPT ![ev.pid] = [depth |-> hops, start |-> ev.gen,
                                             cmd |-> readFirstArg(ev.pid)]]
  BY DEF Store
<1>2. ev # None /\ ev.pid \in Pid /\ pidDB \in [Pid -> PidEntry \cup {None}]
  BY <1>1 DEF IInv, TypeOK, Event
<1>3. PICK h \in Pid : h = ev.pid
  BY <1>2
<1>4. /\ pidDB'[h].depth = hops /\ pidDB'[h].start = ev.gen
      /\ \A p \in Pid \ {h} : pidDB'[p] = pidDB[p]
  BY <1>1, <1>2, <1>3
<1>5. ASSUME NEW p \in Pid, pidDB'[p] # None, Exists(p), proc[p].gen = pidDB'[p].start, Rooted(p)
      PROVE pidDB'[p].depth = TreeDepth(p)
  <2>1. CASE p = h
    <3>1. HandRooted
      BY <1>2, <1>3, <1>4, <1>5, <2>1 DEF HandRooted
    <3> QED
      BY <1>1, <1>3, <1>4, <2>1, <3>1 DEF ClimbDepth
  <2>2. CASE p # h
    BY <1>4, <1>5, <2>2 DEF DepthExact
  <2> QED
    BY <2>1, <2>2
<1>6. DepthExact'
  BY <1>1, <1>5 DEF DepthExact, Exists, Rooted, Descends, Below, TreeDepth
<1> QED
  BY <1>1, <1>6 DEF ClimbDepth

LEMMA DepthReceived ==
  ASSUME IInv, DepthExact, ~overrun, Recv
  PROVE ClimbDepth' /\ DepthExact'
<1>1. /\ proc' = proc /\ pidDB' = pidDB /\ cur' = ev'.pid /\ hops' = 0
      /\ pc' # "store" /\ ev' \in Event
  BY Receiving DEF Recv, IInv, TypeOK
<1>2. PICK h \in Pid : h = ev'.pid
  BY <1>1 DEF Event
<1>3. ASSUME HandRooted'
      PROVE /\ cur' \in Lineage(proc', ev'.pid) /\ Descends(cur)'
            /\ Cardinality(Below(ev.pid))' = hops' + Cardinality(Below(cur))'
  <2>1. Rooted(h)'
    BY <1>2, <1>3 DEF HandRooted, Rooted, Descends, Below, Exists
  <2>2. h \in Lineage(proc', h) /\ Descends(h)'
    BY <2>1, LineageSelf DEF Rooted
  <2>3. Cardinality(Below(h)) \in Nat
    BY BelowFinite
  <2>4. Below(ev.pid)' = Below(h) /\ Below(cur)' = Below(h)
    BY <1>1, <1>2 DEF Below
  <2>5. Cardinality(Below(h)) = 0 + Cardinality(Below(h))
    BY <2>3
  <2>6. Descends(cur)'
    BY <1>1, <1>2, <2>2 DEF Descends, Exists
  <2> QED
    BY <1>1, <1>2, <2>2, <2>4, <2>5, <2>6
<1>4. ClimbDepth'
  BY <1>1, <1>3 DEF ClimbDepth
<1> QED
  BY <1>1, <1>4 DEF DepthExact, Exists, Rooted, Descends, Below, TreeDepth

\* Every step keeps what pidDepth has counted and what pidDB says.
LEMMA ClimbStep ==
  ASSUME IInv, TreeOK, ClimbInv, [Next]_vars
  PROVE ClimbInv'
<1> SUFFICES ASSUME ~overrun' PROVE (OlderFirst /\ ClimbDepth /\ DepthExact)'
  BY DEF ClimbInv
<1>1. overrun => overrun'
  BY DEF Next, Kernel, KernelFork, KernelExec, KernelExit, KernelReap, Send, Tracer, Recv,
         RecvError, Depth, Store, printExec, handleExit, Dead, vars
<1>2. ~overrun /\ OlderFirst /\ ClimbDepth /\ DepthExact
  BY <1>1 DEF ClimbInv
<1>3. OlderFirst'
  BY <1>2, OlderStep
<1>4. CASE KernelFork \/ KernelExit \/ KernelReap
  <2>1. TreeStep /\ UNCHANGED tracer
    BY <1>4 DEF KernelFork, KernelExit, KernelReap, TreeStep
  <2> QED
    BY <1>2, <1>3, <2>1, DepthKernel
<1>5. CASE Recv
  BY <1>2, <1>3, <1>5, DepthReceived
<1>6. CASE Store
  BY <1>2, <1>3, <1>6, DepthFiled
<1>7. ASSUME proc' = proc, pidDB' = pidDB PROVE DepthExact'
  BY <1>2, <1>7 DEF DepthExact, Exists, Rooted, Descends, Below, TreeDepth
<1>8. CASE Depth
  <2>1. proc' = proc /\ pidDB' = pidDB
    BY <1>8 DEF Depth
  <2> QED
    BY <1>2, <1>3, <1>7, <1>8, <2>1, DepthClimbs
<1>9. CASE printExec \/ RecvError
  <2>1. proc' = proc /\ pidDB' = pidDB /\ pc' \in {"recv", "dead"}
    BY <1>9 DEF printExec, RecvError, Drop
  <2> QED
    BY <1>3, <1>7, <2>1 DEF ClimbDepth
<1>10. CASE handleExit
  <2>1. proc' = proc /\ pc' = "recv" /\ pidDB' = [pidDB EXCEPT ![ev.pid] = None]
    BY <1>10 DEF handleExit, Drop
  <2>2. \A p \in Pid : pidDB'[p] # None => pidDB'[p] = pidDB[p]
    BY <2>1 DEF IInv, TypeOK
  <2>3. DepthExact'
    BY <1>2, <2>1, <2>2 DEF DepthExact, Exists, Rooted, Descends, Below, TreeDepth
  <2> QED
    BY <1>3, <2>1, <2>3 DEF ClimbDepth
<1>11. CASE KernelExec \/ Dead \/ UNCHANGED vars
  <2>1. UNCHANGED <<proc, pidDB, pc, ev, cur, hops>>
    BY <1>11 DEF KernelExec, Dead, vars, tracer
  <2>2. ClimbDepth'
    BY <1>2, <2>1 DEF ClimbDepth, HandRooted, Exists, Rooted, Descends, Below, TreeDepth
  <2> QED
    BY <1>3, <1>7, <2>1, <2>2
<1> QED
  BY <1>4, <1>5, <1>6, <1>8, <1>9, <1>10, <1>11 DEF Next, Kernel, Tracer

LEMMA ClimbInit == Init => ClimbInv
<1> SUFFICES ASSUME Init PROVE ClimbInv
  OBVIOUS
<1>1. Queued = {}
  <2>1. Len(queue) = 0
    BY EmptySeq DEF Init
  <2> QED
    BY <2>1 DEF Queued
<1> QED
  BY <1>1 DEF Init, ClimbInv, OlderFirst, ClimbDepth, DepthExact

\* The depths in pidDB are those of the process tree, although pidDepth takes them
\* from entries of ancestors while processes fork, exit and get used pids.
THEOREM DepthsExact == Spec => []DepthExact
<1>1. IInv /\ TreeOK /\ ClimbInv /\ [Next]_vars => ClimbInv'
  BY ClimbStep
<1>2. Spec => []ClimbInv
  BY <1>1, ClimbInit, ExecInvariant, TreeInvariant, PTL DEF Spec
<1>3. ClimbInv => DepthExact
  BY DEF ClimbInv, DepthExact
<1> QED
  BY <1>2, <1>3, PTL

=============================================================================
