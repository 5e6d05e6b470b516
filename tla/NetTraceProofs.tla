--------------------------- MODULE NetTraceProofs ---------------------------
(* Proofs about NetTrace, for any processes, tuples, options and bounds.   *)
EXTENDS NetTrace, ProcTreeProofs, SequenceTheorems

LEMMA PidsAreNats ==
  /\ 0 \notin Pid /\ InitPid \in Pid
  /\ \A p \in Pid : p \in Int /\ p > 0 /\ InitPid <= p
  BY InitPidAssumption, InitPidLeast

LEMMA FlowInt == 0 \in Flow /\ None \notin Flow /\ \A f \in Flow : f \in Int /\ f >= 0
  BY MaxFlowsAssumption, NoneIsNoData DEF Flow

LEMMA InitInv == Init => IInv
<1> SUFFICES ASSUME Init PROVE IInv
  OBVIOUS
<1>1. ProcTypeOK
  <2>1. 0 \in Gen
    BY MaxForksAssumption DEF Gen
  <2> QED
    BY <2>1, InitPidAssumption DEF Init, ProcInit, ProcTypeOK, Process
<1>2. queue = <<>> /\ queue \in Seq(Event) /\ Pos = {}
  <2>1. queue = <<>> /\ Len(<<>>) = 0 /\ <<>> \in Seq(Event)
    BY EmptySeq DEF Init
  <2> QED
    BY <2>1 DEF Pos
<1>3. ct \in [Tuple -> Flow \cup {None}] /\ \A t \in Tuple : ct[t] # None => ct[t] = 0
  BY FlowInt DEF Init
<1>4. TypeOK
  <2>1. /\ conndb \in [Tuple -> conn_entry \cup {None}]
        /\ names \in [IP -> {"idle", "asked", "named", "unnamed"}]
    BY DEF Init
  <2>2. opt \in Option /\ inodes \in 0 .. MaxSockets /\ flows \in Flow
    BY FlowInt, MaxSocketsAssumption, OptionsAssumption DEF Init
  <2>3. /\ pc = "recv" /\ ev = None /\ ent = None /\ ino = 0 /\ cur = InitPid /\ seen = {}
        /\ socks = {} /\ overrun = FALSE /\ lost = FALSE /\ quiet = TRUE
    BY DEF Init
  <2> QED
    BY <1>1, <1>2, <1>3, <2>1, <2>2, <2>3, PidsAreNats DEF TypeOK
<1>5. FlowInv
  BY <1>2, <1>3, FlowInt DEF Init, FlowInv, InOrder, NewAccounted, EntriesOldest, ConnCurrent, Handling
<1>6. SocketInv
  BY DEF Init, SocketInv
<1> QED
  BY <1>4, <1>5, <1>6 DEF IInv

-----------------------------------------------------------------------------
(* The flow invariant under each kind of step.                             *)

flowVars == <<ct, flows, queue, lost, conndb>>

\* A step that changes nothing the flow invariant speaks of, but perhaps process
\* and direction of the connection in hand.
LEMMA FlowKept ==
  ASSUME FlowInv, UNCHANGED flowVars, UNCHANGED ev, ev # None => ent'.start = ent.start
  PROVE FlowInv'
<1>1. InOrder' /\ NewAccounted' /\ EntriesOldest' /\ ConnCurrent'
  BY DEF FlowInv, flowVars, InOrder, NewAccounted, EntriesOldest, ConnCurrent, Accounted, Oldest, Pos,
         DestroyOf
<1>2. Handling'
  BY DEF FlowInv, flowVars, Handling, Accounted, Oldest, Pos, DestroyOf
<1> QED
  BY <1>1, <1>2 DEF FlowInv

\* A handler returns, and stored what it had in hand or nothing.
LEMMA FlowReturn ==
  ASSUME TypeOK, FlowInv, UNCHANGED <<ct, flows, queue, lost>>, ev # None, ev' = None,
         \/ conndb' = conndb
         \/ ev.kind = "new" /\ conndb' = [conndb EXCEPT ![ev.tuple] = ent]
  PROVE FlowInv'
<1>1. InOrder' /\ NewAccounted'
  BY DEF FlowInv, InOrder, NewAccounted, Pos, DestroyOf
<1>2. Handling'
  BY DEF Handling
<1>3. ev.tuple \in Tuple
  BY DEF TypeOK, Event
<1>4. \A t \in Tuple : conndb'[t] = conndb[t] \/ (t = ev.tuple /\ ev.kind = "new" /\ conndb'[t] = ent)
  BY <1>3 DEF TypeOK
<1>5. \A t \in Tuple : conndb'[t] # None =>
        Oldest(t, conndb'[t].start) /\ (~lost => Accounted(t, conndb'[t].start))
  BY <1>4 DEF FlowInv, EntriesOldest, ConnCurrent, Handling
<1>6. \A t, f : (Oldest(t, f) <=> Oldest(t, f)') /\ (Accounted(t, f) <=> Accounted(t, f)')
  BY DEF Oldest, Accounted, Pos, DestroyOf
<1>7. EntriesOldest' /\ ConnCurrent'
  BY <1>5, <1>6 DEF EntriesOldest, ConnCurrent, Oldest, Accounted, Pos, DestroyOf
<1> QED
  BY <1>1, <1>2, <1>7 DEF FlowInv

\* What Send leaves in the queue.
LEMMA Sending ==
  ASSUME TypeOK, NEW t \in Tuple, NEW kind \in {"new", "update", "destroy"}, NEW f \in Flow,
         Send(kind, t, f)
  PROVE \E e \in Event : \E n \in Nat :
          /\ e = [kind |-> kind, tuple |-> t, flow |-> f]
          /\ queue' \in Seq(Event) /\ overrun' \in BOOLEAN /\ lost' \in BOOLEAN
          /\ lost => lost'
          /\ \A i \in Pos : i < n /\ queue[i] \in Event
          /\ \/ /\ lost' = lost /\ Pos' = Pos \cup {n} /\ n \notin Pos
                /\ queue'[n] = e
                /\ \A i \in Pos : queue'[i] = queue[i]
             \/ lost' /\ queue' = queue /\ Pos' = Pos
<1> DEFINE e == [kind |-> kind, tuple |-> t, flow |-> f]
<1> DEFINE n == Len(queue) + 1
<1>1. e \in Event
  BY DEF Event
<1>2. queue \in Seq(Event) /\ Len(queue) \in Nat
  BY LenProperties DEF TypeOK
<1>3. \A i \in Pos : i < n /\ queue[i] \in Event
  BY <1>2, ElementOfSeq DEF Pos
<1>4. CASE Len(queue) < QueueCap /\ ~overrun
  <2>1. queue' = Append(queue, e) /\ overrun' = overrun /\ lost' = lost
    BY <1>4 DEF Send
  <2>2. /\ queue' \in Seq(Event) /\ Len(queue') = n /\ queue'[n] = e
        /\ \A i \in 1 .. Len(queue) : queue'[i] = queue[i]
    BY <1>1, <1>2, <2>1, AppendProperties
  <2>3. Pos' = Pos \cup {n} /\ n \notin Pos
    BY <1>2, <2>2 DEF Pos
  <2> QED
    BY <1>1, <1>2, <1>3, <2>1, <2>2, <2>3 DEF TypeOK, Pos
<1>5. CASE ~(Len(queue) < QueueCap /\ ~overrun)
  <2>1. queue' = queue /\ overrun' = TRUE /\ lost' = TRUE
    BY <1>5 DEF Send
  <2>2. /\ Pos' = Pos /\ queue' \in Seq(Event) /\ overrun' \in BOOLEAN
        /\ lost' \in BOOLEAN /\ lost' /\ (lost => lost') /\ n \in Nat
    BY <1>2, <2>1 DEF Pos
  <2> QED
    BY <1>1, <1>3, <2>1, <2>2
<1> QED
  BY <1>4, <1>5

\* Conntrack sends an event of the flow it has or begins.
LEMMA FlowSend ==
  ASSUME TypeOK, FlowInv, NEW t \in Tuple, NEW kind \in {"new", "update", "destroy"},
         NEW f \in Flow, Send(kind, t, f), UNCHANGED <<ev, ent, conndb>>,
         \/ kind = "new" /\ ct[t] = None /\ f = flows + 1 /\ flows' = f /\ ct' = [ct EXCEPT ![t] = f]
         \/ kind = "update" /\ ct[t] = f /\ ct' = ct /\ flows' = flows
         \/ kind = "destroy" /\ ct[t] = f /\ ct' = [ct EXCEPT ![t] = None] /\ flows' = flows
  PROVE FlowInv'
<1>1. PICK e \in Event, n \in Nat :
        /\ e = [kind |-> kind, tuple |-> t, flow |-> f]
        /\ queue' \in Seq(Event)
        /\ lost => lost'
        /\ \A i \in Pos : i < n /\ queue[i] \in Event
        /\ \/ /\ lost' = lost /\ Pos' = Pos \cup {n} /\ n \notin Pos
              /\ queue'[n] = e
              /\ \A i \in Pos : queue'[i] = queue[i]
           \/ lost' /\ queue' = queue /\ Pos' = Pos
  BY Sending
<1>2. /\ e.kind = kind /\ e.tuple = t /\ e.flow = f /\ f \in Int /\ f # None
      /\ flows \in Int /\ flows' \in Int /\ flows <= flows' /\ f <= flows'
  BY <1>1, FlowInt DEF TypeOK, FlowInv, InOrder
<1>3. \A i \in Pos : i \in Int /\ queue[i].tuple \in Tuple /\ queue[i].flow \in Flow
                    /\ queue[i].flow \in Int
  BY <1>1, FlowInt DEF Event, Pos
<1>4. /\ \A u \in Tuple : ct[u] # None => ct[u] \in Int /\ ct[u] <= flows
      /\ \A u \in Tuple : u # t => ct'[u] = ct[u]
      /\ ct'[t] = (IF kind = "destroy" THEN None ELSE f)
      /\ ct[t] = None => kind = "new" /\ f = flows + 1
      /\ ct[t] # None => ct[t] = f
  BY FlowInt DEF TypeOK, FlowInv, InOrder
<1>5. \A i \in Pos : queue[i].tuple = t => queue[i].flow <= f
  BY <1>2, <1>3, <1>4 DEF FlowInv, InOrder
<1>6. \A u \in Tuple, g \in Flow : Oldest(u, g) => Oldest(u, g)'
  <2> SUFFICES ASSUME NEW u \in Tuple, NEW g \in Flow, Oldest(u, g)
               PROVE /\ g <= flows'
                     /\ ct'[u] # None => g <= ct'[u]
                     /\ \A i \in Pos' : queue'[i].tuple = u => g <= queue'[i].flow
    BY DEF Oldest, Pos
  <2>0. g \in Int /\ g <= flows /\ (ct[u] # None => g <= ct[u])
    BY FlowInt DEF Oldest
  <2>1. g \in Int /\ g <= flows /\ (u = t => g <= f)
    BY <1>2, <1>4, <2>0
  <2>2. \A i \in Pos : queue[i].tuple = u => g <= queue[i].flow
    BY DEF Oldest
  <2>3. \A i \in Pos' : queue'[i].tuple = u => g <= queue'[i].flow
    BY <1>1, <1>2, <2>1, <2>2
  <2> QED
    BY <1>2, <1>4, <2>0, <2>1, <2>3
<1>7. ~lost' => \A u \in Tuple, g \in Flow : Accounted(u, g) => Accounted(u, g)'
  <2> SUFFICES ASSUME ~lost', NEW u \in Tuple, NEW g \in Flow, Accounted(u, g)
               PROVE ct'[u] = g \/ \E i \in Pos' : queue'[i] = DestroyOf(u, g)
    BY DEF Accounted, Pos, DestroyOf
  <2>1. CASE \E i \in Pos : queue[i] = DestroyOf(u, g)
    BY <1>1, <2>1
  <2>2. CASE ct[u] = g /\ ct'[u] # g
    <3>1. u = t /\ kind = "destroy" /\ g = f
      BY <1>4, <2>2, FlowInt
    <3>2. e = DestroyOf(u, g)
      BY <1>1, <3>1 DEF DestroyOf
    <3> QED
      BY <1>1, <3>2
  <2> QED
    BY <2>1, <2>2 DEF Accounted
<1>8. InOrder'
  <2>1. \A u \in Tuple : ct'[u] # None => ct'[u] <= flows'
    BY <1>2, <1>4
  <2> SUFFICES ASSUME NEW i \in Pos'
               PROVE /\ queue'[i].flow <= flows'
                     /\ ct'[queue'[i].tuple] # None => queue'[i].flow <= ct'[queue'[i].tuple]
                     /\ \A j \in Pos' : i < j /\ queue'[i].tuple = queue'[j].tuple
                                         => queue'[i].flow <= queue'[j].flow
    BY <2>1 DEF InOrder, Pos
  <2>2. CASE i \in Pos
    <3>1. queue'[i] = queue[i] /\ queue[i].flow <= flows
      BY <1>1, <2>2 DEF FlowInv, InOrder
    <3>2. ct'[queue[i].tuple] # None => queue[i].flow <= ct'[queue[i].tuple]
      BY <1>3, <1>4, <1>5, <2>2 DEF FlowInv, InOrder
    <3>3. ASSUME NEW j \in Pos', i < j, queue[i].tuple = queue'[j].tuple
          PROVE queue[i].flow <= queue'[j].flow
      <4>1. CASE j \in Pos
        BY <1>1, <2>2, <3>3, <4>1 DEF FlowInv, InOrder
      <4>2. CASE j \notin Pos
        BY <1>1, <1>2, <1>5, <2>2, <3>3, <4>2
      <4> QED
        BY <4>1, <4>2
    <3> QED
      BY <1>2, <1>3, <2>2, <3>1, <3>2, <3>3
  <2>3. CASE i \notin Pos
    <3>1. queue'[i] = e /\ i = n /\ \A j \in Pos' : ~(i < j)
      BY <1>1, <1>3, <2>3
    <3> QED
      BY <1>2, <1>4, <3>1
  <2> QED
    BY <2>2, <2>3
<1>9. NewAccounted'
  <2> SUFFICES ASSUME ~lost', NEW i \in Pos', queue'[i].kind = "new"
               PROVE \/ ct'[queue'[i].tuple] = queue'[i].flow
                     \/ \E j \in Pos' : i < j /\ queue'[j] = DestroyOf(queue'[i].tuple, queue'[i].flow)
    BY DEF NewAccounted, Pos, DestroyOf
  <2>1. CASE i \in Pos
    <3>1. queue'[i] = queue[i] /\ i < n /\ ~lost
      BY <1>1, <2>1
    <3>2. CASE \E j \in Pos : i < j /\ queue[j] = DestroyOf(queue[i].tuple, queue[i].flow)
      BY <1>1, <3>1, <3>2
    <3>3. CASE ct[queue[i].tuple] = queue[i].flow /\ ct'[queue[i].tuple] # queue[i].flow
      <4>1. queue[i].tuple = t /\ queue[i].flow = f /\ kind = "destroy"
        BY <1>3, <1>4, <2>1, <3>3, FlowInt
      <4>2. e = DestroyOf(queue[i].tuple, queue[i].flow)
        BY <1>1, <4>1 DEF DestroyOf
      <4> QED
        BY <1>1, <3>1, <4>2
    <3> QED
      BY <2>1, <3>1, <3>2, <3>3 DEF FlowInv, NewAccounted
  <2>2. CASE i \notin Pos
    BY <1>1, <1>2, <1>4, <2>2
  <2> QED
    BY <2>1, <2>2
<1>10. EntriesOldest' /\ ConnCurrent'
  <2>1. \A u \in Tuple : conndb[u] # None => conndb[u].start \in Flow
    BY DEF FlowInv, EntriesOldest, Oldest
  <2>2. EntriesOldest'
    BY <1>6, <2>1 DEF FlowInv, EntriesOldest
  <2>3. ConnCurrent'
    BY <1>1, <1>7, <2>1 DEF FlowInv, ConnCurrent
  <2> QED
    BY <2>2, <2>3
<1>11. Handling'
  <2>1. ev # None => ev.tuple \in Tuple /\ ev.flow \in Flow
    BY DEF TypeOK, Event
  <2> QED
    BY <1>1, <1>6, <1>7, <2>1 DEF FlowInv, Handling
<1> QED
  BY <1>8, <1>9, <1>10, <1>11 DEF FlowInv

\* What recvfrom takes out of the queue.
LEMMA Receiving ==
  ASSUME TypeOK, NEW e, Recv(e)
  PROVE /\ e \in Event /\ 1 \in Pos /\ queue[1] = e
        /\ queue' \in Seq(Event)
        /\ \A i \in Pos : i \in Int /\ queue[i] \in Event
        /\ \A i \in Pos' : i \in Int /\ i > 0 /\ i + 1 \in Pos /\ queue'[i] = queue[i + 1]
        /\ \A i \in Pos : i > 1 => i - 1 \in Pos' /\ queue'[i - 1] = queue[i]
<1>1. queue \in Seq(Event) /\ queue # <<>> /\ Len(queue) \in Nat /\ Len(queue) > 0
  BY LenProperties, EmptySeq DEF TypeOK, Recv
<1>2. /\ queue' \in Seq(Event) /\ Len(queue') = Len(queue) - 1
      /\ \A i \in 1 .. Len(queue') : queue'[i] = queue[i + 1]
  BY <1>1, HeadTailProperties DEF Recv
<1>3. e = queue[1] /\ e \in Event
  BY <1>1, HeadTailProperties DEF Recv
<1>4. \A i \in Pos : i \in Int /\ queue[i] \in Event
  BY <1>1, ElementOfSeq DEF Pos
<1> QED
  BY <1>1, <1>2, <1>3, <1>4 DEF Pos

\* The head of the queue is about the flow its tuple's entry is about.
LEMMA HeadPairs ==
  ASSUME TypeOK, FlowInv, NEW e, Recv(e), ~lost, conndb[e.tuple] # None
  PROVE conndb[e.tuple].start = e.flow
<1> DEFINE t == e.tuple
           g == conndb[t].start
<1>1. e \in Event /\ 1 \in Pos /\ queue[1] = e /\ \A i \in Pos : i \in Int
  BY Receiving
<1>2. t \in Tuple /\ e.flow \in Int
  BY <1>1, FlowInt DEF Event
<1>3. g \in Int /\ g # None /\ g <= e.flow
  BY <1>1, <1>2, FlowInt DEF FlowInv, EntriesOldest, Oldest
<1>4. CASE ct[t] = g
  BY <1>1, <1>2, <1>3, <1>4 DEF FlowInv, InOrder
<1>5. CASE \E i \in Pos : queue[i] = DestroyOf(t, g)
  <2>1. PICK i \in Pos : queue[i] = DestroyOf(t, g)
    BY <1>5
  <2>2. queue[i].tuple = t /\ queue[i].flow = g
    BY <2>1 DEF DestroyOf
  <2>3. i = 1 \/ 1 < i
    BY <1>1 DEF Pos
  <2> QED
    BY <1>1, <1>2, <1>3, <2>1, <2>2, <2>3 DEF FlowInv, InOrder
<1> QED
  BY <1>2, <1>4, <1>5 DEF FlowInv, ConnCurrent, Accounted

LEMMA FlowDispatch ==
  ASSUME TypeOK, FlowInv, NEW e, Recv(e), handle_new(e) \/ handle_update(e) \/ handle_destroy(e)
  PROVE FlowInv'
<1>1. /\ e \in Event /\ 1 \in Pos /\ queue[1] = e
      /\ \A i \in Pos : i \in Int /\ queue[i] \in Event
      /\ \A i \in Pos' : i \in Int /\ i > 0 /\ i + 1 \in Pos /\ queue'[i] = queue[i + 1]
      /\ \A i \in Pos : i > 1 => i - 1 \in Pos' /\ queue'[i - 1] = queue[i]
  BY Receiving
<1>2. ct' = ct /\ flows' = flows /\ lost' = lost /\ ev = None
  BY DEF Recv, system, TypeOK
<1>3. e.tuple \in Tuple /\ e.flow \in Flow /\ e.kind \in {"new", "update", "destroy"}
  BY <1>1 DEF Event
<1>4. \A u, g : Oldest(u, g) => Oldest(u, g)'
  <2> SUFFICES ASSUME NEW u, NEW g, Oldest(u, g)
               PROVE \A i \in Pos' : queue'[i].tuple = u => g <= queue'[i].flow
    BY <1>2 DEF Oldest, Pos
  <2> QED
    BY <1>1 DEF Oldest
<1>5. \A u, g : Accounted(u, g) /\ e # DestroyOf(u, g) => Accounted(u, g)'
  <2> SUFFICES ASSUME NEW u, NEW g, Accounted(u, g), e # DestroyOf(u, g)
               PROVE ct[u] = g \/ \E i \in Pos' : queue'[i] = DestroyOf(u, g)
    BY <1>2 DEF Accounted, Pos, DestroyOf
  <2>1. CASE \E i \in Pos : queue[i] = DestroyOf(u, g)
    <3>1. PICK i \in Pos : queue[i] = DestroyOf(u, g)
      BY <2>1
    <3>2. i > 1
      BY <1>1, <3>1 DEF Pos
    <3> QED
      BY <1>1, <3>1, <3>2
  <2> QED
    BY <2>1 DEF Accounted
<1>6. InOrder'
  <2>1. \A i \in Pos' :
          /\ queue'[i].flow <= flows
          /\ ct[queue'[i].tuple] # None => queue'[i].flow <= ct[queue'[i].tuple]
    BY <1>1 DEF FlowInv, InOrder
  <2>2. \A i, j \in Pos' : i < j /\ queue'[i].tuple = queue'[j].tuple
                           => queue'[i].flow <= queue'[j].flow
    <3> SUFFICES ASSUME NEW i \in Pos', NEW j \in Pos', i < j, queue'[i].tuple = queue'[j].tuple
                 PROVE queue'[i].flow <= queue'[j].flow
      OBVIOUS
    <3>1. i + 1 \in Pos /\ j + 1 \in Pos /\ i + 1 < j + 1
      BY <1>1
    <3> QED
      BY <1>1, <3>1 DEF FlowInv, InOrder
  <2>3. \A u \in Tuple : ct[u] # None => ct[u] <= flows
    BY DEF FlowInv, InOrder
  <2> QED
    BY <1>2, <2>1, <2>2, <2>3 DEF InOrder
<1>7. NewAccounted'
  <2> SUFFICES ASSUME ~lost, NEW i \in Pos', queue'[i].kind = "new"
               PROVE \/ ct[queue'[i].tuple] = queue'[i].flow
                     \/ \E j \in Pos' : i < j /\ queue'[j] = DestroyOf(queue'[i].tuple, queue'[i].flow)
    BY <1>2 DEF NewAccounted, Pos, DestroyOf
  <2>1. i + 1 \in Pos /\ queue'[i] = queue[i + 1] /\ i \in Int /\ i > 0
    BY <1>1
  <2>2. CASE \E j \in Pos : i + 1 < j /\ queue[j] = DestroyOf(queue'[i].tuple, queue'[i].flow)
    <3>1. PICK j \in Pos : i + 1 < j /\ queue[j] = DestroyOf(queue'[i].tuple, queue'[i].flow)
      BY <2>2
    <3>2. j > 1 /\ i < j - 1 /\ j - 1 \in Pos' /\ queue'[j - 1] = queue[j]
      BY <1>1, <2>1, <3>1
    <3> QED
      BY <3>1, <3>2
  <2> QED
    BY <2>1, <2>2 DEF FlowInv, NewAccounted
<1>8. \/ e.kind # "destroy" /\ conndb' = conndb
      \/ e.kind = "destroy" /\ conndb' = [conndb EXCEPT ![e.tuple] = None]
  BY DEF handle_new, handle_update, handle_destroy
<1>9. \A u \in Tuple : conndb'[u] # None =>
        conndb'[u] = conndb[u] /\ ~(e.kind = "destroy" /\ u = e.tuple)
  BY <1>3, <1>8 DEF TypeOK
<1>10. EntriesOldest'
  BY <1>4, <1>9 DEF FlowInv, EntriesOldest
<1>11. ConnCurrent'
  <2>1. \A u \in Tuple : conndb'[u] # None => e # DestroyOf(u, conndb[u].start)
    BY <1>9 DEF DestroyOf
  <2> QED
    BY <1>2, <1>5, <1>9, <2>1 DEF FlowInv, ConnCurrent
<1>12. Oldest(e.tuple, e.flow)'
  <2>1. /\ e.flow <= flows
        /\ ct[e.tuple] # None => e.flow <= ct[e.tuple]
        /\ \A i \in Pos : 1 < i /\ e.tuple = queue[i].tuple => e.flow <= queue[i].flow
    BY <1>1 DEF FlowInv, InOrder
  <2>2. \A i \in Pos' : queue'[i].tuple = e.tuple => e.flow <= queue'[i].flow
    <3> SUFFICES ASSUME NEW i \in Pos', queue'[i].tuple = e.tuple PROVE e.flow <= queue'[i].flow
      OBVIOUS
    <3>1. i + 1 \in Pos /\ 1 < i + 1 /\ queue'[i] = queue[i + 1]
      BY <1>1
    <3> QED
      BY <2>1, <3>1
  <2> QED
    BY <1>2, <1>3, <2>1, <2>2 DEF Oldest, Pos
<1>13. ~lost /\ e.kind = "new" => Accounted(e.tuple, e.flow)'
  <2> SUFFICES ASSUME ~lost, e.kind = "new"
               PROVE ct[e.tuple] = e.flow \/ \E i \in Pos' : queue'[i] = DestroyOf(e.tuple, e.flow)
    BY <1>2 DEF Accounted, Pos, DestroyOf
  <2>1. CASE \E j \in Pos : 1 < j /\ queue[j] = DestroyOf(e.tuple, e.flow)
    BY <1>1, <2>1
  <2> QED
    BY <1>1, <2>1 DEF FlowInv, NewAccounted
<1>14. Handling'
  <2>1. CASE handle_new(e)
    <3>1. ev' = e /\ ent' = [NoEntry EXCEPT !.start = e.flow]
      BY <2>1 DEF handle_new, Begin
    <3>2. ent'.start = e.flow
      BY <3>1 DEF NoEntry
    <3> QED
      BY <1>2, <1>12, <1>13, <3>1, <3>2, <2>1 DEF Handling, handle_new
  <2>2. CASE handle_update(e)
    <3>1. /\ ev' = e /\ e.kind = "update"
          /\ ent' = (IF conndb[e.tuple] # None THEN conndb[e.tuple] ELSE NoEntry)
      BY <2>2 DEF handle_update, Begin
    <3>2. ~lost => ent'.start = e.flow \/ ent'.start = -1
      BY <3>1, HeadPairs DEF NoEntry
    <3> QED
      BY <1>2, <1>12, <3>1, <3>2 DEF Handling
  <2>3. CASE handle_destroy(e) /\ ev' # None
    <3>1. /\ ev' = e /\ e.kind = "destroy"
          /\ conndb[e.tuple] # None /\ ent' = conndb[e.tuple]
      BY <2>3, <1>2 DEF handle_destroy, Begin, local
    <3>2. ~lost => ent'.start = e.flow
      BY <3>1, HeadPairs
    <3> QED
      BY <1>2, <1>12, <3>1, <3>2 DEF Handling
  <2> QED
    BY <2>1, <2>2, <2>3 DEF Handling
<1> QED
  BY <1>6, <1>7, <1>10, <1>11, <1>14 DEF FlowInv

-----------------------------------------------------------------------------
(* The kernel's steps.                                                     *)

\* Processes keep their type.
LEMMA ProcStep ==
  ASSUME ProcTypeOK, NEW p \in Pid, NEW c \in Pid, Fork(p, c) \/ Exit(p) \/ Reap(p)
  PROVE ProcTypeOK'
  BY ForkTable, ExitTable, ReapTable

\* Descriptors change: to sockets with inodes of their own.
LEMMA SocketStep ==
  ASSUME TypeOK, SocketInv, NEW S \in SUBSET Sock, NEW ends \in BOOLEAN, Sockets(S, ends),
         \A s \in S : s.inode <= inodes',
         \A s, r \in S : s.inode = r.inode => s = r,
         UNCHANGED local
  PROVE SocketInv' /\ socks' \subseteq Sock /\ quiet' \in BOOLEAN
<1>1. socks' = {s \in S : s.pids # {}}
  BY DEF Sockets
<1>2. quiet' \in BOOLEAN
  BY DEF Sockets
<1>3. /\ \A s \in socks' : s.inode <= inodes' /\ s.pids # {}
      /\ \A s, r \in socks' : s.inode = r.inode => s = r
  BY <1>1
<1>4. UNCHANGED <<pc, ev, ent, ino, cur>>
  BY DEF local
<1>5. ASSUME pc = "pid", quiet'
      PROVE \E s \in socks' : /\ s.inode = ino /\ s.tuple = ev.tuple
                             /\ s.side = ent.dir /\ \E p \in s.pids : cur <= p
  <2>1. quiet /\ {s \in socks : s.tuple = ev.tuple} = {s \in socks' : s.tuple = ev.tuple}
    BY <1>5 DEF Sockets
  <2>2. PICK s \in socks : /\ s.inode = ino /\ s.tuple = ev.tuple
                           /\ s.side = ent.dir /\ \E p \in s.pids : cur <= p
    BY <1>5, <2>1 DEF SocketInv
  <2>3. s \in socks'
    BY <2>1, <2>2
  <2> QED
    BY <2>2, <2>3
<1> QED
  BY <1>1, <1>2, <1>3, <1>4, <1>5 DEF SocketInv

\* The rest of the kernel's steps on processes and sockets.
LEMMA KernelRest ==
  ASSUME IInv, ProcTypeOK', SocketInv', socks' \subseteq Sock, quiet' \in BOOLEAN,
         inodes' \in 0 .. MaxSockets,
         UNCHANGED <<ct, flows, queue, overrun, tracer, lost>>
  PROVE IInv'
<1>1. UNCHANGED <<pc, ev, ent, ino, cur, seen, opt, conndb, names>>
  BY DEF tracer, local
<1>2. TypeOK'
  BY <1>1 DEF IInv, TypeOK
<1>3. FlowInv'
  BY <1>1, FlowKept DEF IInv, flowVars
<1> QED
  BY <1>2, <1>3 DEF IInv

\* Descriptors of existing sockets change.
LEMMA PidsStep ==
  ASSUME IInv, NEW q \in [socks -> SUBSET Pid], NEW ends \in BOOLEAN,
         Sockets({[s EXCEPT !.pids = q[s]] : s \in socks}, ends),
         UNCHANGED <<local, inodes>>
  PROVE SocketInv' /\ socks' \subseteq Sock /\ quiet' \in BOOLEAN
<1> DEFINE S == {[s EXCEPT !.pids = q[s]] : s \in socks}
<1>1. \A s \in socks : [s EXCEPT !.pids = q[s]] \in Sock /\ [s EXCEPT !.pids = q[s]].inode = s.inode
  BY DEF IInv, TypeOK, Sock
<1>2. S \in SUBSET Sock /\ \A s \in S : \E r \in socks : s.inode = r.inode /\ s = [r EXCEPT !.pids = q[r]]
  BY <1>1
<1>3. /\ \A s \in S : s.inode <= inodes'
      /\ \A s, r \in S : s.inode = r.inode => s = r
  <2> HIDE DEF S
  <2> QED
    BY <1>2 DEF IInv, SocketInv
<1> HIDE DEF S
<1> QED
  BY <1>2, <1>3, SocketStep DEF IInv, S

LEMMA KernelForkInv == IInv /\ KernelFork => IInv'
<1> SUFFICES ASSUME IInv, KernelFork PROVE IInv'
  OBVIOUS
<1>1. PICK p \in Pid, c \in Pid :
        /\ Fork(p, c)
        /\ Sockets({[s EXCEPT !.pids = IF p \in s.pids THEN s.pids \cup {c} ELSE s.pids] : s \in socks}, FALSE)
  BY DEF KernelFork
<1> DEFINE q == [s \in socks |-> IF p \in s.pids THEN s.pids \cup {c} ELSE s.pids]
<1>2. q \in [socks -> SUBSET Pid]
  BY DEF IInv, TypeOK, Sock
<1>3. Sockets({[s EXCEPT !.pids = q[s]] : s \in socks}, FALSE)
  BY <1>1 DEF Sockets
<1>4. UNCHANGED <<local, inodes, ct, flows, queue, overrun, tracer, lost>>
  BY DEF KernelFork, tracer
<1> HIDE DEF q
<1>5. SocketInv' /\ socks' \subseteq Sock /\ quiet' \in BOOLEAN
  BY <1>2, <1>3, <1>4, PidsStep
<1>6. ProcTypeOK'
  BY <1>1, ProcStep DEF IInv, TypeOK
<1>7. inodes' \in 0 .. MaxSockets
  BY <1>4 DEF IInv, TypeOK
<1> QED
  BY <1>4, <1>5, <1>6, <1>7, KernelRest

LEMMA KernelExitInv == IInv /\ KernelExit => IInv'
<1> SUFFICES ASSUME IInv, KernelExit PROVE IInv'
  OBVIOUS
<1>1. PICK p \in Pid : Exit(p) /\ Sockets({[s EXCEPT !.pids = s.pids \ {p}] : s \in socks}, TRUE)
  BY DEF KernelExit
<1> DEFINE q == [s \in socks |-> s.pids \ {p}]
<1>2. q \in [socks -> SUBSET Pid]
  BY DEF IInv, TypeOK, Sock
<1>3. Sockets({[s EXCEPT !.pids = q[s]] : s \in socks}, TRUE)
  BY <1>1 DEF Sockets
<1>4. UNCHANGED <<local, inodes, ct, flows, queue, overrun, tracer, lost>>
  BY DEF KernelExit, tracer
<1> HIDE DEF q
<1>5. SocketInv' /\ socks' \subseteq Sock /\ quiet' \in BOOLEAN
  BY <1>2, <1>3, <1>4, PidsStep
<1>6. ProcTypeOK'
  BY <1>1, ProcStep DEF IInv, TypeOK
<1>7. inodes' \in 0 .. MaxSockets
  BY <1>4 DEF IInv, TypeOK
<1> QED
  BY <1>4, <1>5, <1>6, <1>7, KernelRest

LEMMA KernelReapInv == IInv /\ KernelReap => IInv'
<1> SUFFICES ASSUME IInv, KernelReap PROVE IInv'
  OBVIOUS
<1>1. PICK p \in Pid : Reap(p)
  BY DEF KernelReap
<1>2. Sockets(socks, TRUE) /\ UNCHANGED <<local, inodes, ct, flows, queue, overrun, tracer, lost>>
  BY DEF KernelReap, tracer
<1>3. /\ socks \in SUBSET Sock /\ inodes' \in 0 .. MaxSockets
      /\ \A s \in socks : s.inode <= inodes'
      /\ \A s, r \in socks : s.inode = r.inode => s = r
  BY <1>2 DEF IInv, TypeOK, SocketInv
<1>4. SocketInv' /\ socks' \subseteq Sock /\ quiet' \in BOOLEAN
  BY <1>2, <1>3, SocketStep DEF IInv
<1>5. ProcTypeOK'
  BY <1>1, ProcStep DEF IInv, TypeOK
<1> QED
  BY <1>2, <1>3, <1>4, <1>5, KernelRest

LEMMA OpenSocketInv == IInv /\ OpenSocket => IInv'
<1> SUFFICES ASSUME IInv, OpenSocket PROVE IInv'
  OBVIOUS
<1>1. PICK p \in Pid, t \in Tuple, side \in {"outbound", "inbound"}, m \in BOOLEAN :
        Sockets(socks \cup {[inode |-> inodes + 1, tuple |-> t, side |-> side, mapped |-> m,
                              pids |-> {p}]}, FALSE)
  BY DEF OpenSocket
<1> DEFINE n == [inode |-> inodes + 1, tuple |-> t, side |-> side, mapped |-> m, pids |-> {p}]
<1>2. /\ inodes < MaxSockets /\ inodes' = inodes + 1 /\ inodes \in Int
      /\ inodes' \in 0 .. MaxSockets /\ inodes + 1 \in Inode
  BY MaxSocketsAssumption DEF IInv, TypeOK, OpenSocket, Inode
<1>3. n \in Sock /\ n.inode = inodes + 1
  BY <1>2 DEF Sock
<1>4. \A s \in socks : s \in Sock /\ s.inode \in Int /\ s.inode <= inodes
  BY MaxSocketsAssumption DEF IInv, TypeOK, SocketInv, Sock, Inode
<1>5. \A s, r \in socks \cup {n} : s.inode = r.inode => s = r
  <2>1. \A s, r \in socks : s.inode = r.inode => s = r
    BY DEF IInv, SocketInv
  <2>2. \A s \in socks : s.inode # n.inode
    BY <1>2, <1>3, <1>4
  <2> HIDE DEF n
  <2> QED
    BY <2>1, <2>2
<1>6. \A s \in socks \cup {n} : s.inode <= inodes'
  BY <1>2, <1>3, <1>4
<1>7. socks \cup {n} \in SUBSET Sock
  BY <1>3, <1>4
<1>8. UNCHANGED <<local, proc, forks, ct, flows, queue, overrun, tracer, lost>>
  BY DEF OpenSocket, tracer
<1> HIDE DEF n
<1>9. SocketInv' /\ socks' \subseteq Sock /\ quiet' \in BOOLEAN
  BY <1>1, <1>5, <1>6, <1>7, <1>8, SocketStep DEF IInv, n
<1>10. ProcTypeOK'
  BY <1>8 DEF IInv, TypeOK, ProcTypeOK
<1> QED
  BY <1>2, <1>8, <1>9, <1>10, KernelRest

LEMMA CloseSocketInv == IInv /\ CloseSocket => IInv'
<1> SUFFICES ASSUME IInv, CloseSocket PROVE IInv'
  OBVIOUS
<1>1. PICK s \in socks : \E p \in s.pids :
        Sockets({[r EXCEPT !.pids = IF r = s THEN r.pids \ {p} ELSE r.pids] : r \in socks}, FALSE)
  BY DEF CloseSocket
<1>0. PICK p \in s.pids :
        Sockets({[r EXCEPT !.pids = IF r = s THEN r.pids \ {p} ELSE r.pids] : r \in socks}, FALSE)
  BY <1>1
<1> DEFINE q == [r \in socks |-> IF r = s THEN r.pids \ {p} ELSE r.pids]
<1>2. q \in [socks -> SUBSET Pid]
  BY DEF IInv, TypeOK, Sock
<1>3. Sockets({[r EXCEPT !.pids = q[r]] : r \in socks}, FALSE)
  BY <1>0 DEF Sockets
<1>4. UNCHANGED <<local, proc, forks, inodes, ct, flows, queue, overrun, tracer, lost>>
  BY DEF CloseSocket, tracer
<1> HIDE DEF q
<1>5. SocketInv' /\ socks' \subseteq Sock /\ quiet' \in BOOLEAN
  BY <1>2, <1>3, <1>4, PidsStep
<1>6. ProcTypeOK' /\ inodes' \in 0 .. MaxSockets
  BY <1>4 DEF IInv, TypeOK, ProcTypeOK
<1> QED
  BY <1>4, <1>5, <1>6, KernelRest

\* Conntrack's steps: what Send does, and the rest.
LEMMA ConntrackInv == IInv /\ (FlowNew \/ FlowUpdate \/ FlowDestroy) => IInv'
<1> SUFFICES ASSUME IInv, FlowNew \/ FlowUpdate \/ FlowDestroy PROVE IInv'
  OBVIOUS
<1>1. /\ \A t \in Tuple : ct[t] \in Flow \cup {None}
      /\ flows \in Flow /\ ct \in [Tuple -> Flow \cup {None}]
  BY DEF IInv, TypeOK
<1>2. PICK t \in Tuple, kind \in {"new", "update", "destroy"}, f \in Flow :
        /\ Send(kind, t, f)
        /\ \/ kind = "new" /\ ct[t] = None /\ f = flows + 1 /\ flows' = f /\ ct' = [ct EXCEPT ![t] = f]
           \/ kind = "update" /\ ct[t] = f /\ ct' = ct /\ flows' = flows
           \/ kind = "destroy" /\ ct[t] = f /\ ct' = [ct EXCEPT ![t] = None] /\ flows' = flows
  <2>1. CASE FlowNew
    <3>1. flows + 1 \in Flow
      BY <1>1, <2>1, MaxFlowsAssumption DEF FlowNew, Flow
    <3> QED
      BY <2>1, <3>1 DEF FlowNew
  <2>2. CASE FlowUpdate
    BY <1>1, <2>2 DEF FlowUpdate, system
  <2>3. CASE FlowDestroy
    BY <1>1, <2>3 DEF FlowDestroy
  <2> QED
    BY <2>1, <2>2, <2>3
<1>3. UNCHANGED <<proc, forks, socks, inodes, tracer, quiet>>
  BY DEF FlowNew, FlowUpdate, FlowDestroy, system
<1>4. UNCHANGED <<pc, ev, ent, ino, cur, seen, opt, conndb, names>>
  BY <1>3 DEF tracer, local
<1>5. queue' \in Seq(Event) /\ overrun' \in BOOLEAN /\ lost' \in BOOLEAN
  BY <1>2, Sending DEF IInv
<1>6. ct' \in [Tuple -> Flow \cup {None}] /\ flows' \in Flow
  BY <1>1, <1>2
<1>7. TypeOK'
  BY <1>3, <1>4, <1>5, <1>6 DEF IInv, TypeOK, ProcTypeOK
<1>8. FlowInv'
  BY <1>2, <1>4, FlowSend DEF IInv
<1>9. SocketInv'
  BY <1>3, <1>4 DEF IInv, SocketInv
<1> QED
  BY <1>7, <1>8, <1>9 DEF IInv

-----------------------------------------------------------------------------
(* The tracer's steps.                                                     *)

LEMMA RecvErrorInv == IInv /\ RecvError => IInv'
<1> SUFFICES ASSUME IInv, RecvError PROVE IInv'
  OBVIOUS
<1>1. /\ UNCHANGED <<proc, forks, ct, flows, socks, inodes, queue, lost, quiet>>
      /\ UNCHANGED <<pc, ev, ent, ino, cur, seen, opt, conndb, names>> /\ overrun' = FALSE
  BY DEF RecvError, system, tracer, local
<1>2. TypeOK' /\ SocketInv'
  BY <1>1 DEF IInv, TypeOK, ProcTypeOK, SocketInv
<1>3. FlowInv'
  BY <1>1, FlowKept DEF IInv, flowVars
<1> QED
  BY <1>2, <1>3 DEF IInv

LEMMA DispatchInv == IInv /\ Dispatch => IInv'
<1> SUFFICES ASSUME IInv, Dispatch PROVE IInv'
  OBVIOUS
<1>1. PICK e \in Event : Recv(e) /\ (handle_new(e) \/ handle_update(e) \/ handle_destroy(e))
  BY DEF Dispatch
<1>2. /\ UNCHANGED <<proc, forks, ct, flows, socks, inodes, overrun, opt, names, lost, quiet>>
      /\ pc = "recv"
  BY <1>1 DEF Recv, system
<1>3. queue' \in Seq(Event)
  BY <1>1, Receiving DEF IInv
<1>4. e.tuple \in Tuple /\ e.flow \in Flow
  BY DEF Event
<1>5. conndb[e.tuple] \in conn_entry \cup {None} /\ NoEntry \in conn_entry
      /\ [NoEntry EXCEPT !.start = e.flow] \in conn_entry
  BY <1>4 DEF IInv, TypeOK, NoEntry, conn_entry, Direction
<1>6. conndb' \in [Tuple -> conn_entry \cup {None}]
  BY <1>1, <1>4 DEF IInv, TypeOK, handle_new, handle_update, handle_destroy
<1>7. \/ UNCHANGED local
      \/ \E what \in conn_entry, next \in {"inode", "watch"} : Begin(e, what, next)
  <2>1. CASE handle_new(e)
    BY <1>5, <2>1 DEF handle_new
  <2>2. CASE handle_update(e)
    BY <1>5, <2>2 DEF handle_update
  <2>3. CASE handle_destroy(e)
    BY <1>5, <2>3 DEF handle_destroy
  <2> QED
    BY <1>1, <2>1, <2>2, <2>3
<1>8. /\ pc' \in {"recv", "inode", "watch"}
      /\ ev' \in Event \cup {None} /\ ent' \in conn_entry \cup {None}
      /\ (pc' = "recv") <=> (ev' = None)
      /\ (ev' = None) <=> (ent' = None)
      /\ ino' = ino /\ cur' \in Pid \cup {0} /\ seen' \subseteq Pid
  <2>1. CASE UNCHANGED local
    BY <1>2, <2>1 DEF IInv, TypeOK, local
  <2>2. CASE \E what \in conn_entry, next \in {"inode", "watch"} : Begin(e, what, next)
    <3>1. PICK what \in conn_entry, next \in {"inode", "watch"} : Begin(e, what, next)
      BY <2>2
    <3>2. what.pid \in Pid \cup {0} /\ what # None /\ e # None
      BY NoneIsNoData DEF conn_entry
    <3> QED
      BY <3>1, <3>2 DEF Begin
  <2> QED
    BY <1>7, <2>1, <2>2
<1>9. TypeOK'
  BY <1>2, <1>3, <1>6, <1>8 DEF IInv, TypeOK, ProcTypeOK
<1>10. SocketInv'
  BY <1>2, <1>8 DEF IInv, SocketInv
<1>11. FlowInv'
  BY <1>1, FlowDispatch DEF IInv
<1> QED
  BY <1>9, <1>10, <1>11 DEF IInv

\* find_pid_and_dir returns, having changed process and direction only.
LEMMA FoundInv ==
  ASSUME IInv, ev # None, NEW what \in conn_entry, what.start = ent.start, Found(what),
         UNCHANGED <<system, queue, overrun, opt, ev, seen, conndb, names, lost>>
  PROVE IInv'
<1>1. UNCHANGED <<proc, forks, ct, flows, socks, inodes, queue, overrun, opt, ev, seen, conndb, names, lost>>
  BY DEF system
<1>2. /\ ent' = what /\ ino' = 0 /\ cur' \in Pid \cup {0} /\ pc' = "watch" /\ quiet' = TRUE
      /\ what # None
  BY NoneIsNoData DEF Found, conn_entry
<1>3. TypeOK'
  BY <1>1, <1>2 DEF IInv, TypeOK, ProcTypeOK
<1>4. SocketInv'
  BY <1>1, <1>2 DEF IInv, SocketInv
<1>5. FlowInv'
  BY <1>1, <1>2, FlowKept DEF IInv, flowVars
<1> QED
  BY <1>3, <1>4, <1>5 DEF IInv

LEMMA InHand ==
  ASSUME TypeOK, pc # "recv"
  PROVE /\ ev \in Event /\ ev # None /\ ev.tuple \in Tuple /\ ent \in conn_entry
        /\ \A d \in Direction : /\ [ent EXCEPT !.dir = d] \in conn_entry
                               /\ [ent EXCEPT !.dir = d].start = ent.start
                               /\ [ent EXCEPT !.dir = d].dir = d
        /\ \A p \in Pid : /\ [ent EXCEPT !.pid = p] \in conn_entry
                         /\ [ent EXCEPT !.pid = p].start = ent.start
                         /\ [ent EXCEPT !.pid = p].dir = ent.dir
                         /\ [ent EXCEPT !.pid = p].pid = p
<1>1. ev \in Event /\ ev # None /\ ent \in conn_entry
  BY DEF TypeOK
<1> QED
  BY <1>1 DEF Event, conn_entry

LEMMA FindInodeInv == IInv /\ find_inode_with_dir => IInv'
<1> SUFFICES ASSUME IInv, find_inode_with_dir PROVE IInv'
  OBVIOUS
<1>1. /\ pc = "inode" /\ pc # "recv" /\ TypeOK
      /\ UNCHANGED <<system, queue, overrun, opt, ev, seen, conndb, names, lost>>
  BY DEF IInv, find_inode_with_dir
<1>2. UNCHANGED <<proc, forks, ct, flows, socks, inodes, queue, overrun, opt, ev, seen, conndb, names, lost>>
  BY <1>1 DEF system
<1>3. CASE Found([ent EXCEPT !.dir = Guess(ev.tuple)])
  <2>1. Guess(ev.tuple) \in Direction
    BY DEF Guess, Direction
  <2> QED
    BY <1>1, <1>3, <2>1, InHand, FoundInv
<1>4. CASE \E s \in Matches(ev.tuple) : /\ ent' = [ent EXCEPT !.dir = s.side] /\ ino' = s.inode
                                        /\ cur' = InitPid /\ pc' = "pid" /\ quiet' = quiet
  <2>1. PICK s \in socks : /\ s.tuple = ev.tuple /\ ent' = [ent EXCEPT !.dir = s.side]
                           /\ ino' = s.inode /\ cur' = InitPid /\ pc' = "pid" /\ quiet' = quiet
    BY <1>4 DEF Matches
  <2>2. s \in Sock /\ s.side \in Direction /\ s.inode \in Inode /\ s.pids \subseteq Pid /\ s.pids # {}
    BY DEF IInv, TypeOK, SocketInv, Sock, Direction
  <2>3. ent' \in conn_entry /\ ent' # None /\ ent'.start = ent.start /\ ent'.dir = s.side
    BY <1>1, <2>1, <2>2, InHand, NoneIsNoData
  <2>4. \E p \in s.pids : InitPid <= p
    BY <2>2, PidsAreNats
  <2>5. TypeOK'
    BY <1>1, <1>2, <2>1, <2>2, <2>3, PidsAreNats, InHand DEF TypeOK, ProcTypeOK
  <2>6. SocketInv'
    BY <1>2, <2>1, <2>3, <2>4 DEF IInv, SocketInv
  <2>7. FlowInv'
    BY <1>2, <2>3, FlowKept DEF IInv, flowVars
  <2> QED
    BY <2>5, <2>6, <2>7 DEF IInv
<1> QED
  BY <1>3, <1>4 DEF find_inode_with_dir

LEMMA InodeToPIDInv == IInv /\ inode_to_pid => IInv'
<1> SUFFICES ASSUME IInv, inode_to_pid PROVE IInv'
  OBVIOUS
<1>1. /\ pc = "pid" /\ pc # "recv" /\ TypeOK
      /\ UNCHANGED <<system, queue, overrun, opt, ev, seen, conndb, names, lost>>
  BY DEF IInv, inode_to_pid
<1>2. UNCHANGED <<proc, forks, ct, flows, socks, inodes, queue, overrun, opt, ev, seen, conndb, names, lost>>
  BY <1>1 DEF system
<1>3. CASE \E s \in socks : s.inode = ino /\ cur \in s.pids
  <2>1. Found([ent EXCEPT !.pid = cur])
    BY <1>3 DEF inode_to_pid
  <2>2. cur \in Pid
    BY <1>3 DEF IInv, TypeOK, Sock
  <2> QED
    BY <1>1, <2>1, <2>2, InHand, FoundInv
<1>4. CASE Found(ent)
  BY <1>1, <1>4, InHand, FoundInv
<1>5. CASE /\ ~ \E s \in socks : s.inode = ino /\ cur \in s.pids
           /\ \E p \in Pid : /\ p > cur /\ \A q \in Pid : q > cur => p <= q
                             /\ cur' = p /\ UNCHANGED <<ent, ino, pc, quiet>>
  <2>1. PICK p \in Pid : /\ p > cur /\ \A q \in Pid : q > cur => p <= q
                         /\ cur' = p /\ UNCHANGED <<ent, ino, pc, quiet>>
    BY <1>5
  <2>2. TypeOK'
    BY <1>1, <1>2, <2>1 DEF TypeOK, ProcTypeOK
  <2>3. FlowInv'
    BY <1>2, <2>1, FlowKept DEF IInv, flowVars
  <2>4. \A s \in socks : s.inode = ino /\ (\E q \in s.pids : cur <= q) => \E q \in s.pids : p <= q
    <3> SUFFICES ASSUME NEW s \in socks, s.inode = ino, NEW q \in s.pids, cur <= q PROVE p <= q
      OBVIOUS
    <3>1. q \in Pid /\ cur \in Pid \cup {0}
      BY DEF IInv, TypeOK, Sock
    <3>2. q # cur
      BY <1>5
    <3> QED
      BY <2>1, <3>1, <3>2, PidsAreNats
  <2>5. SocketInv'
    BY <1>2, <2>1, <2>4 DEF IInv, SocketInv
  <2> QED
    BY <2>2, <2>3, <2>5 DEF IInv
<1> QED
  BY <1>3, <1>4, <1>5 DEF inode_to_pid

\* A handler returns.
LEMMA ReturnInv ==
  ASSUME IInv, ev # None, Return, quiet' \in BOOLEAN,
         UNCHANGED <<system, queue, overrun, opt, lost>>,
         conndb' = conndb \/ (ev.kind = "new" /\ conndb' = [conndb EXCEPT ![ev.tuple] = ent]),
         names' \in [IP -> {"idle", "asked", "named", "unnamed"}]
  PROVE IInv'
<1>1. UNCHANGED <<proc, forks, ct, flows, socks, inodes, queue, overrun, opt, lost>>
  BY DEF system
<1>2. /\ pc' = "recv" /\ ev' = None /\ ent' = None /\ ino' = ino /\ cur' \in Pid /\ seen' = {}
  BY PidsAreNats DEF Return
<1>3. conndb' \in [Tuple -> conn_entry \cup {None}]
  <2>1. ent \in conn_entry /\ conndb \in [Tuple -> conn_entry \cup {None}]
    BY DEF IInv, TypeOK
  <2> QED
    BY <2>1
<1>4. TypeOK'
  BY <1>1, <1>2, <1>3 DEF IInv, TypeOK, ProcTypeOK
<1>5. SocketInv'
  BY <1>1, <1>2 DEF IInv, SocketInv
<1>6. FlowInv'
  BY <1>1, <1>2, FlowReturn DEF IInv
<1> QED
  BY <1>4, <1>5, <1>6 DEF IInv

LEMMA IsWatchedInv == IInv /\ is_watched => IInv'
<1> SUFFICES ASSUME IInv, is_watched PROVE IInv'
  OBVIOUS
<1>1. /\ pc = "watch" /\ ev # None /\ TypeOK
      /\ UNCHANGED <<system, queue, overrun, opt, conndb, names, lost>>
  BY DEF IInv, TypeOK, is_watched
<1>2. UNCHANGED <<proc, forks, ct, flows, socks, inodes, queue, overrun, opt, conndb, names, lost>>
  BY <1>1 DEF system
<1>3. CASE Return /\ quiet' = TRUE
  BY <1>1, <1>3, ReturnInv DEF TypeOK
<1>4. CASE /\ pc' \in {"watch", "emit"} /\ cur' \in Pid \cup {0} /\ seen' \subseteq Pid
           /\ quiet' \in BOOLEAN /\ UNCHANGED <<ev, ent, ino>>
  <2>1. TypeOK'
    BY <1>1, <1>2, <1>4 DEF TypeOK, ProcTypeOK
  <2>2. SocketInv'
    BY <1>2, <1>4 DEF IInv, SocketInv
  <2>3. FlowInv'
    BY <1>2, <1>4, FlowKept DEF IInv, flowVars
  <2> QED
    BY <2>1, <2>2, <2>3 DEF IInv
<1>5. CASE pc' = "emit" /\ cur' = InitPid /\ seen' = {} /\ quiet' = TRUE /\ UNCHANGED <<ev, ent, ino>>
  BY <1>4, <1>5, PidsAreNats
<1>6. CASE /\ Climbs(cur) /\ cur' = statPPID(cur) /\ seen' = seen \cup {cur}
           /\ UNCHANGED <<pc, ev, ent, ino, quiet>>
  <2>1. cur \in Pid
    BY <1>1, <1>6, PidsAreNats DEF Climbs, TypeOK
  <2>2. statPPID(cur) \in Pid \cup {0}
    BY <1>1, <1>6, <2>1 DEF Climbs, statPPID, Exists, TypeOK, ProcTypeOK, Process
  <2> QED
    BY <1>1, <1>4, <1>6, <2>1, <2>2 DEF TypeOK
<1> QED
  BY <1>3, <1>5, <1>6 DEF is_watched

LEMMA EmitInv == IInv /\ Emit => IInv'
<1> SUFFICES ASSUME IInv, Emit PROVE IInv'
  OBVIOUS
<1>1. /\ ev # None /\ Return /\ quiet' \in BOOLEAN /\ UNCHANGED <<system, queue, overrun, opt, lost>>
  BY DEF IInv, TypeOK, Emit
<1>2. conndb' = conndb \/ (ev.kind = "new" /\ conndb' = [conndb EXCEPT ![ev.tuple] = ent])
  BY DEF Emit, Store
<1>3. names' \in [IP -> {"idle", "asked", "named", "unnamed"}]
  BY DEF IInv, TypeOK, Emit, async_reverse_lookup
<1> QED
  BY <1>1, <1>2, <1>3, ReturnInv

LEMMA LookupInv == IInv /\ Lookup => IInv'
<1> SUFFICES ASSUME IInv, Lookup PROVE IInv'
  OBVIOUS
<1>1. /\ UNCHANGED <<proc, forks, ct, flows, socks, inodes, queue, overrun, lost, quiet>>
      /\ UNCHANGED <<pc, ev, ent, ino, cur, seen, opt, conndb>>
  BY DEF Lookup, system, local
<1>2. names' \in [IP -> {"idle", "asked", "named", "unnamed"}]
  BY DEF IInv, TypeOK, Lookup
<1>3. TypeOK' /\ SocketInv'
  BY <1>1, <1>2 DEF IInv, TypeOK, ProcTypeOK, SocketInv
<1>4. FlowInv'
  BY <1>1, FlowKept DEF IInv, flowVars
<1> QED
  BY <1>3, <1>4 DEF IInv

LEMMA StepInv == IInv /\ [Next]_vars => IInv'
<1> SUFFICES ASSUME IInv, [Next]_vars PROVE IInv'
  OBVIOUS
<1>1. CASE UNCHANGED vars
  <2>1. /\ UNCHANGED <<proc, forks, ct, flows, socks, inodes, queue, overrun, lost, quiet>>
        /\ UNCHANGED <<pc, ev, ent, ino, cur, seen, opt, conndb, names>>
    BY <1>1 DEF vars, system, tracer, local
  <2>2. TypeOK' /\ SocketInv'
    BY <2>1 DEF IInv, TypeOK, ProcTypeOK, SocketInv
  <2>3. FlowInv'
    BY <2>1, FlowKept DEF IInv, flowVars
  <2> QED
    BY <2>2, <2>3 DEF IInv
<1>2. CASE Kernel
  BY <1>2, KernelForkInv, KernelExitInv, KernelReapInv, OpenSocketInv, CloseSocketInv, ConntrackInv
     DEF Kernel
<1>3. CASE Tracer
  BY <1>3, RecvErrorInv, DispatchInv, FindInodeInv, InodeToPIDInv, IsWatchedInv, EmitInv DEF Tracer
<1> QED
  BY <1>1, <1>2, <1>3, LookupInv DEF Next

-----------------------------------------------------------------------------
(* The theorems.                                                           *)

\* The invariant holds in every behaviour.
THEOREM NetInvariant == Spec => []IInv
<1>1. Init => IInv
  BY InitInv
<1>2. IInv /\ [Next]_vars => IInv'
  BY StepInv
<1> QED
  BY <1>1, <1>2, PTL DEF Spec

\* Every variable of the net tracer keeps its type, and an event and an entry are
\* in hand exactly while a handler runs.
THEOREM TypeCorrect == Spec => []TypeOK
<1>1. IInv => TypeOK
  BY DEF IInv
<1> QED
  BY <1>1, NetInvariant, PTL

\* While no event is lost, an entry of conndb is about the flow conntrack has, or
\* handle_destroy has its destroy event still to come.
THEOREM EntriesCurrent == Spec => []ConnCurrent
<1>1. IInv => ConnCurrent
  BY DEF IInv, FlowInv
<1> QED
  BY <1>1, NetInvariant, PTL

\* While no event is lost, closed and update lines are computed from the new event
\* of the flow they report.
THEOREM LinesPaired == Spec => []LinePairs
<1>1. ASSUME IInv PROVE LinePairs
  <2> SUFFICES ASSUME ~lost, line # None
               PROVE line.start = line.flow \/ (line.kind = "update" /\ line.start = -1)
    BY DEF LinePairs
  <2>1. /\ pc = "emit" /\ line.start = ent.start /\ line.flow = ev.flow /\ line.kind = ev.kind
    BY DEF line
  <2>2. ev # None
    BY <1>1, <2>1 DEF IInv, TypeOK
  <2> QED
    BY <1>1, <2>1, <2>2 DEF IInv, FlowInv, Handling
<1> QED
  BY <1>1, NetInvariant, PTL

\* While the sockets of the tuple do not change and one is listed with the addresses
\* that ips_eq is given, find_pid_and_dir finds a process that has one and its side,
\* whatever processes do meanwhile.
THEOREM ProcessFound == Spec => Attributed
<1> DEFINE A == /\ pc \in {"inode", "pid"} /\ pc' = "watch" /\ quiet
                /\ \E s \in socks : s.tuple = ev.tuple /\ ~s.mapped
                => \E s \in socks : s.tuple = ev.tuple /\ s.side = ent'.dir /\ ent'.pid \in s.pids
<1>1. ASSUME IInv, [Next]_vars PROVE [A]_vars
  <2> SUFFICES ASSUME Next, pc \in {"inode", "pid"}, pc' = "watch", quiet,
                      \E s \in socks : s.tuple = ev.tuple /\ ~s.mapped
               PROVE \E s \in socks : s.tuple = ev.tuple /\ s.side = ent'.dir /\ ent'.pid \in s.pids
    BY <1>1
  <2>1. find_inode_with_dir \/ inode_to_pid
    <3>1. ~Kernel /\ ~Lookup
      BY DEF Kernel, Lookup, KernelFork, KernelExit, KernelReap, OpenSocket, CloseSocket, FlowNew,
             FlowUpdate, FlowDestroy, tracer, local
    <3>2. ~RecvError /\ ~Dispatch /\ ~is_watched /\ ~Emit
      BY DEF RecvError, Dispatch, Recv, is_watched, Emit
    <3> QED
      BY <3>1, <3>2 DEF Next, Tracer
  <2>2. ~find_inode_with_dir
    BY DEF find_inode_with_dir, Matches
  <2>3. inode_to_pid /\ pc = "pid" /\ pc # "recv" /\ TypeOK
    BY <1>1, <2>1, <2>2 DEF inode_to_pid, IInv
  <2>4. PICK s \in socks : /\ s.inode = ino /\ s.tuple = ev.tuple /\ s.side = ent.dir
                           /\ \E p \in s.pids : cur <= p
    BY <1>1, <2>3 DEF IInv, SocketInv
  <2>5. s.pids \subseteq Pid /\ cur \in Pid \cup {0}
    BY <2>3 DEF TypeOK, Sock
  <2>6. CASE \E r \in socks : r.inode = ino /\ cur \in r.pids
    <3>1. cur \in s.pids
      BY <1>1, <2>4, <2>6 DEF IInv, SocketInv
    <3>2. ent' = [ent EXCEPT !.pid = cur]
      BY <2>3, <2>6 DEF inode_to_pid, Found
    <3>3. ent'.dir = ent.dir /\ ent'.pid = cur
      BY <2>3, <2>5, <3>1, <3>2, InHand
    <3> QED
      BY <2>4, <3>1, <3>3
  <2>7. CASE ~ \E r \in socks : r.inode = ino /\ cur \in r.pids
    <3>1. \A p \in Pid : p <= cur
      BY <2>3, <2>7 DEF inode_to_pid
    <3>2. cur \in s.pids
      BY <2>4, <2>5, <3>1, PidsAreNats
    <3> QED
      BY <2>4, <2>7, <3>2
  <2> QED
    BY <2>6, <2>7
<1> QED
  BY <1>1, NetInvariant, PTL DEF Spec, Attributed

-----------------------------------------------------------------------------
(* What is_descendant finds in a process table that changes while it climbs. *)

LEMMA TreeMoves ==
  ASSUME [Next]_vars
  PROVE TreeStep \/ UNCHANGED <<proc, forks>>
<1>1. CASE KernelFork \/ KernelExit \/ KernelReap
  BY <1>1 DEF KernelFork, KernelExit, KernelReap, TreeStep
<1>2. CASE OpenSocket \/ CloseSocket \/ FlowNew \/ FlowUpdate \/ FlowDestroy
  BY <1>2 DEF OpenSocket, CloseSocket, FlowNew, FlowUpdate, FlowDestroy, system
<1>3. CASE Tracer \/ Lookup \/ UNCHANGED vars
  BY <1>3 DEF Tracer, RecvError, Dispatch, Recv, find_inode_with_dir, inode_to_pid, is_watched,
              Emit, Lookup, vars, system
<1> QED
  BY <1>1, <1>2, <1>3 DEF Next, Kernel

\* The process table keeps its shape while the tracer runs: pid 1 runs, and every other
\* process has a parent that runs and is pid 1 or started before it.
THEOREM TreeInvariant == Spec => []TreeOK
<1>1. Init => TreeOK
  BY TreeInit DEF Init
<1>2. TypeOK /\ TreeOK /\ [Next]_vars => TreeOK'
  BY TreeMoves, TreePreserved, TreeUnchanged DEF TypeOK
<1> QED
  BY <1>1, <1>2, TypeCorrect, PTL DEF Spec

LEMMA GenOf ==
  ASSUME ProcTypeOK, NEW p \in Pid, Exists(p)
  PROVE proc[p].gen \in Int
<1>1. proc[p].gen \in Gen
  BY DEF ProcTypeOK, Process, Exists
<1> QED
  BY <1>1, MaxForksAssumption DEF Gen

\* Where is_descendant stops without a root and with room left, there is none above.
LEMMA WatchStops ==
  ASSUME TypeOK, TreeOK, WatchClimb, pc = "watch", quiet, cur \in Pid \ WatchPIDs, ~Climbs(cur),
         ~(cur > InitPid) \/ Cardinality(seen) < MaxAncestors
  PROVE ~Descends(cur)
<1>0. ProcTypeOK /\ cur \in Pid
  BY DEF TypeOK
<1>1. PICK c \in Pid \ WatchPIDs : c = cur
  OBVIOUS
<1>2. CASE ~(c > InitPid)
  <2>1. c = InitPid
    BY <1>2, PidsAreNats
  <2>2. statPPID(c) = 0
    BY <2>1 DEF TreeOK, statPPID, Running
  <2> QED
    BY <1>0, <1>1, <2>2, TopDescendsNot
<1>3. CASE c \in seen
  <2>1. Exists(c) /\ c # InitPid /\ proc[c].gen < proc[c].gen
    BY <1>1, <1>3 DEF WatchClimb
  <2> QED
    BY <1>0, <2>1, GenOf
<1>4. CASE ~(statPPID(c) > 0)
  <2>1. statPPID(c) \in Int
    <3>1. statPPID(c) \in Pid \cup {0, -1}
      BY <1>0 DEF statPPID, Exists, ProcTypeOK, Process
    <3> QED
      BY <3>1, PidsAreNats
  <2>2. statPPID(c) <= 0
    BY <1>4, <2>1
  <2> QED
    BY <1>0, <1>1, <2>2, TopDescendsNot
<1> QED
  BY <1>1, <1>2, <1>3, <1>4 DEF Climbs

\* Where it goes on, it goes on to an older process that is below a root if this one is.
LEMMA WatchGoesOn ==
  ASSUME TypeOK, TreeOK, WatchClimb, pc = "watch", quiet, ~Watched(cur), Climbs(cur)
  PROVE \E a \in Pid :
          /\ a = statPPID(cur) /\ Exists(a)
          /\ ent.pid \in Pid \ WatchPIDs /\ Exists(ent.pid)
          /\ Descends(ent.pid) <=> Descends(a)
          /\ \A q \in seen \cup {cur} : /\ q # InitPid /\ Exists(q)
                                        /\ a = InitPid \/ proc[a].gen < proc[q].gen
<1>0. ProcTypeOK /\ seen \subseteq Pid
  BY DEF TypeOK
<1>1. cur > InitPid /\ statPPID(cur) > 0 /\ cur \notin WatchPIDs
  BY DEF Climbs, Watched
<1>2. cur \in Pid
  <2>1. cur \in Pid \cup {0}
    BY DEF TypeOK
  <2> QED
    BY <1>1, <2>1, PidsAreNats
<1>3. PICK c \in Pid \ WatchPIDs : c = cur
  BY <1>1, <1>2
<1>4. Exists(c) /\ proc[c].parent = statPPID(c)
  BY <1>1, <1>3 DEF statPPID
<1>5. PICK a \in Pid : a = proc[c].parent /\ a = statPPID(c) /\ a > 0
  <2>1. proc[c].parent \in Pid \cup {0}
    BY <1>0, <1>4 DEF Exists, ProcTypeOK, Process
  <2>2. proc[c].parent # 0
    BY <1>1, <1>3, <1>4
  <2> QED
    BY <1>4, <2>1, <2>2, PidsAreNats
<1>6. Exists(a) /\ (a = InitPid \/ proc[a].gen < proc[c].gen)
  BY <1>0, <1>4, <1>5, ParentOlder
<1>7. Descends(c) <=> Descends(a)
  BY <1>0, <1>5, <1>6, ParentDescends
<1>8. /\ ent.pid \in Pid \ WatchPIDs /\ Exists(ent.pid)
      /\ Descends(ent.pid) <=> Descends(c)
      /\ \A q \in seen : q # InitPid /\ Exists(q) /\ (c = InitPid \/ proc[c].gen < proc[q].gen)
  BY <1>3, <1>4 DEF WatchClimb
<1>9. c # InitPid
  BY <1>1, <1>3, PidsAreNats
<1>10. ASSUME NEW q \in seen
       PROVE q # InitPid /\ Exists(q) /\ (a = InitPid \/ proc[a].gen < proc[q].gen)
  <2>1. q \in Pid /\ q # InitPid /\ Exists(q) /\ proc[c].gen < proc[q].gen
    BY <1>0, <1>8, <1>9
  <2>2. proc[a].gen \in Int /\ proc[c].gen \in Int /\ proc[q].gen \in Int
    BY <1>0, <1>4, <1>6, <2>1, GenOf
  <2> QED
    BY <1>6, <2>1, <2>2
<1> QED
  BY <1>3, <1>4, <1>5, <1>6, <1>7, <1>8, <1>9, <1>10

LEMMA WatchStep ==
  ASSUME TypeOK, TreeOK, WatchClimb, [Next]_vars
  PROVE WatchClimb'
<1>0. ProcTypeOK /\ seen \subseteq Pid
  BY DEF TypeOK
<1>1. CASE is_watched
  <2>1. pc = "watch" /\ proc' = proc
    BY <1>1 DEF is_watched, system
  <2>2. CASE pc' # "watch"
    BY <1>1, <2>2 DEF is_watched, Return, WatchClimb
  <2>3. CASE pc' = "watch" /\ quiet'
    <3>1. /\ ~Watched(cur) /\ Climbs(cur) /\ cur' = statPPID(cur) /\ seen' = seen \cup {cur}
          /\ ent' = ent /\ quiet
      BY <1>1, <2>3 DEF is_watched, Return
    <3>2. PICK a \in Pid :
          /\ a = statPPID(cur) /\ Exists(a)
          /\ ent.pid \in Pid \ WatchPIDs /\ Exists(ent.pid)
          /\ Descends(ent.pid) <=> Descends(a)
          /\ \A q \in seen \cup {cur} : /\ q # InitPid /\ Exists(q)
                                        /\ a = InitPid \/ proc[a].gen < proc[q].gen
      BY <2>1, <3>1, WatchGoesOn
    <3>3. cur' = a
      BY <3>1, <3>2
    <3> QED
      BY <2>1, <2>3, <3>1, <3>2, <3>3 DEF WatchClimb, Exists, Descends
  <2> QED
    BY <2>2, <2>3 DEF WatchClimb
<1>2. CASE KernelFork
  <2>1. UNCHANGED <<pc, ent, cur, seen>> /\ (pc = "watch" /\ quiet' => quiet)
    BY <1>2 DEF KernelFork, Sockets, tracer, local
  <2>2. PICK x \in Pid, d \in Pid : Fork(x, d)
    BY <1>2 DEF KernelFork
  <2>3. \A q \in Pid : Exists(q) => /\ Exists(q)' /\ proc'[q] = proc[q]
                                    /\ Descends(q)' <=> Descends(q)
    BY <1>0, <2>2, ForkKeeps
  <2> SUFFICES ASSUME pc = "watch", quiet, ~(cur = ent.pid /\ seen = {})
               PROVE /\ ent.pid \in Pid \ WatchPIDs /\ Exists(ent.pid)'
                     /\ cur \in Pid /\ Exists(cur)'
                     /\ Descends(ent.pid)' <=> Descends(cur)'
                     /\ \A q \in seen : /\ q # InitPid /\ Exists(q)'
                                        /\ cur = InitPid \/ proc'[cur].gen < proc'[q].gen
    BY <2>1 DEF WatchClimb
  <2>4. PICK h \in Pid \ WatchPIDs, c \in Pid : h = ent.pid /\ c = cur
    BY DEF WatchClimb
  <2>5. /\ Exists(h) /\ Exists(c) /\ (Descends(h) <=> Descends(c))
        /\ \A q \in seen : q # InitPid /\ Exists(q) /\ (c = InitPid \/ proc[c].gen < proc[q].gen)
    BY <2>4 DEF WatchClimb
  <2>6. /\ Exists(h)' /\ Exists(c)' /\ (Descends(h)' <=> Descends(c)')
        /\ \A q \in seen : /\ q # InitPid /\ Exists(q)'
                           /\ c = InitPid \/ proc'[c].gen < proc'[q].gen
    BY <1>0, <2>3, <2>5
  <2> QED
    BY <2>1, <2>4, <2>6 DEF Exists, Descends
<1>3. CASE KernelExit \/ KernelReap
  <2>1. UNCHANGED <<pc, seen>> /\ (pc = "watch" => ~quiet')
    BY <1>3 DEF KernelExit, KernelReap, Sockets, tracer, local
  <2> QED
    BY <2>1 DEF WatchClimb
<1>4. CASE UNCHANGED <<proc, pc, ent, cur, seen>> /\ (pc = "watch" /\ quiet' => quiet)
  BY <1>4 DEF WatchClimb, Exists, Descends
<1>5. CASE OpenSocket \/ CloseSocket
  BY <1>4, <1>5 DEF OpenSocket, CloseSocket, Sockets, tracer, local
<1>6. CASE FlowNew \/ FlowUpdate \/ FlowDestroy \/ RecvError \/ Lookup \/ UNCHANGED vars
  BY <1>4, <1>6 DEF FlowNew, FlowUpdate, FlowDestroy, RecvError, Lookup, vars, tracer, local, system
<1>7. CASE Dispatch
  <2>1. PICK e \in Event : Recv(e) /\ (handle_new(e) \/ handle_update(e) \/ handle_destroy(e))
    BY <1>7 DEF Dispatch
  <2>2. CASE UNCHANGED local
    BY <2>1, <2>2 DEF Recv, local, WatchClimb
  <2>3. CASE \E what, next : Begin(e, what, next)
    BY <2>3 DEF Begin, WatchClimb
  <2> QED
    BY <2>1, <2>2, <2>3 DEF handle_new, handle_update, handle_destroy
<1>8. CASE find_inode_with_dir \/ inode_to_pid
  <2>1. pc \in {"inode", "pid"} /\ seen' = {}
    BY <1>8 DEF find_inode_with_dir, inode_to_pid, WatchClimb
  <2>2. pc' = "watch" => cur' = ent'.pid
    BY <1>8 DEF find_inode_with_dir, inode_to_pid, Found
  <2> QED
    BY <2>1, <2>2 DEF WatchClimb
<1>9. CASE Emit
  BY <1>9 DEF Emit, Return, WatchClimb
<1> QED
  BY <1>1, <1>2, <1>3, <1>5, <1>6, <1>7, <1>8, <1>9 DEF Next, Kernel, Tracer

\* If nothing ends while it reads, is_watched says yes only to the connections of watched
\* roots and of the processes below them, and to all of these for which is_descendant's
\* list of MaxAncestors pids does not fill up, however the table grows.
THEOREM WatchedRightly == Spec => WatchExact
<1> DEFINE A == pc = "watch" /\ pc' # "watch" /\ quiet /\ WatchPIDs # {}
                  => LET ours == ent.pid \in WatchPIDs \/ (ent.pid # 0 /\ Descends(ent.pid))
                     IN /\ pc' = "emit" => ours
                        /\ ours => \/ pc' = "emit"
                                   \/ cur > InitPid /\ ~(Cardinality(seen) < MaxAncestors)
<1>1. ASSUME TypeOK, TreeOK, WatchClimb, [Next]_vars PROVE [A]_vars
  <2> SUFFICES ASSUME Next, pc = "watch", pc' # "watch", quiet, WatchPIDs # {}
               PROVE LET ours == ent.pid \in WatchPIDs \/ (ent.pid # 0 /\ Descends(ent.pid))
                     IN /\ pc' = "emit" => ours
                        /\ ours => \/ pc' = "emit"
                                   \/ cur > InitPid /\ ~(Cardinality(seen) < MaxAncestors)
    BY <1>1
  <2>0. ProcTypeOK /\ cur \in Pid \cup {0} /\ 0 \notin WatchPIDs /\ 0 \notin Pid
    BY <1>1, PidsAreNats, WatchPIDsAssumption DEF TypeOK
  <2>1. is_watched
    <3>1. ~Kernel /\ ~Lookup
      BY DEF Kernel, Lookup, KernelFork, KernelExit, KernelReap, OpenSocket, CloseSocket, FlowNew,
             FlowUpdate, FlowDestroy, tracer, local
    <3>2. ~RecvError /\ ~Dispatch /\ ~find_inode_with_dir /\ ~inode_to_pid /\ ~Emit
      BY DEF RecvError, Dispatch, Recv, find_inode_with_dir, inode_to_pid, Emit
    <3> QED
      BY <3>1, <3>2 DEF Next, Tracer
  <2>2. CASE Watched(cur)
    <3>1. pc' = "emit"
      BY <2>1, <2>2 DEF is_watched
    <3>2. PICK c \in WatchPIDs : c = cur
      BY <2>2 DEF Watched
    <3>3. CASE cur = ent.pid
      BY <3>1, <3>2, <3>3
    <3>4. CASE cur # ent.pid
      <4>1. ent.pid \in Pid /\ Exists(c) /\ (Descends(ent.pid) <=> Descends(c))
        BY <1>1, <3>2, <3>4 DEF WatchClimb
      <4>2. Descends(c)
        BY <2>0, <4>1, RootDescends
      <4> QED
        BY <2>0, <3>1, <4>1, <4>2
    <3> QED
      BY <3>3, <3>4
  <2>3. CASE ~Watched(cur)
    <3>1. pc' # "emit" /\ ~Climbs(cur)
      BY <2>1, <2>3 DEF is_watched, Return
    <3>2. CASE cur = 0
      <4>1. ent.pid = 0
        BY <1>1, <2>0, <3>2 DEF WatchClimb
      <4> QED
        BY <2>0, <3>1, <4>1
    <3>3. CASE cur # 0 /\ (~(cur > InitPid) \/ Cardinality(seen) < MaxAncestors)
      <4>1. cur \in Pid \ WatchPIDs
        BY <2>0, <2>3, <3>3 DEF Watched
      <4>2. ~Descends(cur)
        BY <1>1, <3>1, <3>3, <4>1, WatchStops
      <4>3. ent.pid \notin WatchPIDs /\ ~Descends(ent.pid)
        BY <1>1, <4>1, <4>2 DEF WatchClimb
      <4> QED
        BY <3>1, <4>3
    <3> QED
      BY <3>1, <3>2, <3>3
  <2> QED
    BY <2>2, <2>3
<1>2. Init => WatchClimb
  BY DEF Init, WatchClimb
<1>3. TypeOK /\ TreeOK /\ WatchClimb /\ [Next]_vars => WatchClimb'
  BY WatchStep
<1>4. Spec => []WatchClimb
  BY <1>2, <1>3, TypeCorrect, TreeInvariant, PTL DEF Spec
<1> QED
  BY <1>1, <1>4, TypeCorrect, TreeInvariant, PTL DEF Spec, WatchExact

=============================================================================
