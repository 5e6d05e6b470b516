---------------------------- MODULE PidDBProofs -----------------------------
(***************************************************************************)
(* Proofs about the hash table of module PidDB, for every capacity,        *)
(* multiplier and set of pids.                                             *)
(***************************************************************************)
EXTENDS PidDB, FiniteSetTheorems, TLAPS

-----------------------------------------------------------------------------
(* Arithmetic of the ring of slots.                                        *)

\* piddb_hash masks its result into the table.
LEMMA HashInSlot == \A p \in Pid : piddb_hash(p) \in Slot
  <1> TAKE p \in Pid
  <1>1. p * Knuth \in Nat
    BY PidAssumption, KnuthAssumption
  <1>2. (p * Knuth) % Cap \in 0 .. Cap - 1
    BY <1>1, CapAssumption
  <1> QED
    BY <1>2 DEF piddb_hash, Slot

\* Distances along the ring are below Cap, zero only from a slot to itself,
\* and tell slots apart.
LEMMA DistFacts ==
  ASSUME NEW a \in Slot, NEW b \in Slot
  PROVE  /\ Dist(a, b) \in 0 .. Cap - 1
         /\ Dist(a, b) = 0 <=> a = b
         /\ \A c \in Slot : Dist(a, b) = Dist(a, c) => b = c
  BY CapAssumption DEF Slot, Dist

\* The k-th probe from h is the slot at distance k.
LEMMA AtFacts ==
  ASSUME NEW h \in Slot, NEW k \in 0 .. Cap - 1
  PROVE  At(h, k) \in Slot /\ Dist(h, At(h, k)) = k
  BY CapAssumption DEF Slot, Dist, At

\* Moving the cursor one slot on brings every other slot one step nearer.
LEMMA CursorStep ==
  ASSUME NEW a \in Slot, NEW s \in Slot, s # a
  PROVE  At(a, 1) \in Slot /\ Dist(At(a, 1), s) = Dist(a, s) - 1
  BY CapAssumption DEF Slot, Dist, At

\* If v is on the way from h to s, so is every slot between v and s.
LEMMA PathTail ==
  ASSUME NEW h \in Slot, NEW v \in Slot, NEW s \in Slot, NEW u \in Slot,
         Dist(h, v) < Dist(h, s), Dist(v, u) \in 1 .. Dist(v, s), u # s
  PROVE  Dist(h, u) < Dist(h, s) /\ u # v
  BY CapAssumption DEF Slot, Dist

-----------------------------------------------------------------------------
(* Type correctness.                                                       *)

\* Here(p) is a slot whenever the probe counter is in range.
LEMMA HereInSlot ==
  ASSUME TypeOK, NEW p \in Pid, probe < Cap
  PROVE  Here(p) \in Slot /\ Dist(piddb_hash(p), Here(p)) = probe
  <1>1. probe \in 0 .. Cap - 1
    BY CapAssumption DEF TypeOK
  <1> QED
    BY <1>1, HashInSlot, AtFacts DEF Here

\* The slots are finitely many, so the used ones can be counted.
LEMMA SlotFinite == IsFiniteSet(Slot) /\ Cardinality(Slot) = Cap
  <1>1. Cap - 1 >= 0 /\ 0 \in Int /\ Cap - 1 \in Int
    BY CapAssumption
  <1> QED
    BY <1>1, FS_Interval, CapAssumption DEF Slot

\* A set of slots has at most Cap members.
LEMMA CountInRange ==
  ASSUME NEW U \in SUBSET Slot
  PROVE  Cardinality(U) \in 0 .. Cap
  <1>1. IsFiniteSet(U) /\ Cardinality(U) <= Cap
    BY SlotFinite, FS_Subset
  <1>2. Cardinality(U) \in Nat
    BY <1>1, FS_CardinalityType
  <1> QED
    BY <1>1, <1>2, CapAssumption

\* Filling a free slot adds one to the count, overwriting a used one nothing.
LEMMA CountFill ==
  ASSUME TypeOK, LenIsCount, NEW s \in Slot, NEW e \in Entry,
         pidDB' = [pidDB EXCEPT ![s] = e],
         pidDBLen' = IF Used(s) THEN pidDBLen ELSE pidDBLen + 1
  PROVE  LenIsCount'
  <1>1. UsedSlots' = UsedSlots \cup {s}
    BY NullAssumption DEF UsedSlots, Used, TypeOK, Entry
  <1>2. IsFiniteSet(UsedSlots)
    BY SlotFinite, FS_Subset DEF UsedSlots
  <1>3. Cardinality(UsedSlots \cup {s})
          = IF s \in UsedSlots THEN Cardinality(UsedSlots) ELSE Cardinality(UsedSlots) + 1
    BY <1>2, FS_AddElement
  <1> QED
    BY <1>1, <1>3 DEF LenIsCount, UsedSlots

\* Freeing a used slot takes one from the count.
LEMMA CountFree ==
  ASSUME TypeOK, LenIsCount, NEW s \in Slot, Used(s),
         pidDB' = [pidDB EXCEPT ![s] = Null],
         pidDBLen' = pidDBLen - 1
  PROVE  LenIsCount'
  <1>1. UsedSlots' = UsedSlots \ {s} /\ s \in UsedSlots
    BY DEF UsedSlots, Used, TypeOK
  <1>2. IsFiniteSet(UsedSlots)
    BY SlotFinite, FS_Subset DEF UsedSlots
  <1>3. Cardinality(UsedSlots \ {s}) = Cardinality(UsedSlots) - 1
    BY <1>1, <1>2, FS_RemoveElement
  <1> QED
    BY <1>1, <1>3 DEF LenIsCount

\* LenIsCount reads only the table and the counter.
LEMMA CountSame ==
  ASSUME LenIsCount, UNCHANGED <<pidDB, pidDBLen>>
  PROVE  LenIsCount'
  BY DEF LenIsCount, UsedSlots, Used

-----------------------------------------------------------------------------
(* The inductive invariant, action by action.                              *)

\* The empty table satisfies the invariant.
LEMMA InitIInv == Init => IInv
  <1> SUFFICES ASSUME Init PROVE IInv
    OBVIOUS
  <1>1. UsedSlots = {}
    BY DEF Init, UsedSlots, Used
  <1>2. LenIsCount
    BY <1>1, FS_EmptySet DEF Init, LenIsCount
  <1>3. TypeOK
    BY CapAssumption DEF Init, TypeOK, Slot
  <1>4. Reachable /\ UniquePid
    BY DEF Init, Reachable, UniquePid, Used
  <1>5. Probed /\ AheadOfCursor /\ HoleAtCursor
    BY DEF Init, Probed, AheadOfCursor, HoleAtCursor
  <1> QED
    BY <1>2, <1>3, <1>4, <1>5 DEF IInv

\* Starting a search.
LEMMA CallIInv ==
  ASSUME IInv, NEW p \in Pid, NEW v \in Val, NEW name \in {"find", "get", "delete"},
         Call(name, p, v)
  PROVE  IInv'
  <1> USE DEF IInv, Call
  <1>1. LenIsCount'
    BY CountSame
  <1>2. TypeOK'
    BY NullAssumption, CapAssumption DEF TypeOK, Entry
  <1>3. Reachable' /\ UniquePid'
    BY DEF Reachable, UniquePid, Used, OnPath
  <1>4. Probed'
    <2>1. probe' = 0 /\ Subject' = p
      BY DEF Subject
    <2>2. \A s \in Slot : ~(Dist(piddb_hash(p), s) < 0)
      BY HashInSlot, DistFacts
    <2> QED
      BY <2>1, <2>2 DEF Probed
  <1>5. AheadOfCursor' /\ HoleAtCursor'
    BY DEF AheadOfCursor, HoleAtCursor
  <1> QED
    BY <1>1, <1>2, <1>3, <1>4, <1>5

\* One probe further: the slot passed is used and another pid's.
LEMMA ProbeOnIInv ==
  ASSUME IInv, pc \in {"find", "get", "delete", "reinsert"}, ProbeOn(Subject)
  PROVE  IInv'
  <1> USE DEF IInv, ProbeOn
  <1>0. Subject \in Pid
    BY DEF Subject, TypeOK, Entry
  <1>1. LenIsCount'
    BY CountSame
  <1>2. TypeOK'
    BY CapAssumption DEF TypeOK
  <1>3. Reachable' /\ UniquePid'
    BY DEF Reachable, UniquePid, Used, OnPath
  <1>4. Probed'
    <2>1. Subject' = Subject
      BY DEF Subject
    <2>2. ASSUME NEW s \in Slot, Dist(piddb_hash(Subject), s) < probe + 1
          PROVE  Used(s) /\ pidDB[s].pid # Subject
      <3>1. Dist(piddb_hash(Subject), s) < probe \/ Dist(piddb_hash(Subject), s) = probe
        BY <1>0, <2>2, HashInSlot, DistFacts DEF TypeOK
      <3>2. CASE Dist(piddb_hash(Subject), s) < probe
        BY <3>2 DEF Probed
      <3>3. CASE Dist(piddb_hash(Subject), s) = probe
        <4>1. s = Here(Subject)
          BY <1>0, <3>3, HereInSlot, HashInSlot, DistFacts
        <4> QED
          BY <4>1 DEF Elsewhere
      <3> QED
        BY <3>1, <3>2, <3>3
    <2> QED
      BY <2>1, <2>2 DEF Probed, Used
  <1>5. AheadOfCursor' /\ HoleAtCursor'
    BY DEF AheadOfCursor, HoleAtCursor, Used, OnPath
  <1> QED
    BY <1>1, <1>2, <1>3, <1>4, <1>5

\* A step that leaves the table alone and ends the search.
LEMMA EndSearchIInv ==
  ASSUME IInv, pc \in {"find", "get", "delete"}, pc' \in {"done", "crashed"},
         ret' \in Entry \cup {Null},
         UNCHANGED <<pidDB, pidDBLen, arg, probe, j, tmp>>
  PROVE  IInv'
  <1> USE DEF IInv
  <1>1. LenIsCount'
    BY CountSame
  <1>2. TypeOK'
    BY DEF TypeOK
  <1>3. Reachable' /\ UniquePid'
    BY DEF Reachable, UniquePid, Used, OnPath
  <1>4. Probed' /\ AheadOfCursor' /\ HoleAtCursor'
    BY DEF Probed, AheadOfCursor, HoleAtCursor
  <1> QED
    BY <1>1, <1>2, <1>3, <1>4

\* The caller takes its result.
LEMMA ReturnIInv ==
  ASSUME IInv, Return
  PROVE  IInv'
  <1> USE DEF IInv, Return
  <1>1. LenIsCount'
    BY CountSame
  <1>2. TypeOK'
    BY CapAssumption DEF TypeOK, Slot
  <1>3. Reachable' /\ UniquePid'
    BY DEF Reachable, UniquePid, Used, OnPath
  <1>4. Probed' /\ AheadOfCursor' /\ HoleAtCursor'
    BY DEF Probed, AheadOfCursor, HoleAtCursor
  <1> QED
    BY <1>1, <1>2, <1>3, <1>4

\* A search that stops at a free slot, or has passed the whole table, has shown
\* that no slot holds its pid.
LEMMA Miss ==
  ASSUME IInv, pc \in {"find", "get", "delete"},
         probe < Cap => ~Used(Here(arg.pid))
  PROVE  \A s \in Slot : Used(s) => pidDB[s].pid # arg.pid
  <1> USE DEF IInv
  <1> DEFINE p == arg.pid
             h == piddb_hash(p)
  <1>1. p \in Pid /\ Subject = p /\ h \in Slot
    BY HashInSlot DEF TypeOK, Entry, Subject
  <1> SUFFICES ASSUME NEW s \in Slot, Used(s), pidDB[s].pid = p
               PROVE  FALSE
    OBVIOUS
  <1>2. ~(Dist(h, s) < probe)
    BY <1>1 DEF Probed
  <1>3. probe < Cap
    BY <1>1, <1>2, DistFacts, CapAssumption DEF TypeOK
  <1>4. Here(p) \in Slot /\ Dist(h, Here(p)) = probe
    BY <1>1, <1>3, HereInSlot
  <1>5. Dist(h, Here(p)) < Dist(h, s)
    BY <1>1, <1>2, <1>3, <1>4, DistFacts DEF TypeOK
  <1>6. OnPath(Here(p), s)
    BY <1>5 DEF OnPath
  <1> QED
    BY <1>3, <1>4, <1>6 DEF Reachable

\* piddb_get stores at the first free slot or over the pid's own entry.
LEMMA StoreIInv ==
  ASSUME IInv, pc = "get", Store(arg), pc' = "done", UNCHANGED <<arg, probe, j, tmp, ret>>
  PROVE  IInv'
  <1> USE DEF IInv, Store
  <1> DEFINE p == arg.pid
             h == piddb_hash(p)
  <1>1. arg \in Entry /\ p \in Pid /\ Subject = p /\ h \in Slot
    BY HashInSlot DEF TypeOK, Entry, Subject
  <1>2. PICK w \in Slot : w = Here(p) /\ Dist(h, w) = probe
    BY <1>1, HereInSlot
  <1>3. LenIsCount'
    BY <1>1, <1>2, CountFill
  <1>4. pidDBLen' \in 0 .. Cap
    BY <1>3, CountInRange DEF LenIsCount, UsedSlots
  <1>5. TypeOK'
    BY <1>1, <1>2, <1>4 DEF TypeOK
  <1>6. \A s \in Slot : s # w => Used(s)' = Used(s) /\ pidDB'[s] = pidDB[s]
    BY <1>2 DEF TypeOK, Used
  <1>7. Used(w)' /\ pidDB'[w] = arg
    BY <1>1, <1>2, NullAssumption DEF TypeOK, Used, Entry
  <1>8. \A s \in Slot : s # w /\ Used(s) => pidDB[s].pid # p
    <2>1. CASE Used(w)
      BY <1>2, <2>1 DEF UniquePid, Elsewhere
    <2>2. CASE ~Used(w)
      BY <1>2, <2>2, Miss
    <2> QED
      BY <2>1, <2>2
  <1>9. UniquePid'
    BY <1>2, <1>6, <1>7, <1>8 DEF UniquePid, TypeOK
  <1>10. Reachable'
    <2> SUFFICES ASSUME NEW s \in Slot, NEW t \in Slot, Used(s)', OnPath(t, s)'
                 PROVE  Used(t)'
      BY DEF Reachable
    <2>1. CASE s = w
      <3>1. Dist(h, t) < probe
        BY <1>2, <1>7, <2>1 DEF OnPath
      <3>2. Used(t)
        BY <1>1, <3>1 DEF Probed
      <3> QED
        BY <1>6, <1>7, <3>2
    <2>2. CASE s # w
      <3>1. Used(s) /\ pidDB'[s] = pidDB[s]
        BY <1>6, <2>2
      <3>2. OnPath(t, s)
        BY <3>1 DEF OnPath
      <3>3. Used(t)
        BY <3>1, <3>2 DEF Reachable
      <3> QED
        BY <1>6, <1>7, <3>3
    <2> QED
      BY <2>1, <2>2
  <1>11. Probed' /\ AheadOfCursor' /\ HoleAtCursor'
    BY DEF Probed, AheadOfCursor, HoleAtCursor
  <1> QED
    BY <1>3, <1>5, <1>9, <1>10, <1>11

\* Freeing slot v leaves at most the entries that lie ahead of v, across used
\* slots only, with a hole in their path.
LEMMA FreeLeavesAhead ==
  ASSUME TypeOK, NEW v \in Slot, Used(v),
         pidDB' = [pidDB EXCEPT ![v] = Null],
         NEW s \in Slot, NEW t \in Slot, Used(s)', OnPath(t, s)', ~Used(t)',
         \A x \in Slot : OnPath(x, s) => Used(x)
  PROVE  s # v /\ \A u \in Slot : Dist(v, u) \in 1 .. Dist(v, s) => Used(u)'
  <1> DEFINE h == piddb_hash(pidDB[s].pid)
  <1>1. s # v /\ pidDB'[s] = pidDB[s]
    BY DEF TypeOK, Used
  <1>2. Used(s) /\ OnPath(t, s) /\ h \in Slot
    BY <1>1, HashInSlot DEF Used, OnPath, TypeOK, Entry
  <1>3. t = v
    BY <1>2 DEF TypeOK, Used
  <1>4. Dist(h, v) < Dist(h, s)
    BY <1>2, <1>3 DEF OnPath
  <1>5. ASSUME NEW u \in Slot, Dist(v, u) \in 1 .. Dist(v, s)
        PROVE  Used(u)'
    <2>1. u # v
      BY <1>5, DistFacts
    <2>2. Used(u)
      <3>1. CASE u = s
        BY <1>2, <3>1
      <3>2. CASE u # s
        BY <1>2, <1>4, <1>5, <3>2, PathTail DEF OnPath
      <3> QED
        BY <3>1, <3>2
    <2> QED
      BY <2>1, <2>2 DEF TypeOK, Used
  <1> QED
    BY <1>1, <1>5

\* piddb_delete frees the slot of its pid.
LEMMA FreeIInv ==
  ASSUME IInv, pc = "delete", probe < Cap, Hit(arg.pid),
         ret' = pidDB[Here(arg.pid)],
         pidDB' = [pidDB EXCEPT ![Here(arg.pid)] = Null],
         pidDBLen' = pidDBLen - 1,
         j' = Here(arg.pid),
         pc' = "rehash",
         UNCHANGED <<arg, probe, tmp>>
  PROVE  IInv'
  <1> USE DEF IInv
  <1>1. arg \in Entry /\ arg.pid \in Pid
    BY DEF TypeOK, Entry
  <1>2. PICK v \in Slot : v = Here(arg.pid)
    BY <1>1, HereInSlot
  <1>3. Used(v)
    BY <1>2 DEF Hit
  <1>4. LenIsCount'
    BY <1>2, <1>3, CountFree
  <1>5. pidDBLen' \in 0 .. Cap
    BY <1>4, CountInRange DEF LenIsCount, UsedSlots
  <1>6. TypeOK'
    BY <1>2, <1>5 DEF TypeOK
  <1>7. UniquePid'
    BY <1>2 DEF UniquePid, Used, TypeOK
  <1>8. AheadOfCursor'
    <2> SUFFICES ASSUME NEW s \in Slot, NEW t \in Slot, Used(s)', OnPath(t, s)', ~Used(t)'
                 PROVE  s # v /\ \A u \in Slot : Dist(v, u) \in 1 .. Dist(v, s) => Used(u)'
      BY <1>2 DEF AheadOfCursor
    <2>1. Used(s)
      BY <1>2 DEF TypeOK, Used
    <2>2. \A x \in Slot : OnPath(x, s) => Used(x)
      BY <2>1 DEF Reachable
    <2> QED
      BY <1>2, <1>3, <2>2, FreeLeavesAhead
  <1>9. Reachable' /\ Probed' /\ HoleAtCursor'
    BY DEF Reachable, Probed, HoleAtCursor
  <1> QED
    BY <1>4, <1>6, <1>7, <1>8, <1>9

\* The cursor reaches a free slot: no entry is left with a hole in its path.
LEMMA ClusterEndIInv ==
  ASSUME IInv, pc = "rehash", j' = At(j, 1), ~Used(j'), pc' = "done",
         UNCHANGED <<pidDB, pidDBLen, arg, probe, tmp, ret>>
  PROVE  IInv'
  <1> USE DEF IInv
  <1>1. j \in Slot
    BY DEF TypeOK
  <1>2. ASSUME NEW s \in Slot, NEW t \in Slot, Used(s), OnPath(t, s), ~Used(t)
        PROVE  FALSE
    <2>1. s # j /\ \A u \in Slot : Dist(j, u) \in 1 .. Dist(j, s) => Used(u)
      BY <1>2 DEF AheadOfCursor
    <2>2. At(j, 1) \in Slot /\ Dist(j, At(j, 1)) = 1 /\ Dist(j, s) >= 1
      BY <1>1, <2>1, CapAssumption DEF Slot, At, Dist
    <2>3. Dist(j, s) \in Int
      BY <1>1, DistFacts
    <2> QED
      BY <2>1, <2>2, <2>3
  <1>3. At(j, 1) \in Slot
    BY <1>1, CapAssumption DEF Slot, At
  <1>4. LenIsCount'
    BY CountSame
  <1>5. TypeOK'
    BY <1>3 DEF TypeOK
  <1>6. Reachable'
    BY <1>2 DEF Reachable, Used, OnPath
  <1>7. UniquePid' /\ Probed' /\ AheadOfCursor' /\ HoleAtCursor'
    BY DEF UniquePid, Used, Probed, AheadOfCursor, HoleAtCursor
  <1> QED
    BY <1>4, <1>5, <1>6, <1>7

\* The next entry of the cluster is taken out.
LEMMA TakeIInv ==
  ASSUME IInv, pc = "rehash", NEW v \in Slot, v = At(j, 1), j' = v, Used(v),
         tmp' = pidDB[v],
         pidDB' = [pidDB EXCEPT ![v] = Null],
         pidDBLen' = pidDBLen - 1,
         probe' = 0,
         pc' = "reinsert",
         UNCHANGED <<arg, ret>>
  PROVE  IInv'
  <1> USE DEF IInv
  <1>1. j \in Slot /\ tmp' \in Entry /\ tmp' # Null
    BY NullAssumption DEF TypeOK, Used, Entry
  <1>2. LenIsCount'
    BY CountFree
  <1>3. pidDBLen' \in 0 .. Cap
    BY <1>2, CountInRange DEF LenIsCount, UsedSlots
  <1>4. TypeOK'
    BY <1>1, <1>3, CapAssumption DEF TypeOK
  <1>5. \A s \in Slot : Used(s)' => s # v /\ Used(s) /\ pidDB'[s] = pidDB[s]
    BY DEF TypeOK, Used
  <1>6. UniquePid'
    BY <1>1, <1>5 DEF UniquePid
  <1>7. AheadOfCursor'
    <2> SUFFICES ASSUME NEW s \in Slot, NEW t \in Slot, Used(s)', OnPath(t, s)', ~Used(t)'
                 PROVE  s # v /\ \A u \in Slot : Dist(v, u) \in 1 .. Dist(v, s) => Used(u)'
      BY DEF AheadOfCursor
    <2>1. Used(s) /\ s # v /\ pidDB'[s] = pidDB[s]
      BY <1>5
    <2>2. CASE \A x \in Slot : OnPath(x, s) => Used(x)
      BY <2>2, FreeLeavesAhead
    <2>3. CASE \E x \in Slot : OnPath(x, s) /\ ~Used(x)
      <3>1. s # j /\ \A u \in Slot : Dist(j, u) \in 1 .. Dist(j, s) => Used(u)
        BY <2>1, <2>3 DEF AheadOfCursor
      <3>2. Dist(v, s) = Dist(j, s) - 1
        BY <1>1, <3>1, CursorStep
      <3>3. ASSUME NEW u \in Slot, Dist(v, u) \in 1 .. Dist(v, s)
            PROVE  Used(u)'
        <4>1. u # v
          BY <3>3, DistFacts
        <4>2. u # j
          BY <1>1, <3>1, <3>2, <3>3, CapAssumption DEF Slot, Dist, At
        <4>3. Dist(v, u) = Dist(j, u) - 1
          BY <1>1, <4>2, CursorStep
        <4>4. Dist(j, u) \in Int /\ Dist(j, s) \in Int
          BY <1>1, DistFacts
        <4>5. Used(u)
          BY <3>1, <3>2, <3>3, <4>3, <4>4
        <4> QED
          BY <4>1, <4>5 DEF TypeOK, Used
      <3> QED
        BY <2>1, <3>3
    <2> QED
      BY <2>2, <2>3
  <1>8. HoleAtCursor'
    BY DEF HoleAtCursor, Used, TypeOK
  <1>9. Probed'
    <2>1. Subject' \in Pid
      BY <1>1 DEF Subject, Entry
    <2>2. \A s \in Slot : ~(Dist(piddb_hash(Subject'), s) < 0)
      BY <2>1, HashInSlot, DistFacts
    <2>3. \A s \in Slot : ~(Dist(piddb_hash(Subject), s) < probe)'
      BY <2>2 DEF Dist, piddb_hash
    <2> QED
      BY <2>3 DEF Probed
  <1>10. Reachable'
    BY DEF Reachable
  <1> QED
    BY <1>2, <1>4, <1>6, <1>7, <1>8, <1>9, <1>10

\* While an entry is in hand its old slot is free, so the search for a place
\* stops before it has passed the whole table.
LEMMA PutBackHasRoom == IInv => PutBackNeverFull
  <1> SUFFICES ASSUME IInv, pc = "reinsert", ~(probe < Cap)
               PROVE  FALSE
    BY DEF PutBackNeverFull
  <1> USE DEF IInv
  <1>1. Subject \in Pid /\ j \in Slot
    BY DEF Subject, TypeOK, Entry
  <1>2. Dist(piddb_hash(Subject), j) < probe
    BY <1>1, HashInSlot, DistFacts, CapAssumption DEF TypeOK
  <1> QED
    BY <1>1, <1>2 DEF Probed, HoleAtCursor

\* The entry in hand goes to the first free slot of its probe path.
LEMMA PutBackIInv ==
  ASSUME IInv, pc = "reinsert", Store(tmp), tmp' = Null, pc' = "rehash",
         UNCHANGED <<arg, probe, j, ret>>
  PROVE  IInv'
  <1> USE DEF IInv, Store
  <1> DEFINE h == piddb_hash(tmp.pid)
  <1>1. tmp \in Entry /\ tmp.pid \in Pid /\ Subject = tmp.pid /\ h \in Slot
    BY HashInSlot DEF TypeOK, Entry, Subject
  <1>2. PICK w \in Slot : w = Here(tmp.pid) /\ Dist(h, w) = probe
    BY <1>1, HereInSlot
  <1>3. LenIsCount'
    BY <1>1, <1>2, CountFill
  <1>4. pidDBLen' \in 0 .. Cap
    BY <1>3, CountInRange DEF LenIsCount, UsedSlots
  <1>5. TypeOK'
    BY <1>1, <1>2, <1>4 DEF TypeOK
  <1>6. \A s \in Slot : s # w => Used(s)' = Used(s) /\ pidDB'[s] = pidDB[s]
    BY <1>2 DEF TypeOK, Used
  <1>7. Used(w)' /\ pidDB'[w] = tmp
    BY <1>1, <1>2, NullAssumption DEF TypeOK, Used, Entry
  <1>8. \A s \in Slot : Used(s) => pidDB[s].pid # tmp.pid
    BY DEF UniquePid, TypeOK
  <1>9. UniquePid'
    BY <1>2, <1>6, <1>7, <1>8 DEF UniquePid, TypeOK
  <1>10. AheadOfCursor'
    <2> SUFFICES ASSUME NEW s \in Slot, NEW t \in Slot, Used(s)', OnPath(t, s)', ~Used(t)'
                 PROVE  s # j /\ \A u \in Slot : Dist(j, u) \in 1 .. Dist(j, s) => Used(u)'
      BY DEF AheadOfCursor
    <2>1. t # w /\ ~Used(t)
      BY <1>6, <1>7
    <2>2. s # w
      <3> SUFFICES ASSUME s = w PROVE FALSE
        OBVIOUS
      <3>1. Dist(h, t) < probe
        BY <1>2, <1>7 DEF OnPath
      <3> QED
        BY <1>1, <2>1, <3>1 DEF Probed
    <2>3. Used(s) /\ pidDB'[s] = pidDB[s]
      BY <1>6, <2>2
    <2>4. OnPath(t, s)
      BY <2>3 DEF OnPath
    <2>5. s # j /\ \A u \in Slot : Dist(j, u) \in 1 .. Dist(j, s) => Used(u)
      BY <2>1, <2>3, <2>4 DEF AheadOfCursor
    <2> QED
      BY <1>6, <1>7, <2>5
  <1>11. Reachable' /\ Probed' /\ HoleAtCursor'
    BY DEF Reachable, Probed, HoleAtCursor
  <1> QED
    BY <1>3, <1>5, <1>9, <1>10, <1>11

-----------------------------------------------------------------------------
(* The theorems.                                                           *)

\* Every step of the table keeps the inductive invariant.
LEMMA NextIInv == IInv /\ [Next]_vars => IInv'
  <1> SUFFICES ASSUME IInv, [Next]_vars PROVE IInv'
    OBVIOUS
  <1>0. TypeOK
    BY DEF IInv
  <1>1. ASSUME NEW p \in Pid, NEW v \in Val, NEW name \in {"find", "get", "delete"},
               Call(name, p, v)
        PROVE  IInv'
    BY <1>1, CallIInv
  <1>2. CASE piddb_find
    <2>1. CASE ProbeOn(arg.pid)
      BY <1>2, <2>1, ProbeOnIInv DEF piddb_find, Subject
    <2>2. CASE ~ProbeOn(arg.pid)
      <3>1. ret' \in Entry \cup {Null}
        <4>1. CASE probe < Cap /\ Hit(arg.pid)
          <5>1. arg.pid \in Pid
            BY <1>0, <1>2 DEF piddb_find, TypeOK, Entry
          <5>2. Here(arg.pid) \in Slot
            BY <1>0, <4>1, <5>1, HereInSlot
          <5> QED
            BY <1>0, <1>2, <2>2, <4>1, <5>2 DEF piddb_find, TypeOK
        <4>2. CASE ~(probe < Cap /\ Hit(arg.pid))
          BY <1>2, <2>2, <4>2 DEF piddb_find
        <4> QED
          BY <4>1, <4>2
      <3> QED
        BY <1>2, <2>2, <3>1, EndSearchIInv DEF piddb_find
    <2> QED
      BY <2>1, <2>2
  <1>3. CASE piddb_get
    <2>1. CASE ProbeOn(arg.pid)
      BY <1>3, <2>1, ProbeOnIInv DEF piddb_get, Subject
    <2>2. CASE ~ProbeOn(arg.pid)
      BY <1>3, <2>2, StoreIInv DEF piddb_get
    <2> QED
      BY <2>1, <2>2
  <1>4. CASE GetFull
    BY <1>0, <1>4, EndSearchIInv DEF GetFull, TypeOK
  <1>5. CASE piddb_delete
    <2>1. CASE ProbeOn(arg.pid)
      BY <1>5, <2>1, ProbeOnIInv DEF piddb_delete, Subject
    <2>2. CASE pc' = "done"
      BY <1>5, <2>2, EndSearchIInv DEF piddb_delete, ProbeOn
    <2>3. CASE pc' = "rehash"
      BY <1>5, <2>3, FreeIInv DEF piddb_delete, ProbeOn
    <2> QED
      BY <1>5, <2>1, <2>2, <2>3 DEF piddb_delete
  <1>6. CASE TakeOut
    <2>1. At(j, 1) \in Slot
      BY <1>0, CapAssumption DEF TypeOK, Slot, At
    <2>2. PICK v \in Slot : v = At(j, 1)
      BY <2>1
    <2>3. CASE Used(v)
      BY <1>6, <2>2, <2>3, TakeIInv DEF TakeOut
    <2>4. CASE ~Used(v)
      BY <1>6, <2>2, <2>4, ClusterEndIInv DEF TakeOut
    <2> QED
      BY <2>3, <2>4
  <1>7. CASE PutBack
    <2>1. CASE ProbeOn(tmp.pid)
      BY <1>7, <2>1, ProbeOnIInv DEF PutBack, Subject
    <2>2. CASE ~ProbeOn(tmp.pid)
      BY <1>7, <2>2, PutBackIInv DEF PutBack
    <2> QED
      BY <2>1, <2>2
  <1>8. CASE Return
    BY <1>8, ReturnIInv
  <1>9. CASE UNCHANGED vars
    BY <1>9 DEF vars, IInv, TypeOK, Reachable, UniquePid, LenIsCount, UsedSlots, Probed,
                Subject, AheadOfCursor, HoleAtCursor, Used, OnPath
  <1> QED
    BY <1>1, <1>2, <1>3, <1>4, <1>5, <1>6, <1>7, <1>8, <1>9 DEF Next, Step, Crashed

\* The inductive invariant holds of every state of the table.
THEOREM TableInvariant == Spec => []IInv
  BY InitIInv, NextIInv, PTL DEF Spec

\* The table's state stays well typed, its length within its capacity.
THEOREM TypeCorrect == Spec => []TypeOK
  BY TableInvariant, PTL DEF IInv

\* Between deletions every entry can be found again by linear probing.
THEOREM EntriesReachable == Spec => []Reachable
  BY TableInvariant, PTL DEF IInv

\* No pid ever has two entries.
THEOREM PidsUnique == Spec => []UniquePid
  BY TableInvariant, PTL DEF IInv

\* The length counter is exact, also in the middle of a deletion.
THEOREM LengthExact == Spec => []LenIsCount
  BY TableInvariant, PTL DEF IInv

\* The piddb_get inside piddb_delete never returns NULL.
THEOREM ReinsertNeverFull == Spec => []PutBackNeverFull
  BY TableInvariant, PutBackHasRoom, PTL

-----------------------------------------------------------------------------
(* Refinement: the table implements the map.                               *)

\* Outside piddb_delete's second loop nothing is in hand.
LEMMA StoredInTable ==
  ASSUME TypeOK, pc # "reinsert"
  PROVE  Stored = {pidDB[s] : s \in UsedSlots}
  BY DEF Stored, TypeOK, UsedSlots, Used

\* A search that misses has shown that the map has no entry for its pid.
LEMMA MissMap ==
  ASSUME IInv, pc \in {"find", "get", "delete"}, probe < Cap => ~Used(Here(arg.pid))
  PROVE  {e \in Stored : e.pid = arg.pid} = {}
  <1>1. Stored = {pidDB[s] : s \in UsedSlots}
    BY StoredInTable DEF IInv
  <1> QED
    BY <1>1, Miss DEF UsedSlots

\* A search that hits has found the one entry of its pid.
LEMMA HitMap ==
  ASSUME IInv, pc \in {"find", "get", "delete"}, probe < Cap, Hit(arg.pid)
  PROVE  /\ Here(arg.pid) \in Slot
         /\ {e \in Stored : e.pid = arg.pid} = {pidDB[Here(arg.pid)]}
  <1> USE DEF IInv
  <1>1. Stored = {pidDB[s] : s \in UsedSlots}
    BY StoredInTable
  <1>2. arg.pid \in Pid
    BY DEF TypeOK, Entry
  <1>3. Here(arg.pid) \in Slot
    BY <1>2, HereInSlot
  <1> QED
    BY <1>1, <1>3 DEF Hit, UniquePid, UsedSlots

\* A step inside a search is a stutter of the map.
LEMMA ProbeOnMap ==
  ASSUME NEW p, ProbeOn(p)
  PROVE  UNCHANGED Map!mapVars
  BY DEF ProbeOn, Map!mapVars, Stored, Stage

\* Every step of the table is a step of the map or leaves the map unchanged.
LEMMA StepRefines == IInv /\ IInv' /\ [Next]_vars => [Map!Next]_(Map!mapVars)
  <1> SUFFICES ASSUME IInv, IInv', [Next]_vars PROVE [Map!Next]_(Map!mapVars)
    OBVIOUS
  <1>0. TypeOK /\ TypeOK'
    BY DEF IInv
  <1>1. ASSUME NEW p \in Pid, NEW v \in Val, NEW name \in {"find", "get", "delete"},
               Call(name, p, v)
        PROVE  [Map!Next]_(Map!mapVars)
    <2>1. Stage = "idle" /\ Stage' = name /\ UNCHANGED Stored
      BY <1>1 DEF Call, Stage, Stored
    <2>2. Map!Call(name, p, v)
      BY <1>1, <2>1 DEF Call, Map!Call
    <2> QED
      BY <2>2 DEF Map!Next
  <1>2. CASE piddb_find
    <2>1. CASE ProbeOn(arg.pid)
      BY <2>1, ProbeOnMap
    <2>2. CASE ~ProbeOn(arg.pid)
      <3>1. Stage = "find" /\ Stage' = "done" /\ UNCHANGED <<Stored, arg>>
        BY <1>2, <2>2 DEF piddb_find, Stage, Stored
      <3>2. Map!ResultFor(arg.pid, ret')
        <4>1. CASE probe < Cap /\ Hit(arg.pid)
          BY <1>2, <2>2, <4>1, HitMap DEF piddb_find, Map!ResultFor, Map!Of
        <4>2. CASE ~(probe < Cap /\ Hit(arg.pid))
          BY <1>2, <2>2, <4>2, MissMap DEF piddb_find, Map!ResultFor, Map!Of
        <4> QED
          BY <4>1, <4>2
      <3> QED
        BY <3>1, <3>2 DEF Map!Next, Map!Find
    <2> QED
      BY <2>1, <2>2
  <1>3. CASE piddb_get
    <2>1. CASE ProbeOn(arg.pid)
      BY <2>1, ProbeOnMap
    <2>2. CASE ~ProbeOn(arg.pid)
      <3>1. Stage = "get" /\ Stage' = "done" /\ UNCHANGED <<arg, ret>>
        BY <1>3, <2>2 DEF piddb_get, Stage
      <3>2. Stored' = (Stored \ Map!Of(arg.pid)) \cup {arg}
        <4>0. Store(arg) /\ pc = "get" /\ pc' = "done" /\ UNCHANGED tmp
          BY <1>3, <2>2 DEF piddb_get
        <4>1. arg \in Entry /\ arg.pid \in Pid /\ arg # Null
          BY <1>0, <4>0, NullAssumption DEF TypeOK, Entry
        <4>2. PICK w \in Slot : w = Here(arg.pid)
          BY <1>0, <4>0, <4>1, HereInSlot DEF Store
        <4>3. Stored' = {pidDB'[s] : s \in Slot} \ {Null}
          BY <1>0, <4>0 DEF Stored, TypeOK
        <4>4. Stored = {pidDB[s] : s \in Slot} \ {Null}
          BY <1>0, <4>0 DEF Stored, TypeOK
        <4>5. pidDB' = [pidDB EXCEPT ![w] = arg]
          BY <4>0, <4>2 DEF Store
        <4>6. CASE Used(w)
          <5>1. Map!Of(arg.pid) = {pidDB[w]}
            BY <4>0, <4>2, <4>6, HitMap DEF Store, Elsewhere, Hit, Map!Of
          <5>2. \A s \in Slot : s # w => pidDB[s] # pidDB[w]
            BY <4>6 DEF IInv, UniquePid, Used
          <5> QED
            BY <1>0, <4>1, <4>3, <4>4, <4>5, <5>1, <5>2 DEF TypeOK
        <4>7. CASE ~Used(w)
          <5>1. Map!Of(arg.pid) = {}
            BY <4>0, <4>2, <4>7, MissMap DEF Map!Of
          <5> QED
            BY <1>0, <4>1, <4>3, <4>4, <4>5, <4>7, <5>1 DEF TypeOK, Used
        <4> QED
          BY <4>6, <4>7
      <3> QED
        BY <3>1, <3>2 DEF Map!Next, Map!Put
    <2> QED
      BY <2>1, <2>2
  <1>4. CASE GetFull
    BY <1>4 DEF GetFull, Map!mapVars, Stored, Stage
  <1>5. CASE piddb_delete
    <2>1. CASE ProbeOn(arg.pid)
      BY <2>1, ProbeOnMap
    <2>2. CASE pc' = "done"
      <3>1. Stage = "delete" /\ Stage' = "done" /\ UNCHANGED <<Stored, arg>> /\ ret' = Null
        BY <1>5, <2>2 DEF piddb_delete, ProbeOn, Stage, Stored
      <3>2. Map!Of(arg.pid) = {}
        BY <1>5, <2>2, MissMap DEF piddb_delete, ProbeOn, Map!Of
      <3> QED
        BY <3>1, <3>2 DEF Map!Next, Map!Delete, Map!ResultFor
    <2>3. CASE pc' = "rehash"
      <3>0. /\ pc = "delete" /\ probe < Cap /\ Hit(arg.pid)
            /\ ret' = pidDB[Here(arg.pid)]
            /\ pidDB' = [pidDB EXCEPT ![Here(arg.pid)] = Null]
            /\ UNCHANGED <<arg, tmp>>
        BY <1>5, <2>3 DEF piddb_delete, ProbeOn
      <3>1. Stage = "delete" /\ Stage' = "done"
        BY <2>3, <3>0 DEF Stage
      <3>2. PICK w \in Slot : w = Here(arg.pid)
        BY <3>0, HitMap
      <3>3. Map!Of(arg.pid) = {pidDB[w]}
        BY <3>0, <3>2, HitMap DEF Map!Of
      <3>4. \A s \in Slot : s # w => pidDB[s] # pidDB[w]
        BY <3>0, <3>2 DEF IInv, UniquePid, Used, Hit
      <3>5. Stored' = {pidDB'[s] : s \in Slot} \ {Null}
        BY <1>0, <2>3 DEF Stored, TypeOK
      <3>6. Stored = {pidDB[s] : s \in Slot} \ {Null}
        BY <1>0, <3>0 DEF Stored, TypeOK
      <3>7. Stored' = Stored \ {pidDB[w]}
        BY <1>0, <3>0, <3>2, <3>4, <3>5, <3>6 DEF TypeOK
      <3> QED
        BY <3>0, <3>1, <3>2, <3>3, <3>7 DEF Map!Next, Map!Delete, Map!ResultFor
    <2> QED
      BY <1>5, <2>1, <2>2, <2>3 DEF piddb_delete
  <1>6. CASE TakeOut
    <2>1. At(j, 1) \in Slot
      BY <1>0, CapAssumption DEF TypeOK, Slot, At
    <2>2. UNCHANGED <<Stage, arg, ret>>
      BY <1>6 DEF TakeOut, Stage
    <2>3. CASE Used(At(j, 1))
      <3>1. PICK v \in Slot : v = At(j, 1)
        BY <2>1
      <3>2. tmp = Null /\ tmp' = pidDB[v] /\ pidDB' = [pidDB EXCEPT ![v] = Null]
        BY <1>0, <1>6, <2>3, <3>1 DEF TakeOut, TypeOK
      <3>3. {pidDB'[s] : s \in Slot} \ {Null} = {pidDB[s] : s \in Slot \ {v}} \ {Null}
        BY <1>0, <3>2 DEF TypeOK
      <3>4. UNCHANGED Stored
        BY <3>2, <3>3 DEF Stored
      <3> QED
        BY <2>2, <3>4 DEF Map!mapVars
    <2>4. CASE ~Used(At(j, 1))
      BY <1>6, <2>2, <2>4 DEF TakeOut, Stored, Map!mapVars
    <2> QED
      BY <2>3, <2>4
  <1>7. CASE PutBack
    <2>1. CASE ProbeOn(tmp.pid)
      BY <2>1, ProbeOnMap
    <2>2. CASE ~ProbeOn(tmp.pid)
      <3>0. Store(tmp) /\ tmp' = Null /\ pc = "reinsert"
        BY <1>7, <2>2 DEF PutBack
      <3>1. UNCHANGED <<Stage, arg, ret>>
        BY <1>7, <2>2 DEF PutBack, Stage
      <3>2. tmp \in Entry /\ tmp.pid \in Pid /\ tmp # Null
        BY <1>0, <3>0 DEF TypeOK, Entry
      <3>3. PICK w \in Slot : w = Here(tmp.pid)
        BY <1>0, <3>0, <3>2, HereInSlot DEF Store
      <3>4. pidDB[w] = Null
        BY <3>0, <3>2, <3>3 DEF Store, Elsewhere, Used, IInv, UniquePid
      <3>5. pidDB' = [pidDB EXCEPT ![w] = tmp]
        BY <3>0, <3>3 DEF Store
      <3>6. UNCHANGED Stored
        BY <1>0, <3>0, <3>2, <3>4, <3>5 DEF Stored, TypeOK
      <3> QED
        BY <3>1, <3>6 DEF Map!mapVars
    <2> QED
      BY <2>1, <2>2
  <1>8. CASE Return
    <2>1. Stage = "done" /\ Stage' = "idle" /\ UNCHANGED Stored /\ arg' = Null /\ ret' = Null
      BY <1>8 DEF Return, Stage, Stored
    <2> QED
      BY <2>1 DEF Map!Next, Map!Return
  <1>9. CASE UNCHANGED vars
    BY <1>9 DEF vars, Map!mapVars, Stored, Stage
  <1> QED
    BY <1>1, <1>2, <1>3, <1>4, <1>5, <1>6, <1>7, <1>8, <1>9 DEF Next, Step, Crashed

\* The C table implements the map the Go tracer uses: whatever sequence of
\* lookups, stores and deletions the event handlers make, each takes effect
\* once and finds exactly what the map holds.
THEOREM TableImplementsMap == Spec => ImplementsMap
  <1>1. Init => Map!Init
    <2>1. Init => Stored = {}
      BY DEF Init, Stored
    <2>2. Init => Stage = "idle"
      BY DEF Init, Stage
    <2> QED
      BY <2>1, <2>2 DEF Init, Map!Init
  <1> QED
    BY <1>1, StepRefines, TableInvariant, PTL DEF Spec, ImplementsMap, Map!Spec
=============================================================================
