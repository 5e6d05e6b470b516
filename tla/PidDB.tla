------------------------------- MODULE PidDB --------------------------------
(***************************************************************************)
(* The process database of the C exec tracer (c/exec.c: pidDB and the      *)
(* piddb functions): a fixed array searched by linear probing, where a     *)
(* deletion reinserts the cluster after the hole.  The macOS table (macdb) *)
(* is the same algorithm.                                                  *)
(*                                                                         *)
(* One action is one iteration of one of its loops.  The functions run on  *)
(* one thread and call each other only as shown (piddb_delete calls        *)
(* piddb_get), so the fine grain adds no behaviour: it makes termination   *)
(* of the loops a property of the model instead of an assumption.          *)
(***************************************************************************)
EXTENDS Integers, FiniteSets

CONSTANTS Cap,     \* PIDDB_CAP
          Knuth,   \* the multiplier of piddb_hash, reduced modulo Cap
          Pid,     \* process ids
          Val,     \* depth, startNs and cmdline of an entry
          Null     \* NULL

ASSUME CapAssumption == Cap \in Nat /\ Cap > 0
ASSUME KnuthAssumption == Knuth \in Nat
ASSUME PidAssumption == Pid \subseteq Nat /\ Pid # {}
ASSUME ValAssumption == Val # {}
ASSUME NullAssumption == Null \notin [pid : Pid, val : Val]

VARIABLES pidDB,      \* slot -> entry, Null where ~used
          pidDBLen,   \* number of used slots, as the code counts them
          pc,         \* the loop the thread is in
          arg,        \* pid and val of the call in progress, else Null
          probe,      \* the probe counter of the innermost search
          j,          \* the cluster cursor of piddb_delete
          tmp,        \* the entry piddb_delete is moving, else Null
          ret         \* the entry find or delete met, or Null

vars == <<pidDB, pidDBLen, pc, arg, probe, j, tmp, ret>>

Slot == 0 .. Cap - 1
Entry == [pid : Pid, val : Val]
Used(s) == pidDB[s] # Null

\* ((unsigned)pid * 2654435761u) & (PIDDB_CAP - 1): PIDDB_CAP is a power of
\* two, so the 32-bit wrap of the product does not reach the masked bits.
piddb_hash(p) == (p * Knuth) % Cap

\* (i + k) & (PIDDB_CAP - 1), for i and k below PIDDB_CAP
At(i, k) == IF i + k < Cap THEN i + k ELSE i + k - Cap

Init ==
  /\ pidDB = [s \in Slot |-> Null]
  /\ pidDBLen = 0
  /\ pc = "idle"
  /\ arg = Null
  /\ probe = 0
  /\ j = 0
  /\ tmp = Null
  /\ ret = Null

Call(name, p, v) ==
  /\ pc = "idle"
  /\ pc' = name
  /\ arg' = [pid |-> p, val |-> v]
  /\ probe' = 0
  /\ UNCHANGED <<pidDB, pidDBLen, j, tmp, ret>>

\* The caller has its result; the locals are gone.
Return ==
  /\ pc = "done"
  /\ pc' = "idle"
  /\ arg' = Null
  /\ probe' = 0
  /\ j' = 0
  /\ ret' = Null
  /\ UNCHANGED <<pidDB, pidDBLen, tmp>>

-----------------------------------------------------------------------------
(* The three probe loops.                                                  *)

Here(p) == At(piddb_hash(p), probe)
Elsewhere(p) == Used(Here(p)) /\ pidDB[Here(p)].pid # p
Hit(p) == Used(Here(p)) /\ pidDB[Here(p)].pid = p

\* Mutant: probe++ is missing.
ProbeOnStuck(p) ==
  /\ probe < Cap
  /\ Elsewhere(p)
  /\ UNCHANGED vars

\* One more turn of `for (probe = 0; probe < PIDDB_CAP; probe++)`.
ProbeOn(p) ==
  /\ probe < Cap
  /\ Elsewhere(p)
  /\ probe' = probe + 1
  /\ UNCHANGED <<pidDB, pidDBLen, pc, arg, j, tmp, ret>>

piddb_find ==
  /\ pc = "find"
  /\ \/ ProbeOn(arg.pid)
     \/ /\ IF probe < Cap /\ Hit(arg.pid)
             THEN ret' = pidDB[Here(arg.pid)]
             ELSE (probe < Cap => ~Used(Here(arg.pid))) /\ ret' = Null
        /\ pc' = "done"
        /\ UNCHANGED <<pidDB, pidDBLen, arg, probe, j, tmp>>

\* piddb_get(e.pid) and the caller's assignments to the entry it returns.
Store(e) ==
  /\ probe < Cap
  /\ ~Elsewhere(e.pid)
  /\ pidDB' = [pidDB EXCEPT ![Here(e.pid)] = e]
  /\ pidDBLen' = IF Used(Here(e.pid)) THEN pidDBLen ELSE pidDBLen + 1

piddb_get ==
  /\ pc = "get"
  /\ \/ ProbeOn(arg.pid)
     \/ /\ Store(arg)
        /\ pc' = "done"
        /\ UNCHANGED <<arg, probe, j, tmp, ret>>

\* Table full: piddb_get returns NULL and handleExec writes through it.
GetFull ==
  /\ pc = "get"
  /\ probe = Cap
  /\ pc' = "crashed"
  /\ UNCHANGED <<pidDB, pidDBLen, arg, probe, j, tmp, ret>>

Crashed == pc = "crashed" /\ UNCHANGED vars

\* piddb_delete, first loop: look for the entry and free its slot.
piddb_delete ==
  /\ pc = "delete"
  /\ \/ ProbeOn(arg.pid)
     \/ /\ probe < Cap => ~Used(Here(arg.pid))
        /\ ret' = Null
        /\ pc' = "done"
        /\ UNCHANGED <<pidDB, pidDBLen, arg, probe, j, tmp>>
     \/ /\ probe < Cap
        /\ Hit(arg.pid)
        /\ ret' = pidDB[Here(arg.pid)]
        /\ pidDB' = [pidDB EXCEPT ![Here(arg.pid)] = Null]
        /\ pidDBLen' = pidDBLen - 1
        /\ j' = Here(arg.pid)
        /\ pc' = "rehash"
        /\ UNCHANGED <<arg, probe, tmp>>

\* Mutants: no second loop; a probe counter the two loops share.
TakeOutNothing ==
  /\ pc = "rehash"
  /\ pc' = "done"
  /\ UNCHANGED <<pidDB, pidDBLen, arg, probe, j, tmp, ret>>
TakeOutSharedProbe ==
  /\ pc = "rehash"
  /\ j' = At(j, 1)
  /\ IF Used(j')
       THEN /\ tmp' = pidDB[j']
            /\ pidDB' = [pidDB EXCEPT ![j'] = Null]
            /\ pidDBLen' = pidDBLen - 1
            /\ pc' = "reinsert"
            /\ UNCHANGED <<arg, probe, ret>>
       ELSE /\ pc' = "done"
            /\ UNCHANGED <<pidDB, pidDBLen, arg, probe, tmp, ret>>

\* piddb_delete, second loop: take the next entry of the cluster out ...
TakeOut ==
  /\ pc = "rehash"
  /\ j' = At(j, 1)
  /\ IF Used(j')
       THEN /\ tmp' = pidDB[j']
            /\ pidDB' = [pidDB EXCEPT ![j'] = Null]
            /\ pidDBLen' = pidDBLen - 1
            /\ probe' = 0
            /\ pc' = "reinsert"
            /\ UNCHANGED <<arg, ret>>
       ELSE /\ pc' = "done"
            /\ UNCHANGED <<pidDB, pidDBLen, arg, probe, tmp, ret>>

\* ... and put it back by the piddb_get that piddb_delete calls.
PutBack ==
  /\ pc = "reinsert"
  /\ \/ ProbeOn(tmp.pid)
     \/ /\ Store(tmp)
        /\ tmp' = Null
        /\ pc' = "rehash"
        /\ UNCHANGED <<arg, probe, j, ret>>

Step ==
  \/ piddb_find
  \/ piddb_get
  \/ GetFull
  \/ piddb_delete
  \/ TakeOut
  \/ PutBack
  \/ Return

Next ==
  \/ \E p \in Pid, v \in Val, name \in {"find", "get", "delete"} : Call(name, p, v)
  \/ Step
  \/ Crashed

\* The functions are ordinary sequential code: once called they keep running.
Spec == Init /\ [][Next]_vars /\ WF_vars(Step)

-----------------------------------------------------------------------------
(* Properties.                                                             *)

\* The state of pidDB, its length and the loops' locals are well typed, and
\* an entry is in hand exactly while the reinsertion loop of piddb_delete runs.
TypeOK ==
  /\ pidDB \in [Slot -> Entry \cup {Null}]
  /\ pidDBLen \in 0 .. Cap
  /\ pc \in {"idle", "find", "get", "delete", "rehash", "reinsert", "done", "crashed"}
  /\ arg \in Entry \cup {Null}
  /\ probe \in 0 .. Cap
  /\ j \in Slot
  /\ tmp \in Entry \cup {Null}
  /\ ret \in Entry \cup {Null}
  /\ (pc = "idle") = (arg = Null)
  /\ (pc = "reinsert") = (tmp # Null)

\* Slot t lies on the probe path of slot s's entry, before s.
Dist(a, b) == IF b >= a THEN b - a ELSE b - a + Cap
OnPath(t, s) ==
  Dist(piddb_hash(pidDB[s].pid), t) < Dist(piddb_hash(pidDB[s].pid), s)

\* While no deletion is under way piddb_find can reach every entry: no free
\* slot lies on the probe path of a used one (the loops of piddb_find,
\* piddb_get and piddb_delete stop at the first free slot).
Reachable ==
  pc \notin {"rehash", "reinsert"} =>
    \A s, t \in Slot : Used(s) /\ OnPath(t, s) => Used(t)

\* No pid has two entries, not even while piddb_delete moves its cluster.
UniquePid ==
  /\ \A s, t \in Slot : Used(s) /\ Used(t) /\ pidDB[s].pid = pidDB[t].pid => s = t
  /\ tmp # Null => \A s \in Slot : Used(s) => pidDB[s].pid # tmp.pid

UsedSlots == {s \in Slot : Used(s)}

\* pidDBLen counts the used slots.
LenIsCount == pidDBLen = Cardinality(UsedSlots)

\* The reinsertion inside piddb_delete never finds the table full, so the
\* entry pointer it writes through is never NULL.
PutBackNeverFull == pc = "reinsert" => probe < Cap

\* Every call ends, the `for (;;)` of piddb_delete included, unless a full
\* table crashes the tracer.
CallsReturn == pc # "idle" ~> pc \in {"idle", "crashed"}

\* The inductive strengthening of Reachable.  A search has passed only used
\* slots of other pids; while a cluster is being moved, an entry whose probe
\* path has a hole still lies ahead of the cursor j, with no free slot between
\* (so the loop cannot stop before it); and the slot just emptied is free.
Subject == IF pc = "reinsert" THEN tmp.pid ELSE arg.pid
Probed ==
  pc \in {"find", "get", "delete", "reinsert"} =>
    \A s \in Slot : Dist(piddb_hash(Subject), s) < probe =>
                      Used(s) /\ pidDB[s].pid # Subject
AheadOfCursor ==
  pc \in {"rehash", "reinsert"} =>
    \A s, t \in Slot : Used(s) /\ OnPath(t, s) /\ ~Used(t) =>
      /\ s # j
      /\ \A u \in Slot : Dist(j, u) \in 1 .. Dist(j, s) => Used(u)
HoleAtCursor == pc = "reinsert" => ~Used(j)
IInv ==
  /\ TypeOK
  /\ Reachable
  /\ UniquePid
  /\ LenIsCount
  /\ Probed
  /\ AheadOfCursor
  /\ HoleAtCursor

\* The map's entries are those in the table and the one being moved, and an
\* operation takes effect when its search ends.
Stored == ({pidDB[s] : s \in Slot} \cup {tmp}) \ {Null}
Stage == CASE pc \in {"rehash", "reinsert"} -> "done"
           [] pc = "crashed" -> "get"
           [] OTHER -> pc
Map == INSTANCE PidMap WITH db <- Stored, op <- [name |-> Stage, arg |-> arg]

\* The table implements the map: piddb_find, piddb_get and piddb_delete return
\* and leave behind what the operations of Go's map would.
ImplementsMap == Map!Spec

=============================================================================
