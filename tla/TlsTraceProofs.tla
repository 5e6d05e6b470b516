--------------------------- MODULE TlsTraceProofs ---------------------------
(* Proofs about TlsTrace, for any probes, processes, runs and table sizes. *)
EXTENDS TlsTrace, SequenceTheorems, TLAPS

LEMMA InitInv == Init => IInv
<1> SUFFICES ASSUME Init PROVE IInv
  OBVIOUS
<1>1. 0 \in 0 .. MaxRuns /\ <<>> \in Seq(Event)
  BY BoundAssumption, EmptySeq
<1>4. [i \in Slot |-> None] \in [Slot -> SniEntry \cup {None}]
  OBVIOUS
<1>5. [p \in Pid |-> ""] \in [Pid -> Host \cup {""}]
  OBVIOUS
<1>6. [t \in Target |-> None] \in [Target -> Probe \cup {None}]
  OBVIOUS
<1>7. TypeOK
  BY <1>1, <1>4, <1>5, <1>6 DEF Init, TypeOK
<1>2. ProbeInv
  BY DEF Init, ProbeInv, MineKnown, StaleAhead, CleanExit, NoStaleProbe, Mine, Stale,
         Registering, Cleaning
<1>3. SniInv
  BY DEF Init, SniInv
<1> QED
  BY <1>2, <1>3, <1>7 DEF IInv

\* The numbers of TypeOK.
LEMMA Runs ==
  ASSUME TypeOK
  PROVE run \in Nat /\ run <= MaxRuns /\ MaxRuns \in Nat
<1>1. run \in 0 .. MaxRuns
  BY DEF TypeOK
<1> QED
  BY <1>1, BoundAssumption

-----------------------------------------------------------------------------
(* The SNI cache.                                                          *)

\* A pid has no slot, or one, which Least finds.
LEMMA OneSlot ==
  ASSUME SniInv, NEW p, SlotsOf(p) # {}
  PROVE /\ Least(SlotsOf(p)) \in Slot
        /\ SlotsOf(p) = {Least(SlotsOf(p))}
        /\ sniCache[Least(SlotsOf(p))] # None
        /\ sniCache[Least(SlotsOf(p))].pid = p
<1>1. PICK i \in SlotsOf(p) : TRUE
  OBVIOUS
<1>2. SlotsOf(p) = {i}
  BY <1>1 DEF SlotsOf, SniInv
<1>3. i \in Int
  BY <1>1, BoundAssumption DEF SlotsOf, Slot
<1>4. \E k \in SlotsOf(p) : \A j \in SlotsOf(p) : k <= j
  BY <1>2, <1>3
<1>5. Least(SlotsOf(p)) \in SlotsOf(p)
  BY <1>4 DEF Least
<1> QED
  BY <1>2, <1>5 DEF SlotsOf

LEMMA GetSni ==
  ASSUME TypeOK, SniInv, NEW p \in Pid
  PROVE get_sni(p) \in {"", told[p]} /\ get_sni(p) \in Host \cup {""}
<1>1. CASE SlotsOf(p) = {}
  BY <1>1 DEF get_sni
<1>2. CASE SlotsOf(p) # {}
  <2> DEFINE i == Least(SlotsOf(p))
  <2>1. i \in Slot /\ sniCache[i] # None /\ sniCache[i].pid = p
    BY <1>2, OneSlot
  <2>2. get_sni(p) = sniCache[i].host
    BY <1>2 DEF get_sni
  <2> HIDE DEF i
  <2>3. sniCache[i].host = told[p]
    BY <2>1 DEF SniInv
  <2> QED
    BY <2>2, <2>3 DEF TypeOK
<1> QED
  BY <1>1, <1>2

LEMMA SetSni ==
  ASSUME TypeOK, SniInv, NEW p \in Pid, NEW h \in Host,
         set_sni(p, h), told' = [told EXCEPT ![p] = h]
  PROVE SniInv' /\ sniCache' \in [Slot -> SniEntry \cup {None}]
<1> DEFINE s == sniSlot(p)
           e == [pid |-> p, host |-> h]
<1>1. e \in SniEntry /\ e.pid = p /\ e.host = h /\ e # None
  BY NoneAssumption DEF SniEntry
<1>2. sniCache' = [sniCache EXCEPT ![s] = e]
  BY DEF set_sni
<1>3. \A i \in Slot : i # s => sniCache[i] = None \/ sniCache[i].pid # p
  <2>1. CASE SlotsOf(p) # {}
    <3>1. s = Least(SlotsOf(p)) /\ SlotsOf(p) = {s}
      BY <2>1, OneSlot DEF sniSlot
    <3> HIDE DEF s
    <3> QED
      BY <3>1 DEF SlotsOf
  <2>2. CASE SlotsOf(p) = {}
    BY <2>2 DEF SlotsOf
  <2> QED
    BY <2>1, <2>2
<1> HIDE DEF s, e
<1>4. sniCache' \in [Slot -> SniEntry \cup {None}]
  BY <1>1, <1>2 DEF TypeOK
<1>5. \A i \in Slot : sniCache'[i] = IF i = s THEN e ELSE sniCache[i]
  BY <1>2 DEF TypeOK
<1>6. \A q \in Pid : told'[q] = IF q = p THEN h ELSE told[q]
  BY DEF TypeOK
<1>7. \A i \in Slot : sniCache[i] # None => sniCache[i].pid \in Pid
  BY DEF TypeOK, SniEntry
<1>8. ASSUME NEW i \in Slot, NEW j \in Slot, sniCache'[i] # None, sniCache'[j] # None,
             sniCache'[i].pid = sniCache'[j].pid
      PROVE i = j
  BY <1>1, <1>3, <1>5, <1>8 DEF SniInv
<1>9. ASSUME NEW i \in Slot, sniCache'[i] # None
      PROVE told'[sniCache'[i].pid] = sniCache'[i].host
  BY <1>1, <1>3, <1>5, <1>6, <1>7, <1>9 DEF SniInv
<1> QED
  BY <1>4, <1>8, <1>9 DEF SniInv

-----------------------------------------------------------------------------
(* Steps.                                                                  *)

LEMMA SniSame == ASSUME SniInv, UNCHANGED <<sniCache, told>> PROVE SniInv'
  BY DEF SniInv

\* The end of a run, whatever the kernel keeps of it.
LEMMA DownStep ==
  ASSUME IInv, NEW h \in {"failed", "killed", "eof", "clean"}, Down(h),
         probes' \in [Target -> Probe \cup {None}], refused' \subseteq Target, UNCHANGED <<buf, run>>,
         \A t \in Target : probes'[t] # None => probes'[t].run <= run,
         h \in {"clean", "failed"} =>
           \A t \in Target : probes'[t] = None \/ probes'[t].run # run \/ t \in refused'
  PROVE IInv'
<1>1. TypeOK'
  BY DEF Down, IInv, TypeOK
<1>2. ProbeInv'
  BY DEF Down, ProbeInv, MineKnown, StaleAhead, CleanExit, NoStaleProbe, Registering, Cleaning
<1>3. SniInv'
  BY DEF Down, SniInv
<1> QED
  BY <1>1, <1>2, <1>3 DEF IInv

\* Disabling a probe, or taking it out, changes no other and adds none; a probe that is
\* still enabled, or there, is one of those refused.
LEMMA Disabling ==
  ASSUME TypeOK, NEW t \in Target, Disabled(t)
  PROVE \E v \in Probe \cup {None} :
          /\ probes' = [probes EXCEPT ![t] = v]
          /\ v # None => probes[t] # None /\ v.run = probes[t].run
          /\ refused' \subseteq Target
          /\ \A u \in Target : u # t => (u \in refused' <=> u \in refused)
          /\ v = None \/ ~v.on \/ t \in refused'
<1>0. /\ probes \in [Target -> Probe \cup {None}] /\ refused \subseteq Target
      /\ probes = [probes EXCEPT ![t] = probes[t]]
  BY DEF TypeOK
<1>1. CASE Fails(t)
  BY <1>0, <1>1 DEF Fails
<1>2. CASE ~Fails(t)
  <2>1. /\ probes' = [probes EXCEPT ![t] = IF probes[t] = None THEN None ELSE [probes[t] EXCEPT !.on = FALSE]]
        /\ refused' = refused
    BY <1>2 DEF Disabled
  <2>2. CASE probes[t] = None
    BY <1>0, <2>1, <2>2
  <2>3. CASE probes[t] # None
    <3> DEFINE v == [probes[t] EXCEPT !.on = FALSE]
    <3>1. v \in Probe /\ v.run = probes[t].run /\ ~v.on
      BY <1>0, <2>3 DEF Probe
    <3>2. probes' = [probes EXCEPT ![t] = v]
      BY <2>1, <2>3
    <3> HIDE DEF v
    <3> QED
      BY <1>0, <1>2, <2>1, <2>3, <3>1, <3>2
  <2> QED
    BY <2>2, <2>3
<1> QED
  BY <1>1, <1>2

LEMMA Removing ==
  ASSUME TypeOK, NEW t \in Target, Removed(t), Off(t) \/ t \in refused
  PROVE \E v \in Probe \cup {None} :
          /\ probes' = [probes EXCEPT ![t] = v]
          /\ v # None => probes[t] # None /\ v.run = probes[t].run
          /\ refused' \subseteq Target
          /\ \A u \in Target : u # t => (u \in refused' <=> u \in refused)
          /\ v = None \/ t \in refused'
<1>0. /\ probes \in [Target -> Probe \cup {None}] /\ refused \subseteq Target
      /\ probes = [probes EXCEPT ![t] = probes[t]]
  BY DEF TypeOK
<1>1. CASE Fails(t)
  BY <1>0, <1>1 DEF Fails
<1>2. CASE probes' = [probes EXCEPT ![t] = None] /\ refused' = refused \ {t}
  BY <1>0, <1>2
<1>3. CASE probes[t] # None /\ probes[t].on /\ probes' = probes /\ refused' = refused
  <2>1. t \in refused
    BY <1>3 DEF Off
  <2> QED
    BY <1>0, <1>3, <2>1
<1> QED
  BY <1>1, <1>2, <1>3 DEF Removed

LEMMA SslStep == ASSUME IInv, SslCall PROVE IInv'
<1>1. PICK t \in Target, p \in Pid, h \in Host \cup {""} :
         buf' = Append(buf, [pid |-> p, sni |-> t \notin Data, host |-> h])
  BY DEF SslCall
<1>2. [pid |-> p, sni |-> t \notin Data, host |-> h] \in Event
  BY DEF Event
<1>3. buf' \in Seq(Event)
  BY <1>1, <1>2, AppendProperties DEF IInv, TypeOK
<1>4. UNCHANGED <<probes, run, pc, probeState, caches, how, absent, refused>>
  BY DEF SslCall
<1>5. TypeOK'
  BY <1>3, <1>4 DEF IInv, TypeOK, probeState, caches
<1>6. ProbeInv'
  BY <1>4 DEF IInv, ProbeInv, MineKnown, StaleAhead, CleanExit, NoStaleProbe, Mine, Stale, Off,
              probeState
<1>7. SniInv'
  BY <1>4, SniSame DEF IInv, caches
<1> QED
  BY <1>5, <1>6, <1>7 DEF IInv

LEMMA StartStep == ASSUME IInv, Start PROVE IInv'
<1>1. run \in Nat /\ run' = run + 1 /\ run' <= MaxRuns /\ MaxRuns \in Nat
  BY Runs DEF Start, IInv
<1>6. run' \in 0 .. MaxRuns /\ run' # 0
  BY <1>1
<1>2. TypeOK'
  BY <1>6 DEF Start, IInv, TypeOK, caches
<1>7. probes \in [Target -> Probe \cup {None}]
  BY DEF IInv, TypeOK
<1>3. \A t \in Target : probes[t] # None => probes[t].run \in Nat /\ probes[t].run <= run
  BY <1>7 DEF IInv, ProbeInv, Probe
<1>4. ProbeInv'
  BY <1>1, <1>3 DEF Start, IInv, ProbeInv, MineKnown, StaleAhead, CleanExit, NoStaleProbe, Mine,
                    Stale, Off, Registering, Cleaning
<1>5. SniInv'
  BY SniSame DEF IInv, Start, caches
<1> QED
  BY <1>2, <1>4, <1>5 DEF IInv

\* register_uprobes.
LEMMA TargetStep == ASSUME IInv, NextTarget \/ SkipTarget PROVE IInv'
<1>1. TypeOK'
  BY HostAssumption DEF NextTarget, SkipTarget, IInv, TypeOK, caches
<1>2. ProbeInv'
  <2>1. /\ UNCHANGED <<probes, run, handler, registered, left, how, refused>>
        /\ pc = "reg" /\ pc' \in {"reg", "stale"}
        /\ \E t \in todo : /\ todo' = todo \ {t}
                           /\ \/ pc' = "stale" /\ tgt' = t /\ absent' = absent
                              \/ pc' = "reg" /\ tgt' = tgt /\ absent' = absent \cup {t}
    BY DEF NextTarget, SkipTarget
  <2> QED
    BY <2>1 DEF IInv, ProbeInv, MineKnown, StaleAhead, CleanExit, NoStaleProbe, Mine,
         Stale, Off, Registering, Cleaning
<1>3. SniInv'
  BY SniSame DEF IInv, NextTarget, SkipTarget, caches
<1> QED
  BY <1>1, <1>2, <1>3 DEF IInv

LEMMA StaleStep == ASSUME IInv, DisableStale \/ RemoveStale PROVE IInv'
<1>1. tgt \in Target
  BY DEF IInv, TypeOK, DisableStale, RemoveStale
<1>2. UNCHANGED <<buf, run, probeState, caches, how, absent>>
  BY DEF DisableStale, RemoveStale
<1>3. \/ pc = "stale" /\ pc' = "rm" /\ Disabled(tgt)
      \/ pc = "rm" /\ pc' = "add" /\ Removed(tgt) /\ (Off(tgt) \/ tgt \in refused)
  BY DEF DisableStale, RemoveStale, IInv, ProbeInv
<1>4. PICK v \in Probe \cup {None} :
        /\ probes' = [probes EXCEPT ![tgt] = v]
        /\ v # None => probes[tgt] # None /\ v.run = probes[tgt].run
        /\ refused' \subseteq Target
        /\ \A u \in Target : u # tgt => (u \in refused' <=> u \in refused)
        /\ pc' = "rm" => v = None \/ ~v.on \/ tgt \in refused'
        /\ pc' = "add" => v = None \/ tgt \in refused'
  BY <1>1, <1>3, Disabling, Removing DEF IInv
<1>5. \A t \in Target : probes'[t] = IF t = tgt THEN v ELSE probes[t]
  BY <1>4 DEF IInv, TypeOK
<1>8. TypeOK'
  BY <1>2, <1>3, <1>4 DEF IInv, TypeOK, probeState, caches
<1>9. ProbeInv'
  BY <1>1, <1>2, <1>3, <1>4, <1>5 DEF IInv, ProbeInv, MineKnown, StaleAhead, CleanExit, NoStaleProbe,
     Mine, Stale, Off, Registering, Cleaning, probeState
<1>10. SniInv'
  BY <1>2, SniSame DEF IInv, caches
<1> QED
  BY <1>8, <1>9, <1>10 DEF IInv

LEMMA AddStep == ASSUME IInv, AddProbe PROVE IInv'
<1> DEFINE new == [run |-> run, on |-> FALSE]
<1>1. tgt \in Target /\ pc = "add" /\ run # 0
  BY DEF IInv, TypeOK, AddProbe
<1>6. new \in Probe /\ new.run = run
  BY <1>1, Runs DEF Probe, IInv
<1>2. new \in Probe /\ new.run = run /\ new # None
  BY <1>6, NoneAssumption
<1>3. UNCHANGED <<buf, run, probeState, caches, how, absent, refused>>
  BY DEF AddProbe
<1>4. CASE probes' = [probes EXCEPT ![tgt] = new] /\ pc' = "enable"
  <2> HIDE DEF new
  <2>1. \A t \in Target : probes'[t] = IF t = tgt THEN new ELSE probes[t]
    BY <1>4 DEF IInv, TypeOK
  <2>2. TypeOK'
    BY <1>1, <1>2, <1>3, <1>4, <2>1 DEF IInv, TypeOK, probeState, caches
  <2>4. run \in Int
    BY Runs DEF IInv
  <2>3. ProbeInv'
    BY <1>1, <1>2, <1>3, <1>4, <2>1, <2>4 DEF IInv, ProbeInv, MineKnown, StaleAhead, CleanExit, NoStaleProbe,
       Mine, Stale, Off, Registering, Cleaning, probeState
  <2> QED
    BY <1>3, <2>2, <2>3, SniSame DEF IInv, caches
<1>5. CASE UNCHANGED probes /\ pc' = "reg"
  <2>1. TypeOK'
    BY <1>1, <1>3, <1>5 DEF IInv, TypeOK, probeState, caches
  <2>2. ProbeInv'
    BY <1>1, <1>3, <1>5 DEF IInv, ProbeInv, MineKnown, StaleAhead, CleanExit, NoStaleProbe,
       Mine, Stale, Off, Registering, Cleaning, probeState
  <2> QED
    BY <1>3, <2>1, <2>2, SniSame DEF IInv, caches
<1> QED
  BY <1>4, <1>5 DEF AddProbe

LEMMA EnableStep == ASSUME IInv, EnableProbe PROVE IInv'
<1>1. tgt \in Target /\ probes[tgt] \in Probe /\ pc = "enable" /\ pc' = "record"
  BY DEF IInv, TypeOK, EnableProbe
<1>2. UNCHANGED <<buf, run, probeState, caches, how, absent, refused>>
  BY DEF EnableProbe
<1>3. PICK ok \in BOOLEAN : probes' = [probes EXCEPT ![tgt].on = ok]
  BY DEF EnableProbe
<1> DEFINE v == [probes[tgt] EXCEPT !.on = ok]
<1>4. v \in Probe /\ v.run = probes[tgt].run /\ v # None
  BY <1>1, NoneAssumption DEF Probe
<1>5. probes' = [probes EXCEPT ![tgt] = v]
  BY <1>3
<1> HIDE DEF v
<1>6. \A t \in Target : probes'[t] = IF t = tgt THEN v ELSE probes[t]
  BY <1>5 DEF IInv, TypeOK
<1>7. TypeOK'
  BY <1>1, <1>2, <1>4, <1>5, <1>6 DEF IInv, TypeOK, probeState, caches
<1>8. ProbeInv'
  BY <1>1, <1>2, <1>4, <1>6 DEF IInv, ProbeInv, MineKnown, StaleAhead, CleanExit, NoStaleProbe,
     Mine, Stale, Off, Registering, Cleaning, probeState, TypeOK
<1> QED
  BY <1>2, <1>7, <1>8, SniSame DEF IInv, caches

LEMMA RecordStep == ASSUME IInv, RecordProbe PROVE IInv'
<1>1. TypeOK'
  BY DEF RecordProbe, IInv, TypeOK, caches
<1>2. ProbeInv'
  BY DEF RecordProbe, IInv, ProbeInv, MineKnown, StaleAhead, CleanExit, NoStaleProbe, Mine,
         Stale, Off, Registering, Cleaning
<1> QED
  BY <1>1, <1>2, SniSame DEF IInv, RecordProbe, caches

LEMMA RegisteredStep == ASSUME IInv, Registered PROVE IInv'
<1>1. CASE registered = {} /\ Down("failed")
  <2>1. UNCHANGED <<probes, buf, run, refused>> /\ pc = "reg"
    BY DEF Registered
  <2>2. \A t \in Target : ~Mine(t)
    BY <1>1, <2>1 DEF IInv, ProbeInv, MineKnown, Registering
  <2>3. /\ probes' \in [Target -> Probe \cup {None}] /\ refused' \subseteq Target
        /\ \A t \in Target : probes'[t] # None => probes'[t].run <= run
    BY <2>1 DEF IInv, TypeOK, ProbeInv
  <2> QED
    BY <1>1, <2>1, <2>2, <2>3, DownStep DEF Mine
<1>2. CASE registered # {} /\ pc' = "open"
  <2>1. TypeOK'
    BY <1>2 DEF Registered, Down, IInv, TypeOK, caches
  <2>2. ProbeInv'
    BY <1>2 DEF Registered, Down, IInv, ProbeInv, MineKnown, StaleAhead, CleanExit, NoStaleProbe, Mine,
           Stale, Off, Registering, Cleaning
  <2> QED
    BY <1>2, <2>1, <2>2, SniSame DEF IInv, Registered, Down, caches
<1> QED
  BY <1>1, <1>2 DEF Registered

LEMMA OpenStep == ASSUME IInv, OpenPipe PROVE IInv'
<1>1. TypeOK'
  BY DEF OpenPipe, IInv, TypeOK, caches
<1>2. ProbeInv'
  BY DEF OpenPipe, IInv, ProbeInv, MineKnown, StaleAhead, CleanExit, NoStaleProbe, Mine,
         Stale, Off, Registering, Cleaning
<1> QED
  BY <1>1, <1>2, SniSame DEF IInv, OpenPipe, caches

\* A run that ends without cleanup_uprobes.
LEMMA KilledStep ==
  ASSUME IInv, NEW h \in {"killed", "eof"}, Down(h), UNCHANGED <<probes, buf, run, refused>>
  PROVE IInv'
  BY DownStep DEF IInv, TypeOK, ProbeInv

LEMMA SignalStep == ASSUME IInv, Signal PROVE IInv'
<1>1. CASE Down("killed")
  BY <1>1, KilledStep DEF Signal
<1>2. CASE handler /\ pc' = "clean" /\ left' = registered
           /\ UNCHANGED <<todo, tgt, registered, handler, caches, how, absent>>
  <2>1. TypeOK'
    BY <1>2 DEF Signal, IInv, TypeOK, caches
  <2>2. left \subseteq registered /\ UNCHANGED <<probes, buf, run, refused>>
    BY DEF Signal, IInv, TypeOK
  <2>3. ProbeInv'
    BY <1>2, <2>2 DEF IInv, ProbeInv, MineKnown, StaleAhead, CleanExit, NoStaleProbe, Mine,
           Stale, Off, Registering, Cleaning
  <2> QED
    BY <1>2, <2>1, <2>3, SniSame DEF IInv, caches
<1> QED
  BY <1>1, <1>2 DEF Signal

\* cleanup_uprobes.
LEMMA CleanDisableStep == ASSUME IInv, CleanDisable PROVE IInv'
<1>1. PICK t \in left : Disabled(t) /\ tgt' = t
  BY DEF CleanDisable
<1>2. t \in Target /\ t # None
  BY HostAssumption DEF IInv, TypeOK
<1>3. UNCHANGED <<buf, run, todo, registered, left, handler, caches, how, absent>>
      /\ pc = "clean" /\ pc' = "cleanrm"
  BY DEF CleanDisable
<1>4. PICK v \in Probe \cup {None} :
        /\ probes' = [probes EXCEPT ![t] = v]
        /\ v # None => probes[t] # None /\ v.run = probes[t].run
        /\ refused' \subseteq Target
        /\ \A u \in Target : u # t => (u \in refused' <=> u \in refused)
        /\ v = None \/ ~v.on \/ t \in refused'
  BY <1>1, <1>2, Disabling DEF IInv
<1>6. \A u \in Target : probes'[u] = IF u = t THEN v ELSE probes[u]
  BY <1>4 DEF IInv, TypeOK
<1>7. TypeOK'
  BY <1>1, <1>2, <1>3, <1>4 DEF IInv, TypeOK, caches
<1>8. ProbeInv'
  BY <1>1, <1>2, <1>3, <1>4, <1>6 DEF IInv, ProbeInv, MineKnown, StaleAhead, CleanExit, NoStaleProbe, Mine,
           Stale, Off, Registering, Cleaning
<1> QED
  BY <1>3, <1>7, <1>8, SniSame DEF IInv, caches

LEMMA CleanRemoveStep == ASSUME IInv, CleanRemove PROVE IInv'
<1>1. /\ tgt \in Target /\ tgt \in left /\ pc = "cleanrm" /\ UNCHANGED <<buf, run>>
      /\ Removed(tgt) /\ (Off(tgt) \/ tgt \in refused)
  BY DEF IInv, TypeOK, ProbeInv, CleanRemove
<1>2. PICK v \in Probe \cup {None} :
        /\ probes' = [probes EXCEPT ![tgt] = v]
        /\ v # None => probes[tgt] # None /\ v.run = probes[tgt].run
        /\ refused' \subseteq Target
        /\ \A u \in Target : u # tgt => (u \in refused' <=> u \in refused)
        /\ v = None \/ tgt \in refused'
  BY <1>1, Removing DEF IInv
<1>3. \A t \in Target : probes'[t] = IF t = tgt THEN v ELSE probes[t]
  BY <1>2 DEF IInv, TypeOK
<1>4. probes' \in [Target -> Probe \cup {None}]
  BY <1>2 DEF IInv, TypeOK
<1>5. \A t \in Target : probes'[t] # None => probes'[t].run <= run
  BY <1>2, <1>3 DEF IInv, ProbeInv
<1>6. \A t \in Target : Mine(t) => t \in left \cup refused
  BY <1>1 DEF IInv, ProbeInv, MineKnown, Cleaning
<1>7. CASE left = {tgt} /\ Down("clean")
  <2>1. \A t \in Target : probes'[t] = None \/ probes'[t].run # run \/ t \in refused'
    BY <1>2, <1>3, <1>6, <1>7 DEF Mine
  <2> QED
    BY <1>1, <1>2, <1>4, <1>5, <1>7, <2>1, DownStep
<1>8. CASE left' = left \ {tgt} /\ pc' = "clean"
           /\ UNCHANGED <<todo, tgt, registered, handler, caches, how, absent>>
  <2>1. TypeOK'
    BY <1>1, <1>2, <1>4, <1>8 DEF IInv, TypeOK, caches
  <2>2. MineKnown'
    BY <1>1, <1>2, <1>3, <1>6, <1>8 DEF MineKnown, Mine, Registering, Cleaning
  <2>3. ProbeInv'
    BY <1>1, <1>5, <1>8, <2>2 DEF IInv, ProbeInv, StaleAhead, CleanExit, NoStaleProbe, Registering, Cleaning
  <2> QED
    BY <1>8, <2>1, <2>3, SniSame DEF IInv, caches
<1> QED
  BY <1>7, <1>8 DEF CleanRemove

LEMMA PrintStep == ASSUME IInv, print_event PROVE IInv'
<1> DEFINE e == Head(buf)
<1>1. e \in Event /\ buf' \in Seq(Event)
  BY HeadTailProperties DEF print_event, IInv, TypeOK
<1>2. UNCHANGED <<probes, run, pc, probeState, how, absent, refused>>
  BY DEF print_event
<1>3. e.pid \in Pid /\ e.host \in Host \cup {""}
  BY <1>1 DEF Event
<1>4. ProbeInv'
  BY <1>2 DEF IInv, ProbeInv, MineKnown, StaleAhead, CleanExit, NoStaleProbe, Mine, Stale, Off,
              probeState
<1>5. /\ SniInv'
      /\ sniCache' \in [Slot -> SniEntry \cup {None}]
      /\ told' \in [Pid -> Host \cup {""}]
      /\ connSeen' \subseteq Pid \X (Host \cup {""})
  <2>1. CASE UNCHANGED caches
    BY <2>1, SniSame DEF IInv, TypeOK, caches
  <2>2. CASE print_sni(e)
    <3>1. CASE UNCHANGED <<sniCache, told>>
      BY <2>2, <3>1, SniSame DEF print_sni, IInv, TypeOK
    <3>2. CASE e.host # "" /\ set_sni(e.pid, e.host) /\ told' = [told EXCEPT ![e.pid] = e.host]
      <4>1. e.host \in Host
        BY <1>3, <3>2
      <4>2. SniInv' /\ sniCache' \in [Slot -> SniEntry \cup {None}]
        BY <1>3, <3>2, <4>1, SetSni DEF IInv
      <4>3. told' \in [Pid -> Host \cup {""}]
        BY <3>2, <4>1 DEF IInv, TypeOK
      <4> QED
        BY <2>2, <4>2, <4>3 DEF print_sni, IInv, TypeOK
    <3> QED
      BY <2>2, <3>1, <3>2 DEF print_sni
  <2>3. CASE print_data(e)
    <3>1. remote_host(e.pid) \subseteq Host \cup {""}
      BY <1>3, GetSni DEF remote_host, IInv
    <3>2. connSeen' \subseteq Pid \X (Host \cup {""})
      <4>1. PICK h \in Host \cup {""} : connSeen' \in {connSeen, connSeen \cup {<<e.pid, h>>}}
        BY <2>3, <3>1 DEF print_data
      <4>2. <<e.pid, h>> \in Pid \X (Host \cup {""})
        BY <1>3
      <4>3. connSeen \subseteq Pid \X (Host \cup {""})
        BY DEF IInv, TypeOK
      <4> QED
        BY <4>1, <4>2, <4>3
    <3>3. UNCHANGED <<sniCache, told>>
      BY <2>3 DEF print_data
    <3> QED
      BY <3>2, <3>3, SniSame DEF IInv, TypeOK
  <2> QED
    BY <2>1, <2>2, <2>3 DEF print_event
<1>6. TypeOK'
  BY <1>1, <1>2, <1>5 DEF IInv, TypeOK, probeState
<1> QED
  BY <1>4, <1>5, <1>6 DEF IInv

LEMMA StepInv == IInv /\ [Next]_vars => IInv'
<1> SUFFICES ASSUME IInv, [Next]_vars PROVE IInv'
  OBVIOUS
<1>1. CASE SslCall \/ Start \/ Signal \/ Kill \/ Eof
  BY <1>1, SslStep, StartStep, SignalStep, KilledStep DEF Kill, Eof
<1>2. CASE Tracer
  BY <1>2, TargetStep, StaleStep, AddStep, EnableStep, RecordStep, RegisteredStep, OpenStep,
     CleanDisableStep, CleanRemoveStep, PrintStep DEF Tracer
<1>3. CASE UNCHANGED vars
  <2>1. TypeOK'
    BY <1>3 DEF vars, probeState, caches, IInv, TypeOK
  <2>2. ProbeInv'
    BY <1>3 DEF vars, probeState, IInv, ProbeInv, MineKnown, StaleAhead, CleanExit, NoStaleProbe, Mine,
                Stale, Off
  <2> QED
    BY <1>3, <2>1, <2>2, SniSame DEF vars, caches, IInv
<1> QED
  BY <1>1, <1>2, <1>3 DEF Next

-----------------------------------------------------------------------------

\* The invariant that relates the kernel's probes, the array of them and the point that
\* register_uprobes or cleanup_uprobes has reached, and the SNI cache and what was read.
THEOREM TlsInvariant == Spec => []IInv
BY InitInv, StepInv, PTL DEF Spec

\* The tls tracer's state is well formed, and only a probe that is there is enabled.
THEOREM TypeCorrect == Spec => []TypeOK
<1>1. IInv => TypeOK
  BY DEF IInv
<1> QED
  BY <1>1, TlsInvariant, PTL

\* cleanup_uprobes takes out every probe that register_uprobes has put in, as far as its
\* writes succeed.
THEOREM ExitsClean == Spec => []CleanExit
<1>1. IInv => CleanExit
  BY DEF IInv, ProbeInv
<1> QED
  BY <1>1, TlsInvariant, PTL

\* No probe of an earlier run survives register_uprobes, but for skipped symbols and for
\* probes about which a write failed.
THEOREM StaleReplaced == Spec => []NoStaleProbe
<1>1. IInv => NoStaleProbe
  BY DEF IInv, ProbeInv
<1> QED
  BY <1>1, TlsInvariant, PTL

\* get_sni never returns the name of another pid or an older one of this pid.
THEOREM SniIsLatest == Spec => []SniLatest
<1>1. IInv => SniLatest
  BY GetSni DEF IInv, SniLatest
<1> QED
  BY <1>1, TlsInvariant, PTL
=============================================================================
