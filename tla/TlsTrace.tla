------------------------------ MODULE TlsTrace ------------------------------
(***************************************************************************)
(* The tls tracer (c/tls.c, tls.go).  It writes uprobes on libssl into the *)
(* kernel, one write at a time, reads what they record from trace_pipe and *)
(* takes them out again when a signal ends it.  A run may be killed at any *)
(* point and leave its probes behind; the next run starts with them.       *)
(*                                                                         *)
(* Several runs follow each other, one at a time.  The tracer's memory is  *)
(* new in each; the kernel's probes and its ring buffer stay.              *)
(***************************************************************************)
EXTENDS Integers, FiniteSets, Sequences

CONSTANTS Target,     \* probe_targets, by probe name
          Data,       \* those whose events are reads and writes; the others tell an SNI
          Pid,
          WatchPids,  \* -p; all when empty
          Host,       \* host names
          MaxSni,     \* MAX_SNI
          MaxConn,    \* MAX_CONN
          MaxRuns,    \* bound: runs of the tracer
          BufCap,     \* bound: events in the ring buffer
          None

ASSUME TargetAssumption == Data \subseteq Target
ASSUME PidAssumption == Pid \subseteq Nat
ASSUME BoundAssumption == MaxSni \in Nat \ {0} /\ MaxConn \in Nat /\ MaxRuns \in Nat /\ BufCap \in Nat
ASSUME HostAssumption == "" \notin Host /\ None \notin Target

VARIABLES probes,      \* kernel: target -> probe, or None
          buf,         \* kernel: events not yet read
          run,         \* which run of the tracer this is
          pc,          \* where it is; "down" between runs
          todo,        \* targets register_uprobes has not come to
          tgt,         \* the target in hand
          registered,  \* the array of that name
          left,        \* those of it that cleanup_uprobes has not come to
          handler,     \* on_sig is installed
          sniCache,    \* slot -> pid and host, or None
          connSeen,    \* keys pid and host, each printed once
          how,         \* history: how the last run ended
          absent,      \* history: targets this run skipped
          refused,     \* history: targets whose probe this run could not disable or remove
          told         \* history: pid -> the last server name this run read of it, or ""

probeState == <<todo, tgt, registered, left, handler>>
caches == <<sniCache, connSeen, told>>
vars == <<probes, buf, run, pc, probeState, caches, how, absent, refused>>

\* One line of trace_pipe; the host, in those of SNI probes, is "" when the probe read no
\* string.
Event == [pid : Pid, sni : BOOLEAN, host : Host \cup {""}]
Probe == [run : 1 .. MaxRuns, on : BOOLEAN]
SniEntry == [pid : Pid, host : Host]
Slot == 0 .. MaxSni - 1
ASSUME NoneAssumption == None \notin Event \cup Probe \cup SniEntry

Init ==
  /\ probes = [t \in Target |-> None]
  /\ buf = <<>>
  /\ run = 0
  /\ pc = "down"
  /\ todo = {}
  /\ tgt = None
  /\ registered = {}
  /\ left = {}
  /\ handler = FALSE
  /\ sniCache = [i \in Slot |-> None]
  /\ connSeen = {}
  /\ how = "none"
  /\ absent = {}
  /\ refused = {}
  /\ told = [p \in Pid |-> ""]

-----------------------------------------------------------------------------
(* The kernel: a process calls into libssl and a probe records it.         *)

SslCall ==
  /\ Len(buf) < BufCap
  /\ \E t \in Target, p \in Pid, h \in Host \cup {""} :
       /\ probes[t] # None
       /\ probes[t].on
       /\ t \in Data => h = ""
       /\ buf' = Append(buf, [pid |-> p, sni |-> t \notin Data, host |-> h])
  /\ UNCHANGED <<probes, run, pc, probeState, caches, how, absent, refused>>

-----------------------------------------------------------------------------
(* tls_main up to its loop.                                                *)

Start ==
  /\ pc = "down"
  /\ run < MaxRuns
  /\ run' = run + 1
  /\ pc' = "reg"
  /\ todo' = Target
  /\ refused' = {}
  /\ UNCHANGED <<probes, buf, tgt, registered, left, handler, caches, how, absent>>

\* The run is over and its memory gone.
Down(h) ==
  /\ pc' = "down"
  /\ how' = h
  /\ todo' = {}
  /\ tgt' = None
  /\ registered' = {}
  /\ left' = {}
  /\ handler' = FALSE
  /\ sniCache' = [i \in Slot |-> None]
  /\ connSeen' = {}
  /\ absent' = {}
  /\ told' = [p \in Pid |-> ""]

\* register_uprobes: the next target, ...
NextTarget ==
  /\ pc = "reg"
  /\ \E t \in todo : todo' = todo \ {t} /\ tgt' = t
  /\ pc' = "stale"
  /\ UNCHANGED <<probes, buf, run, registered, left, handler, caches, how, absent, refused>>

\* ... whose symbol the library may not have; ...
SkipTarget ==
  /\ pc = "reg"
  /\ \E t \in todo : todo' = todo \ {t} /\ absent' = absent \cup {t}
  /\ UNCHANGED <<probes, buf, run, pc, tgt, registered, left, handler, caches, how, refused>>

\* A write about a probe that is there may fail, and nobody looks.
Fails(t) == probes[t] # None /\ refused' = refused \cup {t} /\ UNCHANGED probes

\* "0" written to its enable file.
Disabled(t) ==
  \/ /\ probes' = [probes EXCEPT ![t] = IF @ = None THEN None ELSE [@ EXCEPT !.on = FALSE]]
     /\ UNCHANGED refused
  \/ Fails(t)

\* "-:uprobes/name" written to uprobe_events: the kernel refuses while it is enabled.
Removed(t) ==
  \/ /\ probes[t] # None => ~probes[t].on
     /\ probes' = [probes EXCEPT ![t] = None]
     /\ refused' = refused \ {t}
  \/ /\ probes[t] # None /\ probes[t].on
     /\ UNCHANGED <<probes, refused>>
  \/ Fails(t)

\* Mutant: what an earlier run left is not disabled first.
DisableStaleNot ==
  /\ pc = "stale"
  /\ pc' = "rm"
  /\ UNCHANGED <<probes, buf, run, probeState, caches, how, absent, refused>>

\* ... a stale probe of that name is disabled ...
DisableStale ==
  /\ pc = "stale"
  /\ Disabled(tgt)
  /\ pc' = "rm"
  /\ UNCHANGED <<buf, run, probeState, caches, how, absent>>

\* ... and removed; ...
RemoveStale ==
  /\ pc = "rm"
  /\ Removed(tgt)
  /\ pc' = "add"
  /\ UNCHANGED <<buf, run, probeState, caches, how, absent>>

\* ... then the probe is added; where that fails, the next target.
AddProbe ==
  /\ pc = "add"
  /\ \/ /\ probes[tgt] = None
        /\ probes' = [probes EXCEPT ![tgt] = [run |-> run, on |-> FALSE]]
        /\ pc' = "enable"
     \/ UNCHANGED probes /\ pc' = "reg"
  /\ UNCHANGED <<buf, run, probeState, caches, how, absent, refused>>

\* It is enabled; a failure is ignored.  (The filter that SSL_ctrl gets next decides
\* which of its calls record an event; SslCall has any record one.)
EnableProbe ==
  /\ pc = "enable"
  /\ \E ok \in BOOLEAN : probes' = [probes EXCEPT ![tgt].on = ok]
  /\ pc' = "record"
  /\ UNCHANGED <<buf, run, probeState, caches, how, absent, refused>>

\* Mutant: only the probes whose events are printed are kept in the array.
RecordData ==
  /\ pc = "record"
  /\ registered' = IF tgt \in Data THEN registered \cup {tgt} ELSE registered
  /\ pc' = "reg"
  /\ UNCHANGED <<probes, buf, run, todo, tgt, left, handler, caches, how, absent, refused>>

RecordProbe ==
  /\ pc = "record"
  /\ registered' = registered \cup {tgt}
  /\ pc' = "reg"
  /\ UNCHANGED <<probes, buf, run, todo, tgt, left, handler, caches, how, absent, refused>>

\* With no probe at all the run is over; else the handlers are installed.
Registered ==
  /\ pc = "reg"
  /\ todo = {}
  /\ \/ registered = {} /\ Down("failed")
     \/ /\ registered # {}
        /\ pc' = "open"
        /\ handler' = TRUE
        /\ UNCHANGED <<todo, tgt, registered, left, caches, how, absent>>
  /\ UNCHANGED <<probes, buf, run, refused>>

\* trace_pipe is opened, or the probes are taken out again.
OpenPipe ==
  /\ pc = "open"
  /\ \/ pc' = "loop" /\ UNCHANGED left
     \/ pc' = "clean" /\ left' = registered
  /\ UNCHANGED <<probes, buf, run, todo, tgt, registered, handler, caches, how, absent, refused>>

-----------------------------------------------------------------------------
(* The ways a run ends.                                                    *)

\* SIGINT or SIGTERM: on_sig once it is installed (also while the probes are being taken
\* out: it takes them all out once more), the default action before.
Signal ==
  /\ pc # "down"
  /\ \/ ~handler /\ Down("killed")
     \/ /\ handler
        /\ pc' = "clean"
        /\ left' = registered
        /\ UNCHANGED <<todo, tgt, registered, handler, caches, how, absent>>
  /\ UNCHANGED <<probes, buf, run, refused>>

Kill == pc # "down" /\ Down("killed") /\ UNCHANGED <<probes, buf, run, refused>>

\* trace_pipe ends: the probes stay.
Eof == pc = "loop" /\ Down("eof") /\ UNCHANGED <<probes, buf, run, refused>>

\* cleanup_uprobes: disable ...
CleanDisable ==
  /\ pc = "clean"
  /\ \E t \in left : Disabled(t) /\ tgt' = t
  /\ pc' = "cleanrm"
  /\ UNCHANGED <<buf, run, todo, registered, left, handler, caches, how, absent>>

\* ... and remove each, then _exit.
CleanRemove ==
  /\ pc = "cleanrm"
  /\ Removed(tgt)
  /\ \/ left = {tgt} /\ Down("clean")
     \/ /\ left # {tgt}
        /\ left' = left \ {tgt}
        /\ pc' = "clean"
        /\ UNCHANGED <<todo, tgt, registered, handler, caches, how, absent>>
  /\ UNCHANGED <<buf, run>>

-----------------------------------------------------------------------------
(* The loop: parse_line, is_watched, print_event.                          *)

is_watched(p) == WatchPids = {} \/ p \in WatchPids

SlotsOf(p) == {i \in Slot : sniCache[i] # None /\ sniCache[i].pid = p}
FreeSlots == {i \in Slot : sniCache[i] = None}
Least(S) == CHOOSE i \in S : \A j \in S : i <= j

\* Mutant: the first free slot is taken before a later one that has the pid is seen.
sniSlotFirst(p) ==
  IF FreeSlots # {} THEN Least(FreeSlots) ELSE IF SlotsOf(p) # {} THEN Least(SlotsOf(p)) ELSE p % MaxSni

\* Where set_sni writes: the pid's slot, a free one, or another pid's.
sniSlot(p) ==
  IF SlotsOf(p) # {} THEN Least(SlotsOf(p)) ELSE IF FreeSlots # {} THEN Least(FreeSlots) ELSE p % MaxSni

set_sni(p, h) == sniCache' = [sniCache EXCEPT ![sniSlot(p)] = [pid |-> p, host |-> h]]

get_sni(p) == IF SlotsOf(p) = {} THEN "" ELSE sniCache[Least(SlotsOf(p))].host

\* An SNI event with a name fills the cache; it prints nothing.
print_sni(e) ==
  /\ e.sni
  /\ \/ e.host = "" /\ UNCHANGED <<sniCache, told>>
     \/ e.host # "" /\ set_sni(e.pid, e.host) /\ told' = [told EXCEPT ![e.pid] = e.host]
  /\ UNCHANGED connSeen

\* remote_host: the SNI, else the peer of some connection in /proc, if any.
remote_host(p) == IF get_sni(p) # "" THEN {get_sni(p)} ELSE Host \cup {""}

\* conn_mark: the key is new, and printed, or known; a full table keeps no more.
print_data(e) ==
  /\ ~e.sni
  /\ \E h \in remote_host(e.pid) :
       connSeen' = IF Cardinality(connSeen) < MaxConn THEN connSeen \cup {<<e.pid, h>>} ELSE connSeen
  /\ UNCHANGED <<sniCache, told>>

print_event ==
  /\ pc = "loop"
  /\ buf # <<>>
  /\ buf' = Tail(buf)
  /\ LET e == Head(buf)
     IN \/ ~is_watched(e.pid) /\ UNCHANGED caches
        \/ is_watched(e.pid) /\ (print_sni(e) \/ print_data(e))
  /\ UNCHANGED <<probes, run, pc, probeState, how, absent, refused>>

Tracer == \/ NextTarget \/ SkipTarget \/ DisableStale \/ RemoveStale \/ AddProbe \/ EnableProbe
          \/ RecordProbe \/ Registered \/ OpenPipe \/ CleanDisable \/ CleanRemove
          \/ print_event

Next == SslCall \/ Start \/ Tracer \/ Signal \/ Kill \/ Eof

Spec == Init /\ [][Next]_vars

-----------------------------------------------------------------------------
(* Properties.                                                             *)

\* The state is well formed; the loops of register_uprobes and cleanup_uprobes have a
\* target in hand, and a probe is enabled and recorded only if the kernel has it.
TypeOK ==
  /\ probes \in [Target -> Probe \cup {None}]
  /\ buf \in Seq(Event)
  /\ run \in 0 .. MaxRuns
  /\ pc \in {"down", "reg", "stale", "rm", "add", "enable", "record", "open",
            "loop", "clean", "cleanrm"}
  /\ todo \subseteq Target
  /\ tgt \in Target \cup {None}
  /\ registered \subseteq Target
  /\ left \subseteq registered
  /\ handler \in BOOLEAN
  /\ sniCache \in [Slot -> SniEntry \cup {None}]
  /\ connSeen \subseteq Pid \X (Host \cup {""})
  /\ how \in {"none", "failed", "killed", "eof", "clean"}
  /\ absent \subseteq Target
  /\ refused \subseteq Target
  /\ told \in [Pid -> Host \cup {""}]
  /\ run = 0 => pc = "down"
  /\ pc \in {"stale", "rm", "add", "enable", "record", "cleanrm"} => tgt # None
  /\ pc \in {"enable", "record"} => probes[tgt] # None

\* A run that a signal ended in its loop, or that could not open trace_pipe or add
\* any probe, leaves none of its probes in the kernel (cleanup_uprobes) but those that
\* could not be disabled or removed.
CleanExit ==
  pc = "down" /\ how \in {"clean", "failed"} =>
    \A t \in Target : probes[t] = None \/ probes[t].run # run \/ t \in refused

\* "Remove any stale probe with this name (previous run killed without cleanup)"
\* (c/tls.c): wherever earlier runs were killed, when this one watches no probe of
\* theirs is left, but for symbols that its library does not have and for probes that
\* could not be disabled or removed.
NoStaleProbe ==
  pc \in {"open", "loop"} =>
    \A t \in Target : probes[t] = None \/ probes[t].run = run \/ t \in absent \cup refused

\* get_sni returns the last SNI read of the pid or, when another pid has taken its
\* slot in a full cache, nothing: never an older one and never that of another pid.
SniLatest == \A p \in Pid : get_sni(p) \in {"", told[p]}

-----------------------------------------------------------------------------
(* The inductive invariant.                                                *)

Mine(t) == probes[t] # None /\ probes[t].run = run
Stale(t) == probes[t] # None /\ probes[t].run # run
Off(t) == probes[t] = None \/ ~probes[t].on

Registering == {"reg", "stale", "rm", "add", "enable", "record"}
Cleaning == {"clean", "cleanrm"}

\* This run's probes are in its array, or the one in hand; then in what is left of it or
\* refused.
MineKnown ==
  /\ pc \in Registering \cup {"open", "loop"} =>
       \A t \in Target : Mine(t) => t \in registered \/ (pc \in {"enable", "record"} /\ t = tgt)
  /\ pc \in Cleaning => \A t \in Target : Mine(t) => t \in left \cup refused

\* Earlier runs' probes are of targets still to come, of the one in hand, skipped or
\* refused.
StaleAhead ==
  pc \in Registering =>
    \A t \in Target : Stale(t) => t \in todo \cup absent \cup refused \/ (pc \in {"stale", "rm"} /\ t = tgt)

ProbeInv ==
  /\ \A t \in Target : probes[t] # None => probes[t].run <= run
  /\ handler => pc \in Cleaning \cup {"open", "loop"}
  /\ pc = "cleanrm" => tgt \in left
  /\ pc \in {"rm", "cleanrm"} => Off(tgt) \/ tgt \in refused
  /\ MineKnown
  /\ StaleAhead
  /\ CleanExit
  /\ NoStaleProbe

\* No pid has two slots, and a slot has the last name read of its pid.
SniInv ==
  /\ \A i, j \in Slot : sniCache[i] # None /\ sniCache[j] # None /\ sniCache[i].pid = sniCache[j].pid => i = j
  /\ \A i \in Slot : sniCache[i] # None => told[sniCache[i].pid] = sniCache[i].host

IInv == TypeOK /\ ProbeInv /\ SniInv
=============================================================================
