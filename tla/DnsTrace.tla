------------------------------ MODULE DnsTrace ------------------------------
(***************************************************************************)
(* The dns tracer (c/dns.c, internal/dnstrace): it captures packets,       *)
(* attributes a query to the process that holds its source port, remembers *)
(* it under its transaction id and prints it when a response with that id  *)
(* comes by.  How a packet is parsed is in DnsParse.                       *)
(*                                                                         *)
(* Processes, sockets and the network go on between any two packets:       *)
(* packets are lost, repeated and late, and ports change hands.  Names,    *)
(* record types and answers are abstracted to which query is meant.        *)
(***************************************************************************)
EXTENDS Integers, Sequences, FiniteSets

CONSTANTS Query,      \* the queries: id, source port, and a number to tell them apart
          Pid,        \* processes
          TTL,        \* CACHE_TTL_MS, and the age of a snapshot, in ticks
          PidSet,     \* -p; empty: everything is shown
          MaxNow,     \* bound: ticks
          MaxSends,   \* bound: times a query is sent, first and again
          QueueCap,   \* bound: captured packets waiting
          None

ASSUME QueryAssumption == Query \subseteq [id : Nat, port : Nat, n : Nat]
ASSUME PidAssumption == Pid \subseteq Nat \ {0}
ASSUME TTLAssumption == TTL \in Nat \ {0}
ASSUME BoundsAssumption == {MaxNow, MaxSends, QueueCap} \subseteq Nat

Port == {q.port : q \in Query}
Id == {q.id : q \in Query}
Time == 0 .. MaxNow

\* born is when the cache entry was made; asOf is history: when the kernel was
\* asked (a snapshot may be older than the entry made from it).
CacheEntry == [pid : Pid \cup {0}, born : Time, asOf : Time]
Snapshot == [map : [Port -> Pid \cup {0}], born : Time]
DnsEvent == [query : Query, pid : Pid \cup {0}, sent : Time]
Packet == [kind : {"query", "response"}, q : Query]
ASSUME NoneAssumption == None \notin CacheEntry \cup Snapshot \cup DnsEvent

VARIABLES darwin,    \* the build for macOS: lookups go through an lsof snapshot
          now,
          owner,     \* port -> the process whose socket it is, 0 for none
          since,     \* port -> when that last changed
          queue,     \* captured packets
          sends,     \* query -> times sent
          pcache,    \* port -> entry, or None
          mac_udp,   \* the lsof snapshot, or None
          pending,   \* id -> the query in flight, or None
          line,      \* the last packet's line: query, response and pid, or None
          reported   \* query -> lines printed for it

world == <<darwin, now, owner, since, sends>>
vars == <<world, queue, pcache, mac_udp, pending, line, reported>>

Init ==
  /\ darwin \in BOOLEAN
  /\ now = 0
  /\ owner = [p \in Port |-> 0]
  /\ since = [p \in Port |-> 0]
  /\ queue = <<>>
  /\ sends = [q \in Query |-> 0]
  /\ pcache = [p \in Port |-> None]
  /\ mac_udp = None
  /\ pending = [i \in Id |-> None]
  /\ line = None
  /\ reported = [q \in Query |-> 0]

-----------------------------------------------------------------------------
(* The world.                                                              *)

Tick ==
  /\ now < MaxNow
  /\ now' = now + 1
  /\ UNCHANGED <<darwin, owner, since, sends, queue, pcache, mac_udp, pending, line, reported>>

\* A socket is bound or closed.
Socket(p, pid) ==
  /\ owner[p] # pid
  /\ owner' = [owner EXCEPT ![p] = pid]
  /\ since' = [since EXCEPT ![p] = now]
  /\ UNCHANGED <<darwin, now, sends, queue, pcache, mac_udp, pending, line, reported>>

\* The capture sees a packet `copies` times: not at all, once, or, on the
\* loopback interface, going out and coming in.
Captured(packet, copies) ==
  /\ Len(queue) + copies <= QueueCap
  /\ queue' = queue \o [i \in 1 .. copies |-> packet]

\* A process sends a query, or sends it again because no answer came.
SendQuery(q, copies) ==
  /\ sends[q] < MaxSends
  /\ owner[q.port] # 0
  /\ sends' = [sends EXCEPT ![q] = @ + 1]
  /\ Captured([kind |-> "query", q |-> q], copies)
  /\ UNCHANGED <<darwin, now, owner, since, pcache, mac_udp, pending, line, reported>>

\* The server answers a query it was sent, at any later time and each time.
Respond(q, copies) ==
  /\ sends[q] > 0
  /\ copies > 0
  /\ Captured([kind |-> "response", q |-> q], copies)
  /\ UNCHANGED <<world, pcache, mac_udp, pending, line, reported>>

-----------------------------------------------------------------------------
(* The tracer.                                                             *)

\* pid_for_udp_port on Linux: the socket's inode, then whose it is; nobody's
\* when the socket is gone between the two or its owner cannot be read.
pid_for_udp_port(p, ok) == [pid |-> IF ok THEN owner[p] ELSE 0, asOf |-> now]

\* mac_scan_udp: every port at once, or nothing when lsof fails.
mac_scan_udp(ok) == [map |-> [p \in Port |-> IF ok THEN owner[p] ELSE 0], born |-> now]

\* Mutant: the snapshot is never renewed.
snapshotOnce(ok) == IF mac_udp = None THEN mac_scan_udp(ok) ELSE mac_udp

\* pid_for_udp_port on macOS reads the snapshot, renewed when it is older than TTL.
snapshot(ok) ==
  IF mac_udp = None \/ now - mac_udp.born > TTL THEN mac_scan_udp(ok) ELSE mac_udp

\* Mutant: <= where < is meant.
HitInclusive(p) == pcache[p] # None /\ now - pcache[p].born <= TTL

\* proc_lookup: the cached entry while it is younger than TTL, else the platform's
\* pid_for_udp_port.
Hit(p) == pcache[p] # None /\ now - pcache[p].born < TTL

proc_lookup(p, ok) ==
  IF Hit(p)
    THEN UNCHANGED <<pcache, mac_udp>>
    ELSE /\ mac_udp' = IF darwin THEN snapshot(ok) ELSE mac_udp
         /\ LET found == IF darwin THEN [pid |-> mac_udp'.map[p], asOf |-> mac_udp'.born]
                                   ELSE pid_for_udp_port(p, ok)
            IN pcache' = [pcache EXCEPT ![p] = [pid |-> found.pid, born |-> now, asOf |-> found.asOf]]

\* is_query && dst == 53
OnQuery(ok) ==
  /\ queue # <<>>
  /\ Head(queue).kind = "query"
  /\ LET q == Head(queue).q
     IN /\ proc_lookup(q.port, ok)
        /\ pending' = [pending EXCEPT ![q.id] =
                         [query |-> q, pid |-> pcache'[q.port].pid, sent |-> now]]
  /\ queue' = Tail(queue)
  /\ line' = None
  /\ UNCHANGED <<world, reported>>

\* emit: the -p filter.
emit(ev) == PidSet = {} \/ ev.pid \in PidSet

\* Mutant: the query is not forgotten.
OnResponseKeep ==
  /\ queue # <<>>
  /\ Head(queue).kind = "response"
  /\ LET r == Head(queue).q
         ev == pending[r.id]
     IN IF ev # None /\ emit(ev)
          THEN /\ line' = [query |-> ev.query, response |-> r, pid |-> ev.pid]
               /\ reported' = [reported EXCEPT ![ev.query] = @ + 1]
          ELSE line' = None /\ UNCHANGED reported
  /\ queue' = Tail(queue)
  /\ UNCHANGED <<world, pcache, mac_udp, pending>>

\* !is_query && src == 53: match, forget, emit.
OnResponse ==
  /\ queue # <<>>
  /\ Head(queue).kind = "response"
  /\ LET r == Head(queue).q
         ev == pending[r.id]
     IN IF ev # None
          THEN /\ pending' = [pending EXCEPT ![r.id] = None]
               /\ line' = IF emit(ev) THEN [query |-> ev.query, response |-> r, pid |-> ev.pid]
                                         ELSE None
               /\ reported' = IF emit(ev) THEN [reported EXCEPT ![ev.query] = @ + 1]
                                             ELSE reported
          ELSE /\ line' = None
               /\ UNCHANGED <<pending, reported>>
  /\ queue' = Tail(queue)
  /\ UNCHANGED <<world, pcache, mac_udp>>

Tracer == (\E ok \in BOOLEAN : OnQuery(ok)) \/ OnResponse

Next ==
  \/ Tick
  \/ \E p \in Port, pid \in Pid \cup {0} : Socket(p, pid)
  \/ \E q \in Query, copies \in 0 .. 2 : SendQuery(q, copies) \/ Respond(q, copies)
  \/ Tracer

\* The capture loop handles what has been captured.
Spec == Init /\ [][Next]_vars /\ WF_vars(Tracer)

-----------------------------------------------------------------------------
(* Properties.                                                             *)

\* Packets, cache, snapshot and queries in flight are well formed.
TypeOK ==
  /\ darwin \in BOOLEAN
  /\ now \in Time
  /\ owner \in [Port -> Pid \cup {0}]
  /\ since \in [Port -> Time]
  /\ queue \in Seq(Packet)
  /\ Len(queue) <= QueueCap
  /\ sends \in [Query -> 0 .. MaxSends]
  /\ pcache \in [Port -> CacheEntry \cup {None}]
  /\ mac_udp \in Snapshot \cup {None}
  /\ pending \in [Id -> DnsEvent \cup {None}]
  /\ line \in [query : Query, response : Query, pid : Pid \cup {0}] \cup {None}
  /\ reported \in [Query -> Nat]

\* A query is printed at most once for each time it was sent, however often
\* its packets are captured and however many answers come.
ReportedOnce == \A q \in Query : reported[q] <= sends[q]

\* A query that is put in flight from a port that has had its owner for `limit`
\* is attributed to that owner, or to none.
Blamed(limit) ==
  \A i \in Id :
    pending'[i] # None /\ pending'[i] # pending[i] =>
      LET p == pending'[i].query.port
      IN now - since[p] >= limit => pending'[i].pid \in {0, owner[p]}

\* Once a process has had its port for the TTL, no query from that port is
\* attributed to the port's previous owner.
BlamedFresh == [][~darwin => Blamed(TTL)]_vars

\* On macOS the cache is filled from a snapshot that is cached
\* itself: it takes twice the TTL.
BlamedSnapshot == [][Blamed(2 * TTL)]_vars

\* A query in flight whose answer has been captured is taken out of pending.
AnswerTaken ==
  \A q \in Query :
    (pending[q.id] # None /\ \E i \in 1 .. Len(queue) : queue[i] = [kind |-> "response", q |-> q])
      ~> pending[q.id] = None

\* The strengthening of BlamedFresh and BlamedSnapshot: what a cache holds was
\* true when it was read and is wrong only if the port changed hands since.
CacheWasTrue ==
  /\ \A p \in Port : since[p] <= now
  /\ \A p \in Port :
       pcache[p] # None =>
         /\ pcache[p].asOf <= pcache[p].born
         /\ pcache[p].born <= now
         /\ IF darwin THEN pcache[p].born - pcache[p].asOf <= TTL
                      ELSE pcache[p].born = pcache[p].asOf
         /\ since[p] < pcache[p].asOf => pcache[p].pid \in {0, owner[p]}
  /\ mac_udp # None =>
       /\ mac_udp.born <= now
       /\ \A p \in Port : since[p] < mac_udp.born => mac_udp.map[p] \in {0, owner[p]}

\* Why ReportedOnce holds: a query in flight, and each run of captured copies of a
\* query still to be handled, stands for a send of its own.  The copies of one
\* send are handled one after the other, so that no answer comes between them;
\* those at the head of the queue belong to the query already in flight.
QueryPacket(q) == [kind |-> "query", q |-> q]
InFlight(q) == pending[q.id] # None /\ pending[q.id].query = q

Runs(packets, x, held) ==
  {i \in 1 .. Len(packets) : packets[i] = x /\ IF i = 1 THEN ~held ELSE packets[i - 1] # x}

Unreported(q) ==
  Cardinality(Runs(queue, QueryPacket(q), InFlight(q))) + IF InFlight(q) THEN 1 ELSE 0

SendsCounted ==
  /\ \A i \in Id : pending[i] # None => pending[i].query.id = i
  /\ \A q \in Query : reported[q] + Unreported(q) <= sends[q]

IInv == TypeOK /\ CacheWasTrue

=============================================================================
