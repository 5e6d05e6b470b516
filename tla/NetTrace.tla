------------------------------ MODULE NetTrace ------------------------------
(***************************************************************************)
(* The Linux net tracer (c/net.c, internal/nettrace/net.go): conntrack     *)
(* queues new, update and destroy events on a netlink socket; one thread   *)
(* receives them, searches /proc for the process behind a connection and   *)
(* keeps conndb, the connections it has shown as opened.                   *)
(*                                                                         *)
(* The kernel goes on while an event is handled.  Reading /proc/net/tcp,   *)
(* looking at the descriptors of one process and reading one parent are    *)
(* steps of their own.                                                     *)
(*                                                                         *)
(* Packets that -4, -6 or the protocol filter ignore are ignored for every *)
(* event alike: they are not in Tuple.  Nor is the second search for UDP,  *)
(* which takes a socket without a peer by its own address alone.           *)
(***************************************************************************)
EXTENDS ProcTree, Sequences

CONSTANTS IP,          \* addresses
          LocalIPs,    \* those of this host's interfaces
          Tuple,       \* connections by source and destination
          Options,     \* the command lines considered
          QueueCap,    \* bound: events the socket buffer holds
          MaxAncestors,  \* 256: pids is_descendant has room to remember
          MaxFlows,    \* bound: flows that conntrack sees begin
          MaxSockets   \* bound: sockets opened

ASSUME InitPidLeast == \A p \in Pid : InitPid <= p
ASSUME LocalIPsAssumption == LocalIPs \subseteq IP
ASSUME TupleAssumption == Tuple \subseteq [src : IP, dst : IP, port : Nat]
ASSUME QueueCapAssumption == QueueCap \in Nat \ {0}
ASSUME MaxAncestorsAssumption == MaxAncestors \in Nat \ {0}
ASSUME MaxFlowsAssumption == MaxFlows \in Nat
ASSUME MaxSocketsAssumption == MaxSockets \in Nat

\* -t, -U, -r and -O.
Option == [close : BOOLEAN, update : BOOLEAN, reverse : BOOLEAN, outbound : BOOLEAN]
ASSUME OptionsAssumption == Options \subseteq Option

VARIABLES ct,        \* tuple -> the flow conntrack knows, or None
          flows,     \* flows so far; flow 0 is one that predates the tracer
          socks,     \* /proc/net/{tcp,udp} and who has a descriptor
          inodes,    \* sockets so far: inode numbers are not used again
          queue,     \* the netlink socket's receive queue
          overrun,   \* the kernel dropped an event; the next recvfrom says so
          opt,       \* the options
          pc,        \* where the event loop is
          ev,        \* the event being handled, else None
          ent,       \* what the handler knows of the connection, else None
          ino,       \* the inode inode_to_pid is looking for
          cur,       \* the pid that is looked at
          seen,      \* is_descendant's seen
          conndb,    \* tuple -> entry, or None
          names,     \* dns_cache: address -> state of its lookup
          lost,      \* history: an event was dropped
          quiet      \* history: find_pid_and_dir saw no socket of the tuple change, or
                     \* is_watched no process end, since it was called

system == <<proc, forks, ct, flows, socks, inodes>>
local == <<pc, ev, ent, ino, cur, seen>>
tracer == <<local, opt, conndb, names>>
vars == <<system, queue, overrun, tracer, lost, quiet>>

Flow == 0 .. MaxFlows
Inode == 1 .. MaxSockets
Direction == {"unknown", "outbound", "inbound"}

\* pids hold a descriptor of the socket.  The side is outbound for the socket
\* whose local address is the source.  mapped: an IPv6 socket that carries an IPv4
\* connection; its line has the addresses as ::ffff:a.b.c.d.
Sock == [inode : Inode, tuple : Tuple, side : {"outbound", "inbound"},
         mapped : BOOLEAN, pids : SUBSET Pid]

Event == [kind : {"new", "update", "destroy"}, tuple : Tuple, flow : Flow]

\* start is start_at, as the flow whose new event set it, or -1.  What a handler
\* knows of a connection has the same fields.
conn_entry == [pid : Pid \cup {0}, dir : Direction, start : Flow \cup {-1}]

NoEntry == [pid |-> 0, dir |-> "unknown", start |-> -1]

ASSUME NoneIsNoData == None \notin Flow \cup Event \cup conn_entry

\* Conntrack may know flows from before the tracer.
Init ==
  /\ ProcInit
  /\ ct \in [Tuple -> {None, 0}]
  /\ flows = 0
  /\ socks = {}
  /\ inodes = 0
  /\ queue = <<>>
  /\ overrun = FALSE
  /\ opt \in Options
  /\ pc = "recv"
  /\ ev = None
  /\ ent = None
  /\ ino = 0
  /\ cur = InitPid
  /\ seen = {}
  /\ conndb = [t \in Tuple |-> None]
  /\ names = [a \in IP |-> "idle"]
  /\ lost = FALSE
  /\ quiet = TRUE

-----------------------------------------------------------------------------
(* The kernel.                                                             *)

\* Who has which descriptor becomes S; ends says that a process ended.
Sockets(S, ends) ==
  /\ socks' = {s \in S : s.pids # {}}
  /\ quiet' = /\ quiet
              /\ pc = "watch" => ~ends
              /\ pc \in {"inode", "pid"} => {s \in socks : s.tuple = ev.tuple}
                                               = {s \in socks' : s.tuple = ev.tuple}

\* A child has its parent's descriptors.
KernelFork ==
  /\ \E p, c \in Pid :
       /\ Fork(p, c)
       /\ Sockets({[s EXCEPT !.pids = IF p \in @ THEN @ \cup {c} ELSE @] : s \in socks}, FALSE)
  /\ UNCHANGED <<ct, flows, inodes, queue, overrun, tracer, lost>>

KernelExit ==
  /\ \E p \in Pid :
       /\ Exit(p)
       /\ Sockets({[s EXCEPT !.pids = @ \ {p}] : s \in socks}, TRUE)
  /\ UNCHANGED <<ct, flows, inodes, queue, overrun, tracer, lost>>

KernelReap ==
  /\ \E p \in Pid : Reap(p)
  /\ Sockets(socks, TRUE)
  /\ UNCHANGED <<ct, flows, inodes, queue, overrun, tracer, lost>>

\* A local process connects, or accepts a connection conntrack has seen: until
\* then the socket is not listed, or is listed with inode 0.
OpenSocket ==
  /\ inodes < MaxSockets
  /\ \E p \in Pid, t \in Tuple, side \in {"outbound", "inbound"}, m \in BOOLEAN :
       /\ Running(p)
       /\ IF side = "outbound" THEN t.src \in LocalIPs ELSE t.dst \in LocalIPs /\ ct[t] # None
       /\ ~ \E s \in socks : s.tuple = t /\ s.side = side
       /\ Sockets(socks \cup {[inode |-> inodes + 1, tuple |-> t, side |-> side, mapped |-> m,
                                   pids |-> {p}]}, FALSE)
  /\ inodes' = inodes + 1
  /\ UNCHANGED <<proc, forks, ct, flows, queue, overrun, tracer, lost>>

CloseSocket ==
  /\ \E s \in socks : \E p \in s.pids :
       Sockets({[r EXCEPT !.pids = IF r = s THEN @ \ {p} ELSE @] : r \in socks}, FALSE)
  /\ UNCHANGED <<proc, forks, ct, flows, inodes, queue, overrun, tracer, lost>>

\* Conntrack queues an event, or drops it when the buffer is full.
Send(kind, t, f) ==
  IF Len(queue) < QueueCap /\ ~overrun
    THEN /\ queue' = Append(queue, [kind |-> kind, tuple |-> t, flow |-> f])
         /\ UNCHANGED <<overrun, lost>>
    ELSE /\ overrun' = TRUE
         /\ lost' = TRUE
         /\ UNCHANGED queue

\* A flow begins with its first packet.  It ends when conntrack forgets it, which
\* may be long after the sockets are closed, or before.
FlowNew ==
  /\ flows < MaxFlows
  /\ \E t \in Tuple : /\ ct[t] = None
                      /\ ct' = [ct EXCEPT ![t] = flows + 1]
                      /\ Send("new", t, flows + 1)
  /\ flows' = flows + 1
  /\ UNCHANGED <<proc, forks, socks, inodes, tracer, quiet>>

FlowUpdate ==
  /\ opt.update
  /\ \E t \in Tuple : ct[t] # None /\ Send("update", t, ct[t])
  /\ UNCHANGED <<system, tracer, quiet>>

FlowDestroy ==
  /\ \E t \in Tuple : /\ ct[t] # None
                      /\ ct' = [ct EXCEPT ![t] = None]
                      /\ Send("destroy", t, ct[t])
  /\ UNCHANGED <<proc, forks, flows, socks, inodes, tracer, quiet>>

Kernel == \/ KernelFork \/ KernelExit \/ KernelReap \/ OpenSocket \/ CloseSocket
          \/ FlowNew \/ FlowUpdate \/ FlowDestroy

-----------------------------------------------------------------------------
(* The event loop.                                                         *)

\* recvfrom fails after an overrun: the loop says so and goes on.
RecvError ==
  /\ pc = "recv"
  /\ overrun
  /\ overrun' = FALSE
  /\ UNCHANGED <<system, queue, tracer, lost, quiet>>

\* recvfrom and process_nl_msgs, up to the handler h.
Recv(h) ==
  /\ pc = "recv"
  /\ ~overrun
  /\ queue # <<>>
  /\ h = Head(queue)
  /\ queue' = Tail(queue)
  /\ UNCHANGED <<system, overrun, opt, names, lost, quiet>>

\* A handler begins, with what it knows of the connection, at the step next.
Begin(e, what, next) ==
  /\ ev' = e
  /\ ent' = what
  /\ cur' = what.pid
  /\ seen' = {}
  /\ pc' = next
  /\ UNCHANGED ino

\* A handler returns.
Return ==
  /\ pc' = "recv"
  /\ ev' = None
  /\ ent' = None
  /\ cur' = InitPid
  /\ seen' = {}
  /\ UNCHANGED ino

\* handle_new begins with find_pid_and_dir.
handle_new(e) ==
  /\ e.kind = "new"
  /\ Begin(e, [NoEntry EXCEPT !.start = e.flow], "inode")
  /\ UNCHANGED conndb

\* handle_update takes what conndb knows, if anything, and filters on that.
handle_update(e) ==
  /\ e.kind = "update"
  /\ Begin(e, IF conndb[e.tuple] # None THEN conndb[e.tuple] ELSE NoEntry, "watch")
  /\ UNCHANGED conndb

\* Mutants: the entry is deleted only where its closing is shown; it is not
\* deleted where its closing is shown.
handle_destroyShown(e) ==
  /\ e.kind = "destroy"
  /\ IF conndb[e.tuple] # None /\ opt.close
       THEN Begin(e, conndb[e.tuple], "watch") /\ conndb' = [conndb EXCEPT ![e.tuple] = None]
       ELSE UNCHANGED <<local, conndb>>
handle_destroyKeep(e) ==
  /\ e.kind = "destroy"
  /\ IF conndb[e.tuple] # None /\ opt.close
       THEN Begin(e, conndb[e.tuple], "watch") /\ UNCHANGED conndb
       ELSE conndb' = [conndb EXCEPT ![e.tuple] = None] /\ UNCHANGED local

\* handle_destroy deletes the entry before it filters; without -t that is all.
handle_destroy(e) ==
  /\ e.kind = "destroy"
  /\ conndb' = [conndb EXCEPT ![e.tuple] = None]
  /\ IF conndb[e.tuple] # None /\ opt.close
       THEN Begin(e, conndb[e.tuple], "watch")
       ELSE UNCHANGED local

Dispatch == \E e \in Event : Recv(e) /\ (handle_new(e) \/ handle_update(e) \/ handle_destroy(e))

-----------------------------------------------------------------------------
(* Which process, and is it watched?                                       *)

\* find_pid_and_dir without a socket: the direction is guessed from addresses.
Guess(t) == IF t.dst \in LocalIPs THEN "inbound"
            ELSE IF t.src \in LocalIPs THEN "outbound" ELSE "unknown"

\* Mutant: only the side that owns the source port is compared.
MatchesSource(t) == {s \in socks : s.tuple = t /\ ~s.mapped /\ s.side = "outbound"}

\* The lines of /proc/net/{tcp,tcp6,udp,udp6} that match; the first is taken, and
\* the order of a hash table is no order.  ips_eq compares lengths and bytes: a mapped
\* address is not the one conntrack gives (in net.go, ipsEq shortens it first).
Matches(t) == {s \in socks : s.tuple = t /\ ~s.mapped}

\* find_pid_and_dir returns what it found, and the handler filters.
Found(what) ==
  /\ ent' = what
  /\ ino' = 0
  /\ cur' = what.pid
  /\ pc' = "watch"
  /\ quiet' = TRUE

find_inode_with_dir ==
  /\ pc = "inode"
  /\ \/ Matches(ev.tuple) = {} /\ Found([ent EXCEPT !.dir = Guess(ev.tuple)])
     \/ \E s \in Matches(ev.tuple) :
          /\ ent' = [ent EXCEPT !.dir = s.side]
          /\ ino' = s.inode
          /\ cur' = InitPid
          /\ pc' = "pid"
          /\ UNCHANGED quiet
  /\ UNCHANGED <<system, queue, overrun, opt, ev, seen, conndb, names, lost>>

\* inode_to_pid looks at the descriptors of one process after the other.
inode_to_pid ==
  /\ pc = "pid"
  /\ IF \E s \in socks : s.inode = ino /\ cur \in s.pids
       THEN Found([ent EXCEPT !.pid = cur])
       ELSE \/ (\A p \in Pid : p <= cur) /\ Found(ent)
            \/ \E p \in Pid : /\ p > cur
                              /\ \A q \in Pid : q > cur => p <= q
                              /\ cur' = p
                              /\ UNCHANGED <<ent, ino, pc, quiet>>
  /\ UNCHANGED <<system, queue, overrun, opt, ev, seen, conndb, names, lost>>

\* Mutant: the roots are only looked for among ancestors.
WatchedAbove(p) == p # ent.pid /\ p \in WatchPIDs

Watched(p) == p \in WatchPIDs

\* is_descendant goes on to the parent: not from no pid (0) or pid 1, nor from a
\* pid seen before or gone, nor when seen is full (net.go's map never is).
Climbs(p) ==
  /\ p > InitPid
  /\ p \notin seen
  /\ Cardinality(seen) < MaxAncestors
  /\ statPPID(p) > 0

\* is_watched and one turn of is_descendant's loop: the pid is a root, or its parent
\* is asked for.
is_watched ==
  /\ pc = "watch"
  /\ \/ /\ WatchPIDs = {} \/ Watched(cur)
        /\ pc' = "emit"
        /\ cur' = InitPid
        /\ seen' = {}
        /\ quiet' = TRUE
        /\ UNCHANGED <<ev, ent, ino>>
     \/ /\ WatchPIDs # {} /\ ~Watched(cur)
        /\ ~Climbs(cur)
        /\ Return
        /\ quiet' = TRUE
     \/ /\ WatchPIDs # {} /\ ~Watched(cur)
        /\ Climbs(cur)
        /\ cur' = statPPID(cur)
        /\ seen' = seen \cup {cur}
        /\ UNCHANGED <<pc, ev, ent, ino, quiet>>
  /\ UNCHANGED <<system, queue, overrun, opt, conndb, names, lost>>

-----------------------------------------------------------------------------
(* What is shown.                                                          *)

\* The address of the other end, as far as the direction is known.
Remote == IF ent.dir = "inbound" THEN ev.tuple.src ELSE ev.tuple.dst

\* async_reverse_lookup: the first call for an address starts a lookup.
async_reverse_lookup(a) ==
  names' = IF opt.reverse /\ names[a] = "idle" THEN [names EXCEPT ![a] = "asked"] ELSE names

\* dns_worker ends, with a name or without.  Its thread may not start: an address may
\* stay asked for.
Lookup ==
  /\ \E a \in IP : /\ names[a] = "asked"
                   /\ \E r \in {"named", "unnamed"} : names' = [names EXCEPT ![a] = r]
  /\ UNCHANGED <<system, queue, overrun, local, opt, conndb, lost, quiet>>

\* -O drops new and update events that are known to be inbound.
Hidden == opt.outbound /\ ev.kind # "destroy" /\ ent.dir = "inbound"

\* The line that print_event prints next, if any; host says whether it ends in a
\* host name.
line == IF pc = "emit" /\ ~Hidden
          THEN [kind |-> ev.kind, tuple |-> ev.tuple, flow |-> ev.flow, pid |-> ent.pid,
                dir |-> ent.dir, start |-> ent.start,
                host |-> opt.reverse /\ names[Remote] = "named"]
          ELSE None

\* handle_new makes an entry, or replaces one.
Store == conndb' = IF line # None /\ ev.kind = "new"
                     THEN [conndb EXCEPT ![ev.tuple] = ent] ELSE conndb

\* The rest of each handler.
Emit ==
  /\ pc = "emit"
  /\ Store
  /\ IF line # None THEN async_reverse_lookup(Remote) ELSE UNCHANGED names
  /\ Return
  /\ UNCHANGED <<system, queue, overrun, opt, lost, quiet>>

Tracer == RecvError \/ Dispatch \/ find_inode_with_dir \/ inode_to_pid \/ is_watched \/ Emit

Next == Kernel \/ Tracer \/ Lookup

\* The loop is one thread and waits for nothing but its socket.
Spec == Init /\ [][Next]_vars /\ WF_vars(Tracer)

-----------------------------------------------------------------------------
(* Properties.                                                             *)

\* The state has the shape the code's declarations give it, and a handler is
\* about an event with an entry of its own.
TypeOK ==
  /\ ProcTypeOK
  /\ ct \in [Tuple -> Flow \cup {None}]
  /\ flows \in Flow
  /\ socks \subseteq Sock
  /\ inodes \in 0 .. MaxSockets
  /\ queue \in Seq(Event)
  /\ overrun \in BOOLEAN
  /\ opt \in Option
  /\ pc \in {"recv", "inode", "pid", "watch", "emit"}
  /\ ev \in Event \cup {None}
  /\ ent \in conn_entry \cup {None}
  /\ (pc = "recv") <=> (ev = None)
  /\ (ev = None) <=> (ent = None)
  /\ ino \in Inode \cup {0}
  /\ cur \in Pid \cup {0}
  /\ seen \subseteq Pid
  /\ conndb \in [Tuple -> conn_entry \cup {None}]
  /\ names \in [IP -> {"idle", "asked", "named", "unnamed"}]
  /\ lost \in BOOLEAN
  /\ quiet \in BOOLEAN

Pos == 1 .. Len(queue)
DestroyOf(t, f) == [kind |-> "destroy", tuple |-> t, flow |-> f]

\* Conntrack knows flow f of tuple t, or its destroy event is queued.
Accounted(t, f) == ct[t] = f \/ \E i \in Pos : queue[i] = DestroyOf(t, f)

\* As long as no event was lost, an entry of conndb is about the flow that
\* conntrack has for the tuple, or the destroy event that deletes it is queued
\* (handle_new and handle_destroy, however late they run).
ConnCurrent ==
  ~lost => \A t \in Tuple : conndb[t] # None => Accounted(t, conndb[t].start)

\* A closed line measures from the new event of the same flow, and an update line
\* takes process and direction from it or shows none, as long as no event was
\* lost (ent->start_at and ent->pid in handle_destroy and handle_update).
LinePairs ==
  ~lost /\ line # None =>
    \/ line.start = line.flow
    \/ line.kind = "update" /\ line.start = -1

\* When no process ends meanwhile, is_watched says yes only to a watched root, running or
\* not, or a process below one, and no to one of these only where is_descendant would go on
\* but remembers as many processes as it has room for, whatever is forked.
WatchExact ==
  [][pc = "watch" /\ pc' # "watch" /\ quiet /\ WatchPIDs # {}
       => LET ours == ent.pid \in WatchPIDs \/ (ent.pid # 0 /\ Descends(ent.pid))
          IN /\ pc' = "emit" => ours
             /\ ours => pc' = "emit" \/ (cur > InitPid /\ ~(Cardinality(seen) < MaxAncestors))]_vars

\* When the sockets of the tuple stay what they are and one is listed with the addresses
\* of the tuple, find_pid_and_dir finds a process that has one, and its side, whatever
\* else happens.  Of a connection that only mapped sockets carry it finds none.
Attributed ==
  [][/\ pc \in {"inode", "pid"} /\ pc' = "watch" /\ quiet
     /\ \E s \in socks : s.tuple = ev.tuple /\ ~s.mapped
     => \E s \in socks : s.tuple = ev.tuple /\ s.side = ent'.dir /\ ent'.pid \in s.pids]_vars

\* The entry of a flow that conntrack forgot is deleted or replaced in the end,
\* unless an event was lost: conndb does not grow for ever.
ClosedForgotten ==
  \A t \in Tuple : \A f \in Flow :
    (conndb[t] # None /\ conndb[t].start = f /\ ct[t] # f)
      ~> (lost \/ conndb[t] = None \/ conndb[t].start # f)

\* "outbound connections only (hide inbound/unknown)" says usage of -O: no line is
\* about a connection to this host that the tracer saw begin, no event being lost.
OutboundOnly ==
  opt.outbound /\ line # None /\ line.flow # 0 /\ ~lost => line.tuple.src \in LocalIPs

-----------------------------------------------------------------------------
(* The inductive invariant.                                                *)

\* f is not newer than anything that is known or queued about tuple t.
Oldest(t, f) ==
  /\ f \in Flow
  /\ f <= flows
  /\ ct[t] # None => f <= ct[t]
  /\ \A i \in Pos : queue[i].tuple = t => f <= queue[i].flow

\* Events about a tuple are queued in the order of its flows, and none is newer
\* than the flow conntrack has.
InOrder ==
  /\ \A t \in Tuple : ct[t] # None => ct[t] <= flows
  /\ \A i \in Pos :
       /\ queue[i].flow <= flows
       /\ ct[queue[i].tuple] # None => queue[i].flow <= ct[queue[i].tuple]
       /\ \A j \in Pos : i < j /\ queue[i].tuple = queue[j].tuple
                           => queue[i].flow <= queue[j].flow

\* A new event is followed by its destroy event, unless the flow goes on.
NewAccounted ==
  ~lost => \A i \in Pos : queue[i].kind = "new" =>
             \/ ct[queue[i].tuple] = queue[i].flow
             \/ \E j \in Pos : i < j /\ queue[j] = DestroyOf(queue[i].tuple, queue[i].flow)

EntriesOldest == \A t \in Tuple : conndb[t] # None => Oldest(t, conndb[t].start)

\* What the handler of an event relies on.
Handling ==
  ev # None =>
    /\ Oldest(ev.tuple, ev.flow)
    /\ ev.kind = "new" => /\ ent.start = ev.flow
                          /\ ~lost => Accounted(ev.tuple, ev.flow)
    /\ ~lost => ent.start = ev.flow \/ (ev.kind = "update" /\ ent.start = -1)

FlowInv == InOrder /\ NewAccounted /\ EntriesOldest /\ ConnCurrent /\ Handling

\* An inode number names one socket, and inode_to_pid has not passed every process
\* that has it.
SocketInv ==
  /\ \A s \in socks : s.inode <= inodes /\ s.pids # {}
  /\ \A s, r \in socks : s.inode = r.inode => s = r
  /\ pc = "pid" /\ quiet => \E s \in socks : /\ s.inode = ino
                                            /\ s.tuple = ev.tuple
                                            /\ s.side = ent.dir
                                            /\ \E p \in s.pids : cur <= p

IInv == TypeOK /\ FlowInv /\ SocketInv

\* Why WatchExact holds: while nothing ends, is_descendant asks for older and older
\* processes, so that none is seen twice, and each is below a root if and only if the
\* process of the connection is.
WatchClimb ==
  /\ pc \in {"inode", "pid"} => seen = {}
  /\ pc = "watch" /\ quiet =>
       \/ cur = ent.pid /\ seen = {}
       \/ /\ ent.pid \in Pid \ WatchPIDs /\ Exists(ent.pid)
          /\ cur \in Pid /\ Exists(cur)
          /\ Descends(ent.pid) <=> Descends(cur)
          /\ \A q \in seen : /\ q # InitPid /\ Exists(q)
                             /\ cur = InitPid \/ proc[cur].gen < proc[q].gen

=============================================================================
