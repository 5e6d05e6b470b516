# tracep: specifications

TLA+ models of `tracep`, a system-tracing tool with five subcommands (`net`,
`dns`, `exec`, `tls`, `ca`) in two implementations meant to behave alike: Go
(`main.go`, `internal/`) and C (`c/`).  The modules are written from the C code
and use its names.  Where the Go code does something else that a property would
tell apart, *Where the two ports differ* says so.
TLC checks them on small instances, and TLAPS proves the central invariants for
every value of the constants.

## The system

Every tracer is a loop over what the kernel tells it: events of a netlink
socket, captured packets, lines of a trace pipe, or the difference between two
polls.  While it handles one event it asks for more (`/proc`, `lsof`), and the
system goes on: processes exit, process ids and ports are used again, sockets
overrun.  That is where the tracers can go wrong and where tests hardly reach.

| component | state | operations | what is hard | correct if |
|---|---|---|---|---|
| exec, Linux (`exec_linux.go`, `c/exec.c`) | `pidDB`: pid to depth, start, command | `handleExec`, `handleExit`, `pidDepth` | the tree changes between reads of `/proc`; reused pids; overrun | entries and lines are about the right process, depths are right, descendants are traced |
| pid table (`c/exec.c`, `piddb_*`) | open-addressing array | find, get, delete | deletion moves a cluster; a full table | it behaves like Go's map |
| exec, macOS (`exec_darwin.go`, `c/exec.c`) | table of the last poll | `seedDB`, `scan` | pids reused between and during polls; a listing that fails | only new processes are shown, once, and exits are true (of the C port only part of it, see below) |
| net, Linux (`net.go`, `c/net.c`) | connections by tuple, reverse-lookup cache | new, update, destroy events; lookup threads | lost events, lookups that end late | opened and closed lines pair up |
| net, macOS (`net_darwin.go`, `c/net.c`) | sockets seen | scan with `lsof` | sockets that change while `lsof` reads; a full table | each new connection that stays is shown, with its process |
| dns (`dnstrace/`, `c/dns.c`) | queries in flight, port caches | query, response, lookup | lost, repeated, late packets; ports that change hands | a query is shown once, with its answer and its process |
| tls (`tlstrace/`, `c/tls.c`) | uprobes in the kernel, server name per pid, connections printed | register, clean up, event | failure half way, signals, a killed run before this one | an orderly end leaves no probe, a new run replaces what is left, names are not mixed up |
| dns messages (`c/dns.c`; not the parser of `dns.go`) | offsets into the packet | `parse_packet`, `parse_dns`, `read_name` | lengths and pointers taken from the packet, cut captures | nothing is read behind the end, what is read is in the message |
| CMD mode (all tracers) | the command, SIGCHLD flags | start, reap, end | the command is quicker than its parent; other children | ends with the command, not before |
| ca (`cafetch/`, `c/ca.c`) | none that lasts | fetch a chain | network errors | one file or an error |
| dispatch (`main.go`, `c/tracep.c`) | none | choose a subcommand | | |

The components share no memory: the user runs one of them at a time.  They
interact with the kernel, with `lsof` and with the command they run.  The one
place where a component is used by another inside the program is the pid table,
which `handleExec`, `handleExit` and `pidDepth` of the C port use where the Go
tracer uses a map.

## Modules

| module | models | from |
|---|---|---|
| `PidMap` | the map the exec tracer needs: what a find, a put and a delete return and leave | `c/exec.c` |
| `PidDB` | the C hash table, one action per iteration of its loops | `c/exec.c` |
| `PidDBProofs` | its invariant, and that it implements `PidMap` | |
| `ProcTree` | the kernel's processes: fork, exit, reap, parents, reuse of pids (external) | as `statPPID` sees them |
| `ExecTrace` | Linux: proc connector, event loop, `handleExec`, `pidDepth`, `handleExit`; extends `ProcTree` | `c/exec.c` |
| `ExecPoll` | macOS, both ports: `seedMacDB`, `scanMacDB`, `macPidDepth`; extends `ProcTree` | `c/exec.c`, `exec_darwin.go` |
| `NetTrace` | Linux: conntrack, the netlink queue, the handlers, the search of `/proc` for a process, `is_watched`, reverse lookups; extends `ProcTree` | `c/net.c` |
| `NetPoll` | macOS: `net_scan`, what `lsof` writes, `net_seen` | `c/net.c` |
| `DnsTrace` | queries, responses, `pcache`, the lsof snapshot, the `-p` filter | `c/dns.c` |
| `DnsParse` | `parse_packet`, `parse_dns`, `read_name`, one octet that means something at a time | `c/dns.c` |
| `TlsTrace` | `register_uprobes`, `cleanup_uprobes`, `on_sig`, the loop; several runs in turn | `c/tls.c` |
| `CmdMode` | starting and outliving the command, for each way a tracer does it | `c/exec.c`, `c/net.c`, `c/dns.c` |
| `ProcTreeProofs` | lemmas about lineages, depths and the shape of the process table, for the three modules that extend `ProcTree` | |
| `*Proofs` | the invariants and theorems of `PidDB`, `ExecTrace`, `ExecPoll`, `NetTrace`, `NetPoll`, `DnsTrace`, `TlsTrace`; those of `CmdMode` are at the end of `NetPollProofs` and those of `DnsParse` at the end of `DnsTraceProofs`, whose names they do not meet | |
| `MC*` | instances for TLC | |

`PROJECT.json` maps each definition to the lines it stands for.

### How state and actions correspond to the code

**ProcTree.** `Lineage(table, p)` is `p` with its ancestors up to the nearest watched
root: the least set that has `p` and goes on from each process in it, other than a root, to
its parent.  What the tracers compute by recursion is measured against it: `Descends`
(a root is in the lineage), `TreeDepth` (how many of it are no root) and `Rooted` (none of
those was re-parented).

**PidDB.** `pidDB[s]` is slot `s`, `Null` where `used` is false; an entry is its
pid and one value for depth, start and command.  `pc` is the loop the thread is
in, `probe`, `j` and `tmp` the C locals.  `Store` is `piddb_get` together with
the assignments its callers make through the pointer, which is why a full table
(`GetFull`) is a crash: the callers do not test the pointer.  The multiplier of
`piddb_hash` appears modulo the capacity; as the capacity divides 2^32 the wrap
of the product does not matter.

**ExecTrace.** `queue` and `overrun` are the socket.  A step of the tracer is
one read of `/proc` or what happens between two of them: `Recv`
(`dispatchNlMsg`), `Depth` (one level of `pidDepth`, so the tree may change
before the next), `Store` (the rest of `handleExec`), `printExec`, `handleExit`.
`gen` numbers processes, so that a property can say which process an entry or a
line is about; the code sees only pids and timestamps.  `calm` and `orphan` are
history.  `RecvError` is `fatalf("recvfrom: ...")`.  What ends a process other
than its own exit (threads, signals) makes no difference to what is modelled.

**ExecPoll.** A scan takes a list (`Scan`), then one pid of it at a time
(`KnownPid`, `NewPid`), for a new one its parents one read at a time (`Depth`),
the line (`macEmitExec`) and at the end the processes that have gone (`Sweep`, at
most `MaxGoners` of them, 1024 in the code).  Processes come and go in between.
`Seed` and `SeedOne` are `seedMacDB`.  `ScanFails` and `SeedFails` are a listing
that fails: a scan then does nothing; the seed goes on with an empty table in C, and ends
the tracer in Go (`Over`).  `list` and `todo` are the array and where the loop is in it; its
order is the kernel's.  `lines` is what the last scan printed; `seeded` and `shown` are
history, as are the generations of `ProcTree`.  `ListsZombies` chooses whether processes
that have ended and wait to be reaped are listed.  `inC` chooses the port.  The C port's
`procListAllPIDs` divides what `proc_listallpids` returns by four, although libproc has
done so already: it uses a quarter of the list, whichever the kernel puts first, to
seed and to scan (`procListAllPIDs` is the set of what it may get).  The Go port makes the system call
itself, which does return octets.  Only the C port gives a process that ended while the table was
seeded an entry and limits the sweep.

**CmdMode.** `prog` chooses one of the six ways (Go tracers and the C `net`
tracer on Linux wait in a goroutine or thread, `waiter`).  A SIGCHLD is pending
until `on_child` runs; without a handler it is discarded.  `lsof` is the child
of a scan, which the handler may reap before the scan waits for it.  `NoLsof` is every
early return of a scan: no arguments, no pipe, no process, no stream.

**DnsTrace.** A query is an id, a port and a number to tell queries apart; names
and answers are not needed.  `pcache` is the cache by port, `mac_udp` the snapshot of
macOS, `pending` the queries in flight by transaction id; `darwin` chooses the
platform.  A lookup takes no time: in the code an `lsof` run delays `born` by its own
duration.  `asOf` and `since` are history.  The capture may miss a packet or see it
twice.  The Go cache also has a sweep above a limit, which the C array does not need.

**DnsParse.** The resolver writes a message label by label: a question, and answers
whose names may end in a pointer to any name written before.  `msg` maps the offset
of an octet that means something to what it means to a reader who comes there (a
label and so its length, a pointer and where to, the type and the length of data); at other
offsets it has nothing, and where a parser takes one of those for something it has lost its way: TLC
stops there.  `ParsePacket` takes the frame cut at any octet, so `len` is anything up to
the whole message.  Then each step is one turn of a loop of `parse_dns` or `read_name`,
with the C locals (`off`, `ai` for `i`, `nm`, `rr`, `txt` for `p`).  History are `names`, `recs`
and `data` (what was written where, and how many answers before it) and `top` (how far the message
has been read).  A resolver keeps names below 256 octets and data below 65536, so
the parser's buffers and the 16 bits of a length are never exceeded, and neither has a limit here.

**NetTrace.** `ct` is conntrack: the flow it has for each tuple, numbered so that
a property can tell the flows of one tuple apart; `queue`, `overrun` and `lost`
are the socket, and unlike the exec tracer this one goes on after an overrun
(`RecvError`).  `socks` is what `/proc/net/{tcp,udp}` and the descriptors under
`/proc/PID/fd` show: a socket on either end of a tuple, and the processes that
have it, which changes with forks, exits and closes.  A step of the tracer is
one read: the table of sockets (`find_inode_with_dir`, any of the matching lines,
as their order is a hash table's), the descriptors of one process
(`inode_to_pid`), one parent (`is_watched`).  `ev`, `ent`, `ino`, `cur` and `seen`
are the locals of the handler.  `Emit` is the rest of a handler: the entry, the
lookup and the line.  `line` is what is printed in that step, as a function of
the state.  `quiet` is history: nothing disturbed the search or the climb so
far.  `inode_to_pid` goes through the processes as `readdir` does; Go sorts a list
made at the start, so it cannot come upon a process forked later, which the model
may.  A `mapped` socket is an IPv6 one that carries an IPv4 connection: its line has
`::ffff:a.b.c.d`, which `ips_eq` does not take for `a.b.c.d`.  `MaxAncestors` is the 256 pids that
`is_descendant` remembers.  `names` is the reverse-lookup cache; an address may stay `asked`, as the
thread may fail to start.  Left out: netlink attributes, `-4`, `-6` and the protocol
filter (they drop every event of a tuple alike), the TCP state, which is stored and
never read, the second search for UDP sockets without a peer, and two fixed
sizes: 256 watched pids and 65,536 sockets.

**NetPoll.** `open` is what each process has open: connections, unbound sockets and
other files.  `lsof` looks at one process at a time (`LsofLists`); what it
wrote of that process (`out`) is then read file by file (`ReadFile`): the `f` line
clears `cur_proto`, a `P` line, if any, sets it (`ProtoRead`), and the `n` line is
skipped or looked up.  `Already` is `net_seen_check_insert` without its hash: a full table
says yes.  The bound `Cap` is `NETSEEN_CAP`.  `ScanFails` is any early return of
`net_scan`; if it was the first scan, nothing is seeded.

**TlsTrace.** `probes` and `buf` are the kernel's and outlive a run; everything else
is the tracer's memory and new in each run (`Down`).  Each write to the kernel is a
step: what an earlier run left is disabled and removed, the new probe
added, enabled and recorded, for each target in turn; the kernel refuses to remove an
enabled probe and to add one whose name is taken.  Any of the writes may fail; what
becomes of disabling and removing the code does not ask (`Fails`).  A signal before `on_sig` is
installed, or `Kill`, ends the run where it is.  `SkipTarget` is a symbol that the library does
not have.  Targets are probe names, each once, which is what the `seen` array of
the code ensures.  `absent`, `refused`, `how` and `told` are history.

### Mutants

Operators marked *Mutant* stand before the definition they are a faulty version
of.  No specification uses them.  Each is put in the place of the original to
show that a property notices the mistake.

## What the runs check

| run | instance | result |
|---|---|---|
| `piddb` | 4 slots, 5 pids with home slots 1, 1, 1, 3, 3, two values | passes: 100,205 states |
| `exec` | pids 1 to 4, root 2, 2 forks, queue of 1 | passes: 235,055 states |
| `exec_poll` | pids 1 to 4, root 2, 2 forks, 1 goner per scan, both ports | passes: 657,913 states |
| `net` | pids 1 to 3, root 2, 1 fork, one loopback tuple, 2 flows, 1 socket, mapped or not, queue of 2, options `-r -O` and `-t -U` | passes: 301,824 states |
| `net_outbound` | one tuple from a peer, no root, 1 flow, options `-U -O` | violated, see below |
| `net_poll` | 2 processes with up to 2 files, 2 connections, a table of 2 | passes: 211,838 states |
| `dns` | two queries with one id, one process, TTL 1, 2 ticks, each sent once and captured up to twice, both platforms | passes: 242,711 states |
| `dns_parse` | names of up to one label of their own and a pointer or the root behind, up to 2 texts, 2 answers of 5 kinds, frames cut anywhere, 2 answers kept | passes: 788,231 states |
| `tls` | 2 targets, 4 pids, 3 of them watched, 2 names, 2 SNI slots, 2 runs | passes: 4,817,765 states |
| `cmd` | all six programs | passes: 152 states |
| `cmd_exec`, `cmd_dns_mac` | one program each | violated, see below |

The type invariants (`TypeOK`), `LenIsCount` of the pid table and the inductive
invariants are theorems (below) for every value of the constants; the runs do not repeat them.
`dns_parse` does check `ParseTypeOK`, which bounds the parser's offsets and answers.

* `piddb`: outside a deletion no free slot lies on an entry's probe path
  (`Reachable`), no pid is there twice (`UniquePid`), the reinsertion in
  `piddb_delete` finds room (`PutBackNeverFull`), every loop ends (`CallsReturn`), and the table
  implements `PidMap` (`ImplementsMap`).  Five pids and four slots fill the
  table, wrap clusters around its end and join two of them.
* `exec`: an entry of `pidDB` is about the process that has the pid, or that
  process's exit event is still to be handled, unless the socket lost an event
  (`NoStaleEntry`); lines pair an exit or exec with an entry of the same process
  (`LinePairs`); the depth stored is the depth in the tree unless an ancestor was
  re-parented (`DepthExact`); the exec of a descendant of a root is dropped only if
  something exited while `pidDepth` read `/proc` (`DescendantsTraced`); the entry of a process
  that has ended goes away (`EndedForgotten`).  Four pids make a chain below the root; a pid is
  used again after its process was reaped; a queue of one overruns and delays an event past a reuse.
* `exec_poll`: of both ports, an exited line is about a process whose exec line was
  printed (`ExitedWasShown`), and a new process below a root that a scan comes to is left out only if
  something exited meanwhile (`DescendantsShown`).  Of the Go port, exited lines are about processes that have
  ended (`ExitTruthful`), what ran when the table was seeded is never shown (`OnlyNew`),
  nothing is shown twice (`ShownOnce`), and again and again the table agrees with
  the kernel (`CatchesUp`).  These four are not true of the C port: their mutant
  divides the list in the Go port as the C port does.  Four listed pids are the
  fewest of which a quarter is one.
* `net_poll`: see `Attributed`, `OldHidden`, `Noticed`.  Two processes can
  have four connections, so a table of two is full in many states.
* `tls`: see `CleanExit`, `NoStaleProbe`, `SniLatest`.  Two runs are a killed one and
  one that meets what it left; two targets are one in hand and one done or to do; three watched pids
  and two slots make one pid lose its slot.  `CleanExit` and `NoStaleProbe` except the probes
  about which a disable or remove write failed, as the code does not try again.
* `dns_parse`: nothing behind the cut is read (`InBounds`), a message captured whole is
  read back, its first `MAX_ANS` answers (`Recovers`), a cut one gives a prefix of them
  (`SaysPrefix`).  Two answers let the second
  point into the first, and a pointer end in a pointer.  `NamePointer` itself follows any
  pointer of the message, as `read_name` does; that each goes back to a name already there is what
  resolvers write.  `read_name` has no limit of hops, so that a parse ends is not claimed.
* `cmd`: see `NotBeforeCommand`, `EndsAfterCommand`.  The command
  may end at any time, before the handler is installed or the pid is stored
  included.  Nothing is bounded.  A command of `net` on macOS that ends before the handler is
  installed is noticed only when some `lsof` ends later, as the handler reaps every child:
  hence the fairness of `NetScan`.
* `dns`: a query is printed at most once per time it was sent (`ReportedOnce`);
  it is never blamed on a process that lost the port one TTL ago or more
  (`BlamedFresh`; on macOS two TTLs, `BlamedSnapshot`), as what the caches hold was true when
  the kernel was asked (`CacheWasTrue`); an answered query leaves `pending`
  (`AnswerTaken`).  Two ticks are
  two TTLs, for a stale snapshot behind a fresh entry; one process that gives its port up is
  what a cache can be wrong about, and the theorems are for any number.
* `net`: unless an event was lost, an entry of `conndb` is about the flow that
  conntrack has for the tuple or the destroy event that deletes it is queued
  (`ConnCurrent`), and lines take start, process and direction from the new
  event of their own flow (`LinePairs`).  `is_watched` is exact while no process
  ends, as far as its list of pids has room (`WatchExact`), and the process found has the socket if the
  sockets of the tuple stay what they are meanwhile and one is listed under the tuple's addresses
  (`Attributed`).  Entries of flows that
  ended go away (`ClosedForgotten`).  Two flows of one tuple are what it takes
  to confuse them; a loopback tuple has a socket on either side; a queue of two
  holds the end of one flow and the beginning of the next, and overruns.  One
  socket keeps the liveness check short.  The same properties were checked with two
  sockets and one flow (589,903 states), and with four pids, two forks and one flow (934,646 states),
  where the list of one pid (`MaxAncestors` = 1) is full below a chain of two; in the run itself it is
  never full with a pid to go on from.  The theorems are for any number of each.

### Disagreements

* `cmd_exec`: the C exec tracer does not end if the command ends between `fork`
  and `g_child = pid`: `on_child` compares with 0 and reaps it.  The macOS loop
  has the same order.  The Go tracer waits in a goroutine and is not affected.
* `cmd_dns_mac`: `on_child` of `c/dns.c` takes any child for the command, and on
  macOS `lsof` is one.
* `net_outbound`: under `-O` an inbound connection is dropped before an entry is
  made, so its updates (`-U`) find none, count as of unknown direction and are
  shown.  The usage text says "hide inbound/unknown"; neither is hidden then.

Seen while modelling and not stated as a run: `pending` is keyed by the transaction
id alone, so of two queries with one id the first is forgotten and the second is
printed with whichever answer comes first; `pidDepth` drops the exec of a running
process when a parent exits between two of its reads, although README.md speaks of
"every exec()"; on macOS the command is forked before the table is seeded and so is
taken for an old process; on macOS both ports of the net tracer keep what they have seen for ever,
so that a connection that is closed and opened again with the same ends is not shown again,
while src/README.md (lines 23-24, 107-108) and the head of `net_darwin.go` speak of a difference against the
previous snapshot; `tls_main` returns at the end of `trace_pipe` without `cleanup_uprobes`.

### Where the two ports differ

src/README.md (lines 67-68, 366-368) calls the C port behaviour-identical to the Go one.  Differences met
while modelling, besides those above:

* `procListAllPIDs` of `c/exec.c` (lines 1125-1137: "every live pid") uses a quarter of the list.  The C
  tracer then shows processes that ran before it, reports running ones as exited when they
  leave the part of the list it sees, shows them again, and never sees most.  `exec_darwin.go` is right.  `ExecPoll`
  models both.
* `parseDNS` of `dns.go` computes `rdataOff := off - rdlen` (line 70) before it has advanced `off`, so that it
  reads the names in CNAME, NS, PTR, MX and SRV data from before the data; and it keeps any number of
  answers.  `c/dns.c` ("mirrors dns.go", line 94) has the right offset and `MAX_ANS`.  `Recovers` and
  `SaysPrefix` are properties of `c/dns.c` alone and do not hold of `dns.go`.
* `ips_eq` of `c/net.c` compares lengths and octets only, although the comment above it (lines 1016-1018)
  has it "normalizing v4-mapped v6 to v4 first", as `ipsEq` of `net.go` (lines 878-887) does.  An IPv4
  connection of an IPv6 socket has no process in the C port.  `NetTrace` models the C port.
* `is_descendant` of `c/net.c` gives up after 256 pids; the map of `net.go` has no limit.
* `net` on macOS, CMD mode: the C port scans once more after the command has ended "to catch its last
  connections" (`c/net.c`, lines 469-471), but asks `lsof` for a pid that its SIGCHLD handler has reaped;
  `net_darwin.go` (line 414) exits after `Wait` without another scan.  Neither makes sure that the last
  connections are shown, and no property says so.

### Fairness

`ExecTrace`, `NetTrace`, `DnsTrace` and `ExecPoll` assume weak fairness of the tracer's own
steps: each is one loop on one thread that waits for nothing but its input.  In `ExecTrace` the climb
of `pidDepth` then ends, as forks are bounded; in the code nothing ends it while every pid it reaches
is reaped and used again before it is read.  In `ExecPoll` this includes that listing the processes does not
fail for ever.  `NetPoll` assumes weak fairness of a scan that has begun, and strong fairness of
its beginning: starting `lsof` may fail at any time but not every time.  `CmdMode` assumes the
same of `NetScan`.  `TlsTrace` and `DnsParse` state safety only.  Reverse lookups need not end.
`PidDB` assumes
it of the steps inside a call.  `CmdMode` assumes that the main thread runs,
pending signals are delivered, timers and sleeps end, `lsof` ends and the
connector reports the command's exit; it does not assume that the command ends,
that other processes produce events, or that queries come.

## What is proved

For every value of the constants that meets the modules' assumptions:

* `PidDBProofs`: `TableInvariant`, from which `TypeCorrect`,
  `EntriesReachable`, `PidsUnique`, `LengthExact`, `ReinsertNeverFull`, and
  `TableImplementsMap`.  `Reachable` is not inductive: in the middle of a
  deletion it is false.  `AheadOfCursor` says what holds instead: an entry with
  a hole on its probe path lies ahead of the cursor with no free slot between,
  so the loop cannot stop before it has moved it.  `Probed` says what a search
  has passed, and gives the refinement its "not found".
* `ProcTreeProofs`: what the next three rest on.  A lineage is defined as a least set, so
  facts about it need no induction: a set that goes upward contains it (`LineageLeast`), and it
  goes upward itself (`LineageUpward`).  `LineageStep` relates it to the parent's,
  `ParentDescends` and `BelowParent` what follows for descent and depth, `LineageOlder` that
  everybody in it is no younger.  `TreeOK` (pid 1 runs; any other process has a parent
  that runs and is pid 1 or older) is kept by fork, exit and reap (`TreePreserved`), a fork
  changes no lineage but the child's (`ForkKeeps`), and a process whose ancestors were not
  re-parented keeps its lineage (`RootedKept`).
* `ExecTraceProofs`: `ExecInvariant`, from which `TypeCorrect`,
  `EntriesCurrent` and `LinesPaired`.  The invariant says that events of a pid
  are queued in the order of its processes (`Ordered`), none is about a later
  process than the one that has the pid (`NotNewer`) or an earlier one than its
  entry (`EntryOldest`), and that an exec event is followed by an exit event
  unless its process still runs (`Accounted`).  All four fail after a lost event,
  and are claimed only before; `LinesPaired` holds all the same because the
  tracer ends at the next `recvfrom`.  `TreeInvariant` is `TreeOK`.
  `NoDescendantDropped` follows with `ClimbDescends`: while nothing ends, the process that
  `pidDepth` has reached is below a root if the process in hand is.  `DepthsExact` needs more, as
  `pidDepth` adds the depth in an ancestor's entry, and that entry could be an earlier
  process's with the same pid.  `OlderFirst` says why it is not: an exit event whose pid is in use
  again was queued before the pid's new process started, so that everything before it in the
  queue, and the event in hand, is about older processes, which have no younger ancestors.
  `ClimbDepth` says that what has been counted and what is above `cur` make up the depth.
* `DnsTraceProofs`: `CacheInvariant`, from which `TypeCorrect`, `CachesWereTrue`,
  `FreshWithinTTL` (Linux) and `FreshWithinTwoTTL`.  `CacheWasTrue` says that what a cache
  holds was true when the kernel was asked, and bounds how long ago that was.
  `PrintedOncePerSend` counts: `SendsCounted` says that a query's lines and the copies of it
  that can still lead to one (in flight, or pending and unreported) are together no
  more than it was sent, where copies captured next to each other count once (`Runs`).
  `ParseInvariant` is about `DnsParse`, and from it follow `ParseTypeCorrect`, `NothingBehindCut`,
  `WholeRecovered` and `CutSaysPrefix`.  The four properties say nothing of a parse under way; `ParseIInv` does.
  `MessageOK` describes the message by what lies next to what, so that no induction over it is
  needed: a name is a label and the name behind it, or what a pointer refers to, or the root (`NameOK`), a
  record ends where the next begins (`RecordOK`), and each of data and texts knows how many answers
  were written before it (`DatumOK`).  `ResolverOK` says the same of what is being written.  `TaskOK` says
  where the parser is: what `read_name` has collected and the name where it is now
  make up the name it was called for (`Reading`), and `parse_dns` has kept exactly the first answers up to
  where it is (`Between`, `InData`).  A check that fails means that the capture ends before the
  message does, so that a message captured whole is read to its end.
* `ExecPollProofs`: `PollInvariant`, from which `TypeCorrect` and `ExitedShown` of both ports,
  and `ExitedHaveEnded`, `ShownAreNew` and `NeverShownTwice` of the Go port.  An entry has a
  depth only if its process was shown (`DeepShown`), whatever part of the list a scan saw.  In the Go port a
  process that must not be shown (again) has an
  entry of `macDB` as long as it is listed, or the seed still comes to it (`HeldKnown`); a scan has
  in its list what must not be swept (`ListCovers`), although the list is old by then; and the
  process in hand is a new one (`InHandFresh`).  `TreeInvariant` and `NoDescendantLeftOut` are as for Linux;
  that `macPidDepth` gives up where a process is its own parent costs nothing, as no process is.
* `NetPollProofs`: `PollInvariant`, from which `TypeCorrect`, `LinesAttributed`,
  and `OldNeverShown`.  `OutReported` relates the lines not yet read to
  what was open, `SeedsKept` says that what was seeded is in the table, about to be read, or the table is
  full, `SilentFirst` that nothing is shown before the first scan is over.
  `CmdTypeCorrect` and `WaitsForCommand` are about `CmdMode`: the flag and the timer
  are set when the command has been reaped.
* `TlsTraceProofs`: `TlsInvariant`, from which `TypeCorrect`, `ExitsClean`,
  `StaleReplaced` and `SniIsLatest`.  `MineKnown` says that each probe of this run is in
  `registered` or in hand, and during the clean-up that it is among those left or refused;
  `StaleAhead` that a probe of an earlier run is still to be come to, in hand, absent or refused;
  `ProbeInv` adds what each step has done to the one in hand, `SniInv` that a pid has one slot.
* `NetTraceProofs`: `NetInvariant`, from which `TypeCorrect`, `EntriesCurrent`,
  `LinesPaired` and `ProcessFound`.  `ConnCurrent` alone is not inductive: a new
  event that is handled late could make an entry for a flow whose destroy event
  has passed.  `InOrder` says that events of a tuple are queued in the order of
  its flows, `NewAccounted` that a new event has its destroy event behind it
  unless the flow goes on, `EntriesOldest` that nothing known or queued about a
  tuple is older than its entry, and `Handling` carries all this over to the
  event in hand.  `SocketInv` says that inode numbers are not shared and that
  `inode_to_pid`, undisturbed, has a process that holds the socket still before
  it.  `WatchedRightly` rests on `TreeInvariant` and on `WatchClimb`: while nothing ends,
  `is_descendant` asks for older and older processes, so that it never stops at one it
  has seen, and each is below a root exactly if the process of the connection is; it says no to a
  descendant only with its list full and a pid to go on from.  The one
  assumption on processes is that init has the least pid.

Only model-checked: the liveness properties (`CallsReturn`, `EndedForgotten`,
`EndsAfterCommand`, `AnswerTaken`, `ClosedForgotten`, `CatchesUp`, `Noticed`),
which are out of the prover's reach.

## What is not modelled, and the plan

Left to do, in this order:

1. The walk of `cap_next` through a BPF buffer on macOS (frames are handed on
   unchanged; its offsets are the kernel's).
2. The second search of `find_inode_with_dir` for UDP sockets without a peer.

Left out for good: messages that no resolver writes, loops of pointers included; the parser of `dns.go`; the search of `c/tls.c` for
`libssl` and for symbols in it, and its regular expressions (one choice each in the
model); the `ca` fetcher, a sequence of library calls without state between two of them;
the wording and colours of lines; option parsing; dispatch; the stubs of other platforms;
tests and benchmarks; the sweep of the Go `procCache`, which the C array does not have.
