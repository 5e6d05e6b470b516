--------------------------- MODULE DnsTraceProofs ---------------------------
(* Proofs about DnsTrace, for all queries, ports, processes and bounds,    *)
(* and, behind them, about DnsParse, for all messages and cuts.            *)
EXTENDS DnsTrace, DnsParse, SequenceTheorems, FiniteSetTheorems, TLAPS

LEMMA QueryParts ==
  ASSUME NEW q \in Query
  PROVE q.port \in Port /\ q.id \in Id
  BY DEF Port, Id

\* None is no cache entry, snapshot or event.
LEMMA NoneIsNone ==
  /\ None \notin CacheEntry
  /\ None \notin Snapshot
  /\ None \notin DnsEvent
  BY NoneAssumption

\* The packet at the head of a non-empty queue, and the queue without it.
LEMMA HeadTail ==
  ASSUME NEW s \in Seq(Packet), s # <<>>
  PROVE /\ Head(s) \in Packet
        /\ Tail(s) \in Seq(Packet)
        /\ Len(Tail(s)) = Len(s) - 1
        /\ Head(s).q \in Query
<1>1. Head(s) \in Packet /\ Tail(s) \in Seq(Packet) /\ Len(Tail(s)) = Len(s) - 1
  BY HeadTailProperties
<1> QED
  BY <1>1 DEF Packet

LEMMA CapturedType ==
  ASSUME queue \in Seq(Packet), NEW packet \in Packet, NEW copies \in 0 .. 2,
         Captured(packet, copies)
  PROVE queue' \in Seq(Packet) /\ Len(queue') <= QueueCap
<1> DEFINE c == [i \in 1 .. copies |-> packet]
<1>1. c \in Seq(Packet) /\ Len(c) = copies
  BY IsASeq
<1>2. queue' = queue \o c /\ Len(queue) + copies <= QueueCap
  BY DEF Captured
<1> QED
  BY <1>1, <1>2, ConcatProperties

LEMMA InitInv == Init => IInv
<1> SUFFICES ASSUME Init PROVE IInv
  OBVIOUS
<1>1. 0 \in Time /\ 0 <= QueueCap /\ 0 \in 0 .. MaxSends
  BY BoundsAssumption DEF Time
<1>2. TypeOK
  BY <1>1, BoundsAssumption, EmptySeq DEF Init, TypeOK
<1>3. CacheWasTrue
  BY <1>1 DEF Init, CacheWasTrue
<1> QED
  BY <1>2, <1>3 DEF IInv

\* An entry that proc_lookup may use is fresh enough: the cache entry is younger
\* than TTL and was made from facts no older than TTL (macOS) or its own age.
LEMMA HitIsTrue ==
  ASSUME IInv, NEW p \in Port, Hit(p)
  PROVE /\ now - since[p] >= 2 * TTL => pcache[p].pid \in {0, owner[p]}
        /\ ~darwin /\ now - since[p] >= TTL => pcache[p].pid \in {0, owner[p]}
<1> DEFINE e == pcache[p]
<1>1. e \in CacheEntry /\ e # None
  BY NoneIsNone DEF IInv, TypeOK, Hit
<1>2. /\ now \in Int /\ since[p] \in Int /\ TTL \in Int
      /\ e.born \in Int /\ e.asOf \in Int
  BY <1>1, BoundsAssumption, TTLAssumption DEF IInv, TypeOK, CacheEntry, Time
<1>3. now - e.born < TTL
  BY DEF Hit
<1>4. /\ e.asOf <= e.born
      /\ darwin => e.born - e.asOf <= TTL
      /\ ~darwin => e.born = e.asOf
      /\ since[p] < e.asOf => e.pid \in {0, owner[p]}
  BY <1>1 DEF IInv, CacheWasTrue
<1>5. now - since[p] >= 2 * TTL => since[p] < e.asOf
  BY <1>2, <1>3, <1>4, TTLAssumption
<1>6. ~darwin /\ now - since[p] >= TTL => since[p] < e.asOf
  BY <1>2, <1>3, <1>4
<1> QED
  BY <1>4, <1>5, <1>6

\* What proc_lookup leaves in the cache when it has to ask.
Asked(p, e) ==
  /\ e \in CacheEntry
  /\ e.born = now
  /\ e.asOf <= now
  /\ IF darwin THEN now - e.asOf <= TTL ELSE e.asOf = now
  /\ since[p] < e.asOf => e.pid \in {0, owner[p]}
  /\ pcache' = [pcache EXCEPT ![p] = e]

LEMMA MissAsks ==
  ASSUME IInv, NEW p \in Port, NEW good \in BOOLEAN, ~Hit(p), proc_lookup(p, good)
  PROVE /\ \E e \in CacheEntry : Asked(p, e)
        /\ mac_udp' \in Snapshot \cup {None}
        /\ mac_udp' # None =>
             /\ mac_udp'.born <= now
             /\ \A r \in Port : since[r] < mac_udp'.born => mac_udp'.map[r] \in {0, owner[r]}
<1>0. /\ now \in Time /\ TTL \in Nat /\ now \in Int
      /\ owner \in [Port -> Pid \cup {0}]
      /\ mac_udp \in Snapshot \cup {None}
  BY TTLAssumption, BoundsAssumption DEF IInv, TypeOK, Time
<1>1. mac_udp' = IF darwin THEN snapshot(good) ELSE mac_udp
  BY DEF proc_lookup
<1>2. CASE darwin
  <2>1. mac_udp' = snapshot(good)
    BY <1>1, <1>2
  <2> DEFINE fresh == mac_scan_udp(good)
  <2>2. /\ fresh \in Snapshot /\ fresh.born = now
        /\ \A r \in Port : fresh.map[r] \in {0, owner[r]}
    BY <1>0 DEF mac_scan_udp, Snapshot
  <2>3. /\ mac_udp' \in Snapshot
        /\ mac_udp'.born <= now
        /\ now - mac_udp'.born <= TTL
        /\ \A r \in Port : since[r] < mac_udp'.born => mac_udp'.map[r] \in {0, owner[r]}
    <3>1. CASE mac_udp = None \/ now - mac_udp.born > TTL
      <4>1. mac_udp' = fresh
        BY <2>1, <3>1 DEF snapshot
      <4> QED
        BY <4>1, <2>2, <1>0
    <3>2. CASE ~(mac_udp = None \/ now - mac_udp.born > TTL)
      <4>1. mac_udp' = mac_udp
        BY <2>1, <3>2 DEF snapshot
      <4>2. mac_udp \in Snapshot /\ mac_udp.born \in Int
        BY <1>0, <3>2, BoundsAssumption DEF Snapshot, Time
      <4> QED
        BY <4>1, <4>2, <3>2, <1>0 DEF IInv, CacheWasTrue
    <3> QED
      BY <3>1, <3>2
  <2> DEFINE e == [pid |-> mac_udp'.map[p], born |-> now, asOf |-> mac_udp'.born]
  <2>4. e \in CacheEntry
    BY <2>3, <1>0 DEF CacheEntry, Snapshot
  <2>5. pcache' = [pcache EXCEPT ![p] = e]
    BY <1>2 DEF proc_lookup
  <2>6. Asked(p, e)
    BY <2>3, <2>4, <2>5, <1>2 DEF Asked
  <2> QED
    BY <2>3, <2>4, <2>6
<1>3. CASE ~darwin
  <2> DEFINE e == [pid |-> IF good THEN owner[p] ELSE 0, born |-> now, asOf |-> now]
  <2>1. e \in CacheEntry
    BY <1>0 DEF CacheEntry
  <2>2. pcache' = [pcache EXCEPT ![p] = e]
    BY <1>3 DEF proc_lookup, pid_for_udp_port
  <2>3. Asked(p, e)
    BY <2>1, <2>2, <1>3, <1>0 DEF Asked
  <2>4. mac_udp' = mac_udp
    BY <1>1, <1>3
  <2> QED
    BY <2>1, <2>3, <2>4, <1>0 DEF IInv, CacheWasTrue
<1> QED
  BY <1>2, <1>3

\* After a proc_lookup the cache is sound, and the entry of the port is the one the
\* query is attributed by.
LEMMA LookupSound ==
  ASSUME IInv, NEW p \in Port, NEW good \in BOOLEAN, proc_lookup(p, good), UNCHANGED world
  PROVE /\ pcache' \in [Port -> CacheEntry \cup {None}]
        /\ mac_udp' \in Snapshot \cup {None}
        /\ CacheWasTrue'
        /\ pcache'[p] \in CacheEntry
        /\ now - since[p] >= 2 * TTL => pcache'[p].pid \in {0, owner[p]}
        /\ ~darwin /\ now - since[p] >= TTL => pcache'[p].pid \in {0, owner[p]}
<1>0. darwin' = darwin /\ now' = now /\ owner' = owner /\ since' = since
  BY DEF world
<1>1. CASE Hit(p)
  <2>1. pcache' = pcache /\ mac_udp' = mac_udp
    BY <1>1 DEF proc_lookup
  <2>2. CacheWasTrue'
    BY <1>0, <2>1 DEF IInv, CacheWasTrue
  <2>3. pcache[p] \in CacheEntry
    BY <1>1 DEF Hit, IInv, TypeOK
  <2> QED
    BY <1>1, <2>1, <2>2, <2>3, HitIsTrue DEF IInv, TypeOK
<1>2. CASE ~Hit(p)
  <2>1. PICK e \in CacheEntry : Asked(p, e)
    BY <1>2, MissAsks
  <2>2. /\ mac_udp' \in Snapshot \cup {None}
        /\ mac_udp' # None =>
             /\ mac_udp'.born <= now
             /\ \A r \in Port : since[r] < mac_udp'.born => mac_udp'.map[r] \in {0, owner[r]}
    BY <1>2, MissAsks
  <2>3. /\ pcache' \in [Port -> CacheEntry \cup {None}]
        /\ pcache'[p] = e
        /\ \A r \in Port : r # p => pcache'[r] = pcache[r]
    BY <2>1 DEF Asked, IInv, TypeOK
  <2>4. /\ now \in Int /\ since[p] \in Int /\ TTL \in Int /\ e.asOf \in Int /\ e.born = now
    BY <2>1, BoundsAssumption, TTLAssumption DEF IInv, TypeOK, CacheEntry, Time, Asked
  <2>5. CacheWasTrue'
    <3>1. \A r \in Port : pcache'[r] # None =>
            /\ pcache'[r].asOf <= pcache'[r].born
            /\ pcache'[r].born <= now
            /\ IF darwin THEN pcache'[r].born - pcache'[r].asOf <= TTL
                         ELSE pcache'[r].born = pcache'[r].asOf
            /\ since[r] < pcache'[r].asOf => pcache'[r].pid \in {0, owner[r]}
      <4> SUFFICES ASSUME NEW r \in Port, pcache'[r] # None
                   PROVE  /\ pcache'[r].asOf <= pcache'[r].born
                          /\ pcache'[r].born <= now
                          /\ IF darwin THEN pcache'[r].born - pcache'[r].asOf <= TTL
                                       ELSE pcache'[r].born = pcache'[r].asOf
                          /\ since[r] < pcache'[r].asOf => pcache'[r].pid \in {0, owner[r]}
        OBVIOUS
      <4>1. CASE r = p
        BY <4>1, <2>1, <2>3, <2>4 DEF Asked
      <4>2. CASE r # p
        <5>1. pcache'[r] = pcache[r] /\ pcache[r] # None
          BY <4>2, <2>3
        <5> QED
          BY <5>1 DEF IInv, CacheWasTrue
      <4> QED
        BY <4>1, <4>2
    <3>2. \A r \in Port : since[r] <= now
      BY DEF IInv, CacheWasTrue
    <3> QED
      BY <3>1, <3>2, <2>2, <1>0 DEF CacheWasTrue
  <2>6. since[p] < e.asOf \/ ~(now - since[p] >= 2 * TTL)
    BY <2>1, <2>4, TTLAssumption DEF Asked
  <2>7. ~darwin => since[p] < e.asOf \/ ~(now - since[p] >= TTL)
    BY <2>1, <2>4, TTLAssumption DEF Asked
  <2> QED
    BY <2>1, <2>2, <2>3, <2>5, <2>6, <2>7 DEF Asked
<1> QED
  BY <1>1, <1>2

\* One step of the world preserves the invariant: what the caches hold goes
\* wrong only by a change of owner, which sets since.
LEMMA WorldInv ==
  ASSUME IInv,
         \/ Tick
         \/ \E p \in Port, pid \in Pid \cup {0} : Socket(p, pid)
         \/ \E q \in Query, copies \in 0 .. 2 : SendQuery(q, copies) \/ Respond(q, copies)
  PROVE IInv'
<1> USE BoundsAssumption
<1>1. CASE Tick
  <2>1. TypeOK'
    BY <1>1 DEF IInv, TypeOK, Tick, Time
  <2>2. CacheWasTrue'
    <3>1. /\ now' = now + 1 /\ now \in Int
          /\ UNCHANGED <<darwin, owner, since, pcache, mac_udp>>
      BY <1>1 DEF Tick, IInv, TypeOK, Time
    <3>2. \A x \in Time : x <= now => x <= now'
      BY <3>1 DEF Time
    <3>3. /\ \A p \in Port : since[p] \in Time
          /\ \A p \in Port : pcache[p] # None => pcache[p].born \in Time
          /\ mac_udp # None => mac_udp.born \in Time
      BY DEF IInv, TypeOK, CacheEntry, Snapshot
    <3> QED
      BY <3>1, <3>2, <3>3 DEF IInv, CacheWasTrue
  <2> QED
    BY <2>1, <2>2 DEF IInv
<1>2. CASE \E p \in Port, pid \in Pid \cup {0} : Socket(p, pid)
  <2>1. PICK p \in Port, pid \in Pid \cup {0} : Socket(p, pid)
    BY <1>2
  <2>2. TypeOK'
    BY <2>1 DEF IInv, TypeOK, Socket
  <2>3. CacheWasTrue'
    <3>1. /\ darwin' = darwin /\ now' = now /\ pcache' = pcache /\ mac_udp' = mac_udp
          /\ now \in Int
          /\ since'[p] = now
          /\ \A r \in Port : r # p => since'[r] = since[r] /\ owner'[r] = owner[r]
      BY <2>1 DEF Socket, IInv, TypeOK, Time
    <3>2. /\ pcache[p] # None => pcache[p].asOf \in Int /\ pcache[p].born \in Int
          /\ mac_udp # None => mac_udp.born \in Int
      BY DEF IInv, TypeOK, CacheEntry, Snapshot, Time
    <3>3. /\ pcache[p] # None => ~(since'[p] < pcache[p].asOf)
          /\ mac_udp # None => ~(since'[p] < mac_udp.born)
      BY <3>1, <3>2 DEF IInv, CacheWasTrue
    <3>4. \A r \in Port : since'[r] <= now
      BY <3>1 DEF IInv, CacheWasTrue
    <3>5. \A r \in Port : mac_udp # None /\ since'[r] < mac_udp.born => mac_udp.map[r] \in {0, owner'[r]}
      BY <3>1, <3>3 DEF IInv, CacheWasTrue
    <3>6. \A r \in Port : pcache[r] # None /\ since'[r] < pcache[r].asOf => pcache[r].pid \in {0, owner'[r]}
      BY <3>1, <3>3 DEF IInv, CacheWasTrue
    <3> QED
      BY <3>1, <3>4, <3>5, <3>6 DEF IInv, CacheWasTrue
  <2> QED
    BY <2>2, <2>3 DEF IInv
<1>3. ASSUME NEW q \in Query, NEW copies \in 0 .. 2,
             SendQuery(q, copies) \/ Respond(q, copies)
      PROVE IInv'
  <2>1. queue' \in Seq(Packet) /\ Len(queue') <= QueueCap
    <3>1. CASE SendQuery(q, copies)
      <4>1. [kind |-> "query", q |-> q] \in Packet
        BY DEF Packet
      <4>2. Captured([kind |-> "query", q |-> q], copies)
        BY <3>1 DEF SendQuery
      <4> QED
        BY <4>1, <4>2, CapturedType DEF IInv, TypeOK
    <3>2. CASE Respond(q, copies)
      <4>1. [kind |-> "response", q |-> q] \in Packet
        BY DEF Packet
      <4>2. Captured([kind |-> "response", q |-> q], copies)
        BY <3>2 DEF Respond
      <4> QED
        BY <4>1, <4>2, CapturedType DEF IInv, TypeOK
    <3> QED
      BY <1>3, <3>1, <3>2
  <2>2. sends' \in [Query -> 0 .. MaxSends]
    <3>1. CASE SendQuery(q, copies)
      BY <3>1 DEF SendQuery, IInv, TypeOK
    <3>2. CASE Respond(q, copies)
      BY <3>2 DEF Respond, world, IInv, TypeOK
    <3> QED
      BY <1>3, <3>1, <3>2
  <2>3. UNCHANGED <<darwin, now, owner, since, pcache, mac_udp, pending, line, reported>>
    BY <1>3 DEF SendQuery, Respond, world
  <2>4. TypeOK'
    BY <2>1, <2>2, <2>3 DEF IInv, TypeOK
  <2>5. CacheWasTrue'
    BY <2>3 DEF IInv, CacheWasTrue
  <2> QED
    BY <2>4, <2>5 DEF IInv
<1> QED
  BY <1>1, <1>2, <1>3

\* Handling a query preserves the invariant and blames who it should.
LEMMA QueryInv ==
  ASSUME IInv, NEW good \in BOOLEAN, OnQuery(good)
  PROVE IInv' /\ Blamed(2 * TTL) /\ (~darwin => Blamed(TTL))
<1>1. PICK q \in Query : q = Head(queue).q
  BY HeadTail DEF IInv, TypeOK, OnQuery
<1>2. q.port \in Port /\ q.id \in Id
  BY QueryParts
<1>3. /\ queue' \in Seq(Packet)
      /\ Len(queue') <= QueueCap
  BY HeadTail, BoundsAssumption DEF IInv, TypeOK, OnQuery
<1>4. /\ proc_lookup(q.port, good)
      /\ pending' = [pending EXCEPT ![q.id] =
                        [query |-> q, pid |-> pcache'[q.port].pid, sent |-> now]]
      /\ line' = None
      /\ UNCHANGED world
      /\ reported' = reported
  BY <1>1 DEF OnQuery
<1>5. /\ pcache' \in [Port -> CacheEntry \cup {None}]
      /\ mac_udp' \in Snapshot \cup {None}
      /\ CacheWasTrue'
      /\ pcache'[q.port] \in CacheEntry
      /\ now - since[q.port] >= 2 * TTL => pcache'[q.port].pid \in {0, owner[q.port]}
      /\ ~darwin /\ now - since[q.port] >= TTL => pcache'[q.port].pid \in {0, owner[q.port]}
  BY <1>2, <1>4, LookupSound
<1>6. PICK ev \in DnsEvent : /\ pending' = [pending EXCEPT ![q.id] = ev]
                              /\ ev.query = q /\ ev.pid = pcache'[q.port].pid
  <2>1. pcache'[q.port].pid \in Pid \cup {0} /\ now \in Time
    BY <1>5 DEF CacheEntry, IInv, TypeOK
  <2>2. [query |-> q, pid |-> pcache'[q.port].pid, sent |-> now] \in DnsEvent
    BY <2>1 DEF DnsEvent
  <2> QED
    BY <2>2, <1>4
<1>7. pending \in [Id -> DnsEvent \cup {None}]
  BY DEF IInv, TypeOK
<1>8. TypeOK'
  BY <1>3, <1>4, <1>5, <1>6, <1>7 DEF IInv, TypeOK, world
<1>9. \A i \in Id : pending'[i] # pending[i] => i = q.id /\ pending'[i] = ev
  BY <1>2, <1>6, <1>7
<1>10. Blamed(2 * TTL)
  BY <1>5, <1>6, <1>9 DEF Blamed
<1>11. ~darwin => Blamed(TTL)
  BY <1>5, <1>6, <1>9 DEF Blamed
<1> QED
  BY <1>5, <1>8, <1>10, <1>11 DEF IInv

\* Handling a response preserves the invariant and puts nothing in flight.
LEMMA ResponseInv ==
  ASSUME IInv, OnResponse
  PROVE IInv' /\ \A i \in Id : pending'[i] \in {None, pending[i]}
<1>1. PICK r \in Query : r = Head(queue).q
  BY HeadTail DEF IInv, TypeOK, OnResponse
<1>2. r.id \in Id
  BY QueryParts
<1>3. /\ queue' \in Seq(Packet)
      /\ Len(queue') <= QueueCap
  BY HeadTail, BoundsAssumption DEF IInv, TypeOK, OnResponse
<1>4. UNCHANGED <<darwin, now, owner, since, sends, pcache, mac_udp>>
  BY DEF OnResponse, world
<1>5. /\ pending' \in [Id -> DnsEvent \cup {None}]
      /\ line' \in [query : Query, response : Query, pid : Pid \cup {0}] \cup {None}
      /\ reported' \in [Query -> Nat]
      /\ \A i \in Id : pending'[i] \in {None, pending[i]}
  <2> DEFINE ev == pending[r.id]
  <2>0. pending \in [Id -> DnsEvent \cup {None}] /\ reported \in [Query -> Nat]
    BY DEF IInv, TypeOK
  <2>1. CASE ev # None
    <3>1. ev \in DnsEvent /\ ev.query \in Query /\ ev.pid \in Pid \cup {0}
      BY <2>0, <2>1, <1>2 DEF DnsEvent
    <3>2. pending' = [pending EXCEPT ![r.id] = None]
      BY <1>1, <2>1 DEF OnResponse
    <3>3. line' = IF emit(ev) THEN [query |-> ev.query, response |-> r, pid |-> ev.pid] ELSE None
      BY <1>1, <2>1 DEF OnResponse
    <3>4. reported' = IF emit(ev) THEN [reported EXCEPT ![ev.query] = @ + 1] ELSE reported
      BY <1>1, <2>1 DEF OnResponse
    <3>5. /\ pending' \in [Id -> DnsEvent \cup {None}]
          /\ \A i \in Id : pending'[i] \in {None, pending[i]}
      BY <2>0, <3>2
    <3>6. line' \in [query : Query, response : Query, pid : Pid \cup {0}] \cup {None}
      BY <3>1, <3>3
    <3>7. reported' \in [Query -> Nat]
      BY <2>0, <3>1, <3>4
    <3> QED
      BY <3>5, <3>6, <3>7
  <2>2. CASE ev = None
    BY <1>1, <2>0, <2>2 DEF OnResponse
  <2> QED
    BY <2>1, <2>2
<1>6. TypeOK'
  BY <1>3, <1>4, <1>5 DEF IInv, TypeOK
<1>7. CacheWasTrue'
  BY <1>4 DEF IInv, CacheWasTrue
<1> QED
  BY <1>5, <1>6, <1>7 DEF IInv

\* Steps that put nothing in flight blame nobody.
LEMMA NothingBlamed ==
  ASSUME NEW limit, \A i \in Id : pending'[i] \in {None, pending[i]}
  PROVE Blamed(limit)
  BY DEF Blamed

\* Every step preserves the invariant and blames the right process.
LEMMA StepInv ==
  ASSUME IInv, [Next]_vars
  PROVE IInv' /\ [Blamed(2 * TTL)]_vars /\ [~darwin => Blamed(TTL)]_vars
<1>1. CASE UNCHANGED vars
  BY <1>1 DEF vars, world, IInv, TypeOK, CacheWasTrue
<1>2. CASE \/ Tick
           \/ \E p \in Port, pid \in Pid \cup {0} : Socket(p, pid)
           \/ \E q \in Query, copies \in 0 .. 2 : SendQuery(q, copies) \/ Respond(q, copies)
  <2>1. IInv'
    BY <1>2, WorldInv
  <2>2. pending' = pending
    BY <1>2 DEF Tick, Socket, SendQuery, Respond
  <2> QED
    BY <2>1, <2>2, NothingBlamed
<1>3. CASE \E good \in BOOLEAN : OnQuery(good)
  BY <1>3, QueryInv
<1>4. CASE OnResponse
  BY <1>4, ResponseInv, NothingBlamed
<1> QED
  BY <1>1, <1>2, <1>3, <1>4 DEF Next, Tracer

\* The tracer's data stay well formed, and what its caches hold was true when
\* the kernel was asked.
THEOREM CacheInvariant == Spec => []IInv
<1>1. IInv /\ [Next]_vars => IInv'
  BY StepInv
<1> QED
  BY <1>1, InitInv, PTL DEF Spec

\* What proc_lookup's caches hold was true when it was read (the invariant the runs
\* check).
THEOREM CachesWereTrue == Spec => []CacheWasTrue
<1>1. IInv => CacheWasTrue
  BY DEF IInv
<1> QED
  BY <1>1, CacheInvariant, PTL

\* Packets, cache, snapshot and queries in flight stay well formed.
THEOREM TypeCorrect == Spec => []TypeOK
<1>1. IInv => TypeOK
  BY DEF IInv
<1> QED
  BY <1>1, CacheInvariant, PTL

\* Linux: no query is attributed to a port's previous owner once the port has
\* had its owner for the TTL.
THEOREM FreshWithinTTL == Spec => BlamedFresh
<1>1. IInv /\ [Next]_vars => [~darwin => Blamed(TTL)]_vars
  BY StepInv
<1> QED
  BY <1>1, CacheInvariant, PTL DEF Spec, BlamedFresh

\* macOS: the same after twice the TTL.
THEOREM FreshWithinTwoTTL == Spec => BlamedSnapshot
<1>1. IInv /\ [Next]_vars => [Blamed(2 * TTL)]_vars
  BY StepInv
<1> QED
  BY <1>1, CacheInvariant, PTL DEF Spec, BlamedSnapshot
-----------------------------------------------------------------------------
(* At most one line for each send: counting the runs of copies.            *)

LEMMA RunsFinite ==
  ASSUME NEW s \in Seq(Packet), NEW x, NEW held \in BOOLEAN
  PROVE IsFiniteSet(Runs(s, x, held)) /\ Cardinality(Runs(s, x, held)) \in Nat
<1>1. Runs(s, x, held) \in SUBSET (1 .. Len(s)) /\ Len(s) \in Int
  BY DEF Runs
<1>2. IsFiniteSet(1 .. Len(s))
  BY <1>1, FS_Interval
<1>3. IsFiniteSet(Runs(s, x, held))
  BY <1>1, <1>2, FS_Subset
<1> QED
  BY <1>3, FS_CardinalityType

\* Taking the head off ends its run, or leaves the rest of it to be held.
LEMMA RunsTail ==
  ASSUME NEW s \in Seq(Packet), s # <<>>, NEW x,
         NEW held \in BOOLEAN, NEW heldAfter \in BOOLEAN,
         Head(s) = x => heldAfter
  PROVE Cardinality(Runs(Tail(s), x, heldAfter)) + (IF Head(s) = x /\ ~held THEN 1 ELSE 0)
          <= Cardinality(Runs(s, x, held))
<1> DEFINE before == Runs(s, x, held)
           after == Runs(Tail(s), x, heldAfter)
           f == [i \in after |-> i + 1]
<1>1. /\ Tail(s) \in Seq(Packet) /\ Len(Tail(s)) = Len(s) - 1 /\ Len(s) \in Nat /\ Len(s) >= 1
      /\ s[1] = Head(s)
      /\ \A i \in 1 .. Len(s) - 1 : Tail(s)[i] = s[i + 1]
  BY HeadTailProperties
<1>2. /\ IsFiniteSet(before) /\ Cardinality(before) \in Nat
      /\ IsFiniteSet(after) /\ Cardinality(after) \in Nat
  BY <1>1, RunsFinite
<1>3. \A i \in after : i \in Nat /\ i + 1 \in before \ {1}
  BY <1>1 DEF Runs
<1>4. f \in Injection(after, before \ {1})
  BY <1>3 DEF Injection, IsInjective
<1>5. /\ IsFiniteSet(before \ {1})
      /\ Cardinality(before \ {1}) = IF 1 \in before THEN Cardinality(before) - 1
                                                    ELSE Cardinality(before)
  BY <1>2, FS_RemoveElement
<1>6. Cardinality(after) <= Cardinality(before \ {1})
  BY <1>4, <1>5, FS_Injection
<1>7. Head(s) = x /\ ~held => 1 \in before
  BY <1>1 DEF Runs
<1> QED
  BY <1>2, <1>5, <1>6, <1>7

\* The copies of one packet make at most one more run, and none of another packet.
LEMMA RunsCaptured ==
  ASSUME NEW s \in Seq(Packet), NEW y \in Packet, NEW copies \in 0 .. 2, NEW x,
         NEW held \in BOOLEAN
  PROVE LET t == s \o [i \in 1 .. copies |-> y]
        IN Cardinality(Runs(t, x, held)) <=
             Cardinality(Runs(s, x, held)) + IF x = y THEN 1 ELSE 0
<1> DEFINE c == [i \in 1 .. copies |-> y]
           t == s \o c
           before == Runs(s, x, held)
           after == Runs(t, x, held)
<1>1. c \in Seq(Packet) /\ Len(c) = copies /\ \A i \in 1 .. copies : c[i] = y
  BY IsASeq
<1>2. /\ t \in Seq(Packet) /\ Len(t) = Len(s) + copies /\ Len(s) \in Nat
      /\ \A i \in 1 .. Len(s) : t[i] = s[i]
      /\ \A i \in Len(s) + 1 .. Len(t) : t[i] = y
  BY <1>1, ConcatProperties
<1>3. /\ IsFiniteSet(before) /\ Cardinality(before) \in Nat
      /\ IsFiniteSet(after) /\ Cardinality(after) \in Nat
  BY <1>2, RunsFinite
<1>4. CASE x = y
  <2>1. \A i \in after : i \in before \cup {Len(s) + 1}
    <3> SUFFICES ASSUME NEW i \in after, i \notin before PROVE i = Len(s) + 1
      OBVIOUS
    <3>1. /\ i \in 1 .. Len(t) /\ t[i] = x
          /\ IF i = 1 THEN ~held ELSE t[i - 1] # x
      BY DEF Runs
    <3>2. i \notin 1 .. Len(s)
      BY <3>1, <1>2 DEF Runs
    <3>3. i # 1 => i - 1 \notin Len(s) + 1 .. Len(t)
      BY <3>1, <1>2, <1>4
    <3> QED
      BY <3>1, <3>2, <3>3, <1>2
  <2> DEFINE last == Len(s) + 1
  <2>2. /\ IsFiniteSet(before \cup {last})
        /\ Cardinality(before \cup {last}) =
             IF last \in before THEN Cardinality(before) ELSE Cardinality(before) + 1
    <3> HIDE DEF last, before
    <3> QED
      BY <1>3, FS_AddElement
  <2>3. Cardinality(after) <= Cardinality(before \cup {Len(s) + 1})
    BY <2>1, <2>2, FS_Subset
  <2>4. Cardinality(before \cup {Len(s) + 1}) \in Nat
    BY <2>2, FS_CardinalityType
  <2> QED
    BY <1>3, <1>4, <2>2, <2>3, <2>4
<1>5. CASE x # y
  <2>1. \A i \in after : i \in before
    BY <1>2, <1>5 DEF Runs
  <2>2. Cardinality(after) <= Cardinality(before)
    BY <2>1, <1>3, FS_Subset
  <2> QED
    BY <1>3, <1>5, <2>2
<1> QED
  BY <1>4, <1>5

LEMMA InFlightType ==
  ASSUME TypeOK, NEW q \in Query
  PROVE /\ InFlight(q) \in BOOLEAN
        /\ queue \in Seq(Packet)
        /\ Cardinality(Runs(queue, QueryPacket(q), InFlight(q))) \in Nat
        /\ Unreported(q) \in Nat
        /\ reported[q] \in Nat
        /\ sends[q] \in Nat
<1>1. InFlight(q) \in BOOLEAN /\ queue \in Seq(Packet)
  BY DEF TypeOK, InFlight
<1>2. Cardinality(Runs(queue, QueryPacket(q), InFlight(q))) \in Nat
  BY <1>1, RunsFinite
<1>3. reported[q] \in Nat /\ sends[q] \in Nat
  BY BoundsAssumption DEF TypeOK
<1> QED
  BY <1>1, <1>2, <1>3 DEF Unreported

\* Sends and answers: a send may add one run of its own query.
LEMMA CountedWorld ==
  ASSUME TypeOK, TypeOK', SendsCounted, NEW q \in Query, NEW copies \in 0 .. 2,
         SendQuery(q, copies) \/ Respond(q, copies)
  PROVE SendsCounted'
<1> DEFINE y == [kind |-> IF SendQuery(q, copies) THEN "query" ELSE "response", q |-> q]
<1>1. /\ queue' = queue \o [i \in 1 .. copies |-> y]
      /\ y \in Packet
      /\ pending' = pending /\ reported' = reported
  BY DEF SendQuery, Respond, Captured, Packet
<1>2. \A r \in Query : r # q \/ ~SendQuery(q, copies) =>
        sends'[r] = sends[r] /\ QueryPacket(r) # y
  <2>1. CASE SendQuery(q, copies)
    BY <2>1 DEF SendQuery, QueryPacket, TypeOK
  <2>2. CASE ~SendQuery(q, copies)
    <3>1. sends' = sends /\ y.kind = "response"
      BY <2>2 DEF Respond, world
    <3>2. \A r \in Query : QueryPacket(r).kind = "query"
      BY DEF QueryPacket
    <3> QED
      BY <3>1, <3>2
  <2> QED
    BY <2>1, <2>2
<1>3. SendQuery(q, copies) => sends'[q] = sends[q] + 1
  BY DEF SendQuery, TypeOK
<1>4. ASSUME NEW r \in Query
      PROVE reported'[r] + Unreported(r)' <= sends'[r]
  <2> DEFINE x == QueryPacket(r)
             held == InFlight(r)
             n == Cardinality(Runs(queue, x, held))
             m == Cardinality(Runs(queue', x, held))
  <2>1. held \in BOOLEAN /\ queue \in Seq(Packet) /\ n \in Nat
    BY InFlightType
  <2>2. m <= n + IF x = y THEN 1 ELSE 0
    <3> HIDE DEF x, held, y
    <3>1. LET t == queue \o [i \in 1 .. copies |-> y]
          IN Cardinality(Runs(t, x, held)) <=
               Cardinality(Runs(queue, x, held)) + IF x = y THEN 1 ELSE 0
      BY <1>1, <2>1, RunsCaptured
    <3> QED
      BY <1>1, <3>1
  <2>3. InFlight(r)' = held
    BY <1>1 DEF InFlight
  <2>4. Unreported(r)' = m + IF held THEN 1 ELSE 0
    BY <2>3 DEF Unreported, QueryPacket
  <2>5. Unreported(r) = n + IF held THEN 1 ELSE 0
    BY DEF Unreported
  <2>6. m \in Nat
    <3>1. queue' \in Seq(Packet)
      BY DEF TypeOK
    <3> QED
      BY <2>1, <3>1, RunsFinite
  <2>7. reported[r] + Unreported(r) <= sends[r] /\ reported[r] \in Nat /\ sends[r] \in Nat
    BY InFlightType DEF SendsCounted
  <2>8. sends'[r] \in Nat
    BY BoundsAssumption DEF TypeOK
  <2>9. sends'[r] >= sends[r] + IF x = y THEN 1 ELSE 0
    BY <1>2, <1>3, <2>7
  <2>10. reported'[r] = reported[r]
    BY <1>1
  <2> HIDE DEF x, held, n, m, y
  <2> QED
    BY <2>1, <2>2, <2>4, <2>5, <2>6, <2>7, <2>8, <2>9, <2>10
<1> QED
  BY <1>1, <1>4 DEF SendsCounted

\* Handling a packet: the run at the head of the queue is put in flight, or is in
\* flight already; an answer ends what is in flight.
LEMMA CountedTracer ==
  ASSUME IInv, IInv', SendsCounted, Tracer
  PROVE SendsCounted'
<1>0. TypeOK /\ TypeOK'
  BY DEF IInv
<1>1. /\ queue # <<>> /\ queue' = Tail(queue) /\ sends' = sends
  BY DEF Tracer, OnQuery, OnResponse, world
<1>h. PICK h \in Query : h = Head(queue).q
  BY <1>0, <1>1, HeadTail DEF TypeOK
<1>2. Head(queue) \in Packet /\ h \in Query /\ h.id \in Id
  BY <1>0, <1>1, HeadTail, QueryParts DEF TypeOK
<1>3. pending \in [Id -> DnsEvent \cup {None}] /\ reported \in [Query -> Nat]
  BY <1>0 DEF TypeOK
<1>4. ASSUME NEW q \in Query,
             Head(queue) = QueryPacket(q) => InFlight(q)',
             reported'[q] + (IF InFlight(q)' THEN 1 ELSE 0) <=
               reported[q] + (IF InFlight(q) THEN 1 ELSE 0)
                 + IF Head(queue) = QueryPacket(q) /\ ~InFlight(q) THEN 1 ELSE 0
      PROVE reported'[q] + Unreported(q)' <= sends'[q]
  <2> DEFINE x == QueryPacket(q)
             held == InFlight(q)
             heldAfter == InFlight(q)'
             n == Cardinality(Runs(queue, x, held))
             m == Cardinality(Runs(Tail(queue), x, heldAfter))
  <2>1. held \in BOOLEAN /\ queue \in Seq(Packet) /\ n \in Nat
    BY <1>0, InFlightType
  <2>2. heldAfter \in BOOLEAN
    BY DEF InFlight
  <2>3. m + (IF Head(queue) = x /\ ~held THEN 1 ELSE 0) <= n
    <3>1. Head(queue) = x => heldAfter
      BY <1>4
    <3> HIDE DEF x, held, heldAfter
    <3> QED
      BY <1>1, <2>1, <2>2, <3>1, RunsTail
  <2>4. m \in Nat
    <3>1. Tail(queue) \in Seq(Packet)
      BY <1>1, <2>1, HeadTail
    <3> QED
      BY <2>2, <3>1, RunsFinite
  <2>5. Unreported(q)' = m + IF heldAfter THEN 1 ELSE 0
    BY <1>1 DEF Unreported, QueryPacket
  <2>6. Unreported(q) = n + IF held THEN 1 ELSE 0
    BY DEF Unreported
  <2>7. reported[q] + Unreported(q) <= sends[q] /\ reported[q] \in Nat /\ sends[q] \in Nat
    BY <1>0, InFlightType DEF SendsCounted
  <2>8. reported'[q] \in Nat /\ sends'[q] = sends[q]
    BY <1>0, <1>1 DEF TypeOK
  <2>9. reported'[q] + (IF heldAfter THEN 1 ELSE 0) <=
          reported[q] + (IF held THEN 1 ELSE 0) + IF Head(queue) = x /\ ~held THEN 1 ELSE 0
    BY <1>4
  <2> DEFINE a == IF held THEN 1 ELSE 0
             b == IF heldAfter THEN 1 ELSE 0
             c == IF Head(queue) = x /\ ~held THEN 1 ELSE 0
  <2>10. a \in Nat /\ b \in Nat /\ c \in Nat
    OBVIOUS
  <2>11. /\ Unreported(q)' = m + b /\ Unreported(q) = n + a /\ m + c <= n
         /\ reported'[q] + b <= reported[q] + a + c
    BY <2>3, <2>5, <2>6, <2>9
  <2>12. n \in Nat
    BY <2>1
  <2> HIDE DEF a, b, c, n, m
  <2> QED
    BY <2>4, <2>7, <2>8, <2>10, <2>11, <2>12
<1>5. CASE \E good \in BOOLEAN : OnQuery(good)
  <2>1. PICK good \in BOOLEAN : OnQuery(good)
    BY <1>5
  <2> DEFINE ev == [query |-> h, pid |-> pcache'[h.port].pid, sent |-> now]
  <2>2. /\ pending' = [pending EXCEPT ![h.id] = ev] /\ ev.query = h
        /\ reported' = reported
        /\ proc_lookup(h.port, good) /\ UNCHANGED world
    BY <1>h, <2>1 DEF OnQuery
  <2>3. ev \in DnsEvent /\ ev # None
    <3>1. pcache'[h.port] \in CacheEntry
      BY <1>2, <2>2, QueryParts, LookupSound
    <3> QED
      BY <1>2, <3>1, NoneIsNone DEF CacheEntry, DnsEvent, IInv, TypeOK
  <2> HIDE DEF ev
  <2>4. /\ pending'[h.id] = ev
        /\ \A i \in Id : i # h.id => pending'[i] = pending[i]
    BY <1>2, <1>3, <2>2
  <2>5. \A i \in Id : pending'[i] # None => pending'[i].query.id = i
    BY <2>2, <2>4 DEF SendsCounted
  <2>6. Head(queue) = QueryPacket(h)
    <3>1. Head(queue).kind = "query"
      BY <2>1 DEF OnQuery
    <3>2. Head(queue) = [kind |-> Head(queue).kind, q |-> Head(queue).q]
      BY <1>2 DEF Packet
    <3> QED
      BY <1>h, <3>1, <3>2 DEF QueryPacket
  <2>7. InFlight(h)'
    BY <2>2, <2>3, <2>4 DEF InFlight
  <2>8. ASSUME NEW q \in Query
        PROVE reported'[q] + Unreported(q)' <= sends'[q]
    <3>0. reported'[q] = reported[q] /\ reported[q] \in Nat /\ q.id \in Id
      BY <1>3, <2>2, QueryParts
    <3>1. CASE q = h
      <4>1. Head(queue) = QueryPacket(q) /\ InFlight(q)'
        BY <2>6, <2>7, <3>1 DEF InFlight
      <4>2. reported'[q] + 1 <= reported[q] + (IF InFlight(q) THEN 1 ELSE 0)
               + IF Head(queue) = QueryPacket(q) /\ ~InFlight(q) THEN 1 ELSE 0
        BY <3>0, <4>1
      <4> QED
        BY <1>4, <4>1, <4>2
    <3>2. CASE q # h
      <4>1. Head(queue) # QueryPacket(q)
        BY <2>6, <3>2 DEF QueryPacket
      <4>2. InFlight(q)' => InFlight(q)
        BY <2>2, <2>4, <3>0, <3>2 DEF InFlight
      <4> QED
        BY <1>4, <3>0, <4>1, <4>2
    <3> QED
      BY <3>1, <3>2
  <2> QED
    BY <2>5, <2>8 DEF SendsCounted
<1>6. CASE OnResponse
  <2> DEFINE ev == pending[h.id]
  <2>1. \A q \in Query : Head(queue) # QueryPacket(q)
    <3>1. Head(queue).kind = "response"
      BY <1>6 DEF OnResponse
    <3>2. \A q \in Query : QueryPacket(q).kind = "query"
      BY DEF QueryPacket
    <3> QED
      BY <3>1, <3>2
  <2>2. CASE ev = None
    <3>1. pending' = pending /\ reported' = reported
      BY <1>h, <1>6, <2>2 DEF OnResponse
    <3>2. \A q \in Query : InFlight(q)' = InFlight(q)
      BY <3>1 DEF InFlight
    <3>3. \A q \in Query : reported'[q] + Unreported(q)' <= sends'[q]
      BY <1>3, <1>4, <2>1, <3>1, <3>2
    <3> QED
      BY <3>1, <3>3 DEF SendsCounted
  <2>3. CASE ev # None
    <3>1. ev \in DnsEvent /\ ev.query \in Query /\ ev.query.id = h.id
      BY <1>2, <1>3, <2>3 DEF SendsCounted, DnsEvent
    <3>2. /\ pending' = [pending EXCEPT ![h.id] = None]
          /\ reported' = IF emit(ev) THEN [reported EXCEPT ![ev.query] = @ + 1] ELSE reported
      BY <1>h, <1>6, <2>3 DEF OnResponse
    <3>3. \A i \in Id : pending'[i] = IF i = h.id THEN None ELSE pending[i]
      BY <1>3, <3>2
    <3>4. ASSUME NEW q \in Query
          PROVE reported'[q] + Unreported(q)' <= sends'[q]
      <4>0. q.id \in Id /\ reported[q] \in Nat
        BY <1>3, QueryParts
      <4>1. CASE q = ev.query
        <5>1. InFlight(q) /\ ~InFlight(q)'
          BY <2>3, <3>1, <3>3, <4>0, <4>1 DEF InFlight
        <5>2. reported'[q] \in Nat /\ reported'[q] <= reported[q] + 1
          BY <1>3, <3>2, <4>1
        <5> QED
          BY <1>4, <2>1, <4>0, <5>1, <5>2
      <4>2. CASE q # ev.query
        <5>1. reported'[q] = reported[q]
          BY <1>3, <3>1, <3>2, <4>2
        <5>2. InFlight(q)' => InFlight(q)
          BY <3>3, <4>0 DEF InFlight
        <5> QED
          BY <1>4, <2>1, <4>0, <5>1, <5>2
      <4> QED
        BY <4>1, <4>2
    <3> QED
      BY <3>3, <3>4 DEF SendsCounted
  <2> QED
    BY <2>2, <2>3
<1> QED
  BY <1>5, <1>6 DEF Tracer

LEMMA CountedInit == Init => SendsCounted
<1> SUFFICES ASSUME Init PROVE SendsCounted
  OBVIOUS
<1>1. TypeOK
  BY InitInv DEF IInv
<1>2. \A i \in Id : pending[i] = None
  BY DEF Init
<1>3. ASSUME NEW q \in Query
      PROVE reported[q] + Unreported(q) <= sends[q]
  <2>1. q.id \in Id /\ reported[q] = 0 /\ sends[q] = 0
    BY QueryParts DEF Init
  <2>2. ~InFlight(q)
    BY <1>2, <2>1 DEF InFlight
  <2>3. Runs(queue, QueryPacket(q), InFlight(q)) = {}
    BY DEF Init, Runs
  <2>4. Unreported(q) = 0
    BY <2>2, <2>3, FS_EmptySet DEF Unreported
  <2> QED
    BY <2>1, <2>4
<1> QED
  BY <1>2, <1>3 DEF SendsCounted

LEMMA CountedStep ==
  ASSUME IInv, IInv', SendsCounted, [Next]_vars
  PROVE SendsCounted'
<1>1. CASE /\ UNCHANGED <<queue, sends, pending, reported>>
  BY <1>1 DEF SendsCounted, Unreported, InFlight, QueryPacket, Runs
<1>2. CASE \E q \in Query, copies \in 0 .. 2 : SendQuery(q, copies) \/ Respond(q, copies)
  BY <1>2, CountedWorld DEF IInv
<1>3. CASE Tracer
  BY <1>3, CountedTracer DEF IInv
<1>4. CASE UNCHANGED vars
  BY <1>1, <1>4 DEF vars, world
<1>5. CASE Tick \/ \E p \in Port, pid \in Pid \cup {0} : Socket(p, pid)
  BY <1>1, <1>5 DEF Tick, Socket
<1> QED
  BY <1>2, <1>3, <1>4, <1>5 DEF Next

\* A query is printed at most once for each time it was sent: every line is paid
\* for by a query in flight, and every query in flight by a send of its own.
THEOREM PrintedOncePerSend == Spec => []ReportedOnce
<1>1. IInv /\ IInv' /\ SendsCounted /\ [Next]_vars => SendsCounted'
  BY CountedStep
<1>2. IInv /\ SendsCounted => ReportedOnce
  <2> SUFFICES ASSUME IInv, SendsCounted, NEW q \in Query PROVE reported[q] <= sends[q]
    BY DEF ReportedOnce
  <2>1. Unreported(q) \in Nat /\ reported[q] \in Nat /\ sends[q] \in Nat
    BY InFlightType DEF IInv
  <2> QED
    BY <2>1 DEF SendsCounted
<1>3. Spec => []SendsCounted
  BY <1>1, CountedInit, CacheInvariant, PTL DEF Spec
<1> QED
  BY <1>2, <1>3, CacheInvariant, PTL

-----------------------------------------------------------------------------
(* DnsParse.                                                               *)

LEMMA TypeCases ==
  \A t \in Types \cup {"other"} :
    /\ t \in DOMAIN Address \/ t \in DOMAIN Named \/ t = "TXT" \/ t = "other"
    /\ t \in DOMAIN Address => Address[t] \in Nat /\ Address[t] > 0 /\ t \notin DOMAIN Named
    /\ t \in DOMAIN Named => Named[t] \in Nat
    /\ t \in {"TXT", "other"} => t \notin DOMAIN Address \cup DOMAIN Named
  BY TypesAssumption DEF Address, Named

LEMMA Lengths == \A l \in Label : LabelLen[l] \in Nat /\ LabelLen[l] > 0
  BY LabelAssumption

NameReturn == [off : Nat, orig : Int, name : Seq(Label), then : {"none", "question", "owner", "named"}, ret : Int]

LEMMA MoveLabel ==
  ASSUME NEW a \in Seq(Label), NEW l \in Label, NEW r \in Seq(Label)
  PROVE Append(a, l) \o r = a \o (<<l>> \o r)
<1>1. <<l>> \in Seq(Label)
  OBVIOUS
<1>2. Append(a, l) = a \o <<l>>
  BY AppendIsConcat
<1>3. (a \o <<l>>) \o r = a \o (<<l>> \o r)
  BY <1>1, ConcatAssociative
<1> QED
  BY <1>2, <1>3

LEMMA NameFacts ==
  ASSUME Values, MessageOK, NEW o \in DOMAIN names
  PROVE /\ o \in DOMAIN msg /\ o \in Nat /\ o < size
        /\ names[o].name \in Seq(Label)
        /\ names[o].after \in Nat /\ o < names[o].after /\ names[o].after <= size
<1>1. o \in DOMAIN msg /\ names[o] \in [name : Seq(Label), after : o + 1 .. size]
  BY DEF MessageOK, NameOK
<1>2. o \in Nat /\ o < size /\ size \in Nat
  BY <1>1 DEF Values
<1>3. names[o].name \in Seq(Label) /\ names[o].after \in o + 1 .. size
  BY <1>1
<1> QED
  BY <1>1, <1>2, <1>3

\* read_name keeps to the name it was called for.
LEMMA NameStep ==
  ASSUME Values, MessageOK, InBounds, read_name, NEW s, NameAt(s)
  PROVE /\ NameAt(s)'
        /\ pc' \in {"name", nm.then} /\ nm'.then = nm.then
        /\ nm' \in NameReturn /\ nm'.off <= size
        /\ top' \in Nat /\ top' <= len
<1> USE DEF Touch
<1>0. /\ pc = "name" /\ names' = names /\ len' = len
      /\ nm \in NameReturn /\ nm.off \in 0 .. size /\ len \in 0 .. size /\ size \in Nat
      /\ top \in Nat /\ top <= len
  BY DEF read_name, message, Values, ParseTypeOK, NameReturn, InBounds
<1>1. /\ s \in DOMAIN names /\ nm.off \in DOMAIN names
      /\ nm.name \o names[nm.off].name = names[s].name
      /\ names[nm.off].after <= names[s].after
      /\ names[s].after = IF nm.orig = -1 THEN names[nm.off].after ELSE nm.orig
  BY <1>0 DEF NameAt, Reading
<1>2. NameOK(nm.off) /\ NameOK(s)
  BY <1>1 DEF MessageOK
<1>3. /\ names[nm.off].name \in Seq(Label) /\ names[nm.off].after \in Nat
      /\ nm.off < names[nm.off].after /\ names[nm.off].after <= size
      /\ names[s].after \in Nat /\ names[s].after <= size /\ names[s].name \in Seq(Label)
  BY <1>1, NameFacts
<1>4. ASSUME NameReturns(-1), len < names[s].after, top' \in Nat, top' <= len
      PROVE /\ NameAt(s)'
            /\ pc' \in {"name", nm.then} /\ nm'.then = nm.then
            /\ nm' \in NameReturn /\ nm'.off <= size
            /\ top' \in Nat /\ top' <= len
  <2>1. pc' = nm.then /\ nm' = [nm EXCEPT !.ret = -1]
    BY <1>4 DEF NameReturns
  <2>2. /\ nm'.ret = -1 /\ nm'.then = nm.then /\ nm'.off = nm.off /\ pc' # "name"
        /\ nm' \in NameReturn
    BY <1>0, <2>1 DEF NameReturn
  <2>3. QED
    <3>1. HasRead(s)'
      BY <1>0, <1>4, <2>2 DEF HasRead
    <3>2. NameAt(s)'
      BY <1>0, <1>1, <2>2, <3>1 DEF NameAt
    <3> QED
      BY <1>0, <1>4, <2>1, <2>2, <3>2
<1>5. CASE nm.off >= len /\ NameReturns(-1) /\ UNCHANGED top
  BY <1>0, <1>1, <1>3, <1>4, <1>5
<1>6. CASE nm.off < len /\ NameEnd
  <2>1. /\ msg[nm.off].t = "end" /\ top' \in Nat /\ top' <= len
        /\ NameReturns(IF nm.orig = -1 THEN nm.off + 1 ELSE nm.orig)
    BY <1>0, <1>6 DEF NameEnd, NameReturn
  <2>2. names[nm.off].name = <<>> /\ names[nm.off].after = nm.off + 1
    BY <1>2, <2>1 DEF NameOK, IsLabel
  <2>3. nm.name = names[s].name
    BY <1>0, <1>1, <2>2, ConcatEmptySeq DEF NameReturn
  <2>4. names[s].after = IF nm.orig = -1 THEN nm.off + 1 ELSE nm.orig
    BY <1>1, <2>2
  <2>5. QED
    <3>0. PICK r \in Nat : r = names[s].after
      BY <1>3
    <3>1. pc' = nm.then /\ nm' = [nm EXCEPT !.ret = r]
      BY <2>1, <2>4, <3>0 DEF NameReturns
    <3>2. /\ nm'.ret = r /\ nm'.then = nm.then /\ nm'.off = nm.off
          /\ nm'.name = nm.name /\ pc' # "name" /\ nm' \in NameReturn
      BY <1>0, <3>1 DEF NameReturn
    <3>3. QED
      <4>1. HasRead(s)'
        BY <1>0, <2>3, <3>0, <3>2 DEF HasRead
      <4>2. NameAt(s)'
        BY <1>0, <1>1, <3>2, <4>1 DEF NameAt
      <4> QED
        BY <1>0, <2>1, <3>1, <3>2, <4>2
<1>7. CASE nm.off < len /\ NamePointer
  <2>1. /\ msg[nm.off].t = "pointer"
    BY <1>7 DEF NamePointer
  <2>2. /\ msg[nm.off].to \in DOMAIN names
        /\ names[msg[nm.off].to].after <= nm.off
        /\ names[nm.off] = [name |-> names[msg[nm.off].to].name, after |-> nm.off + 2]
    BY <1>2, <2>1 DEF NameOK, IsLabel
  <2>3. CASE nm.off + 2 > len
    <3>1. NameReturns(-1) /\ UNCHANGED top
      BY <1>0, <2>3, <1>7 DEF NamePointer, NameReturn
    <3> QED
      BY <1>0, <1>1, <1>3, <1>4, <2>2, <2>3, <3>1
  <2>4. CASE nm.off + 2 <= len
    <3>1. /\ Touch(nm.off + 2) /\ Follow(IF nm.orig = -1 THEN nm.off + 2 ELSE nm.orig)
      BY <1>0, <2>4, <1>7 DEF NamePointer, NameReturn
    <3>2. PICK o \in DOMAIN names : o = msg[nm.off].to
      BY <2>2
    <3>3. NameOK(o)
      BY DEF MessageOK
    <3>4. o \in Nat /\ o < names[o].after /\ names[o].after \in Nat
      BY NameFacts
    <3>5. /\ nm' = [nm EXCEPT !.orig = IF nm.orig = -1 THEN nm.off + 2 ELSE nm.orig, !.off = o]
          /\ pc' = pc
      BY <3>1, <3>2 DEF Follow
    <3>6. names[o].name = names[nm.off].name /\ names[o].after <= names[nm.off].after
      BY <1>0, <1>3, <2>2, <3>2, <3>4
    <3>7. QED
      <4>0. PICK g \in Int : g = IF nm.orig = -1 THEN nm.off + 2 ELSE nm.orig
        BY <1>0 DEF NameReturn
      <4>1. /\ nm'.off = o /\ nm'.name = nm.name /\ nm'.then = nm.then
            /\ nm'.orig = g /\ nm' \in NameReturn
        BY <1>0, <3>4, <3>5, <4>0 DEF NameReturn
      <4>2. nm'.orig # -1 /\ nm'.orig = names[s].after
        BY <1>0, <1>1, <2>2, <4>0, <4>1 DEF NameReturn
      <4>3. top' \in Nat /\ top' <= len
        BY <1>0, <2>4, <3>1 DEF NameReturn
      <4>4. NameAt(s)'
        <5>1. Reading(s)'
          <6>1. nm'.name \o names[nm'.off].name = names[s].name
            BY <1>1, <3>6, <4>1
          <6>2. nm'.off \in DOMAIN names /\ names[nm'.off].after <= names[s].after
            BY <1>1, <1>3, <3>4, <3>6, <4>1
          <6> QED
            BY <1>0, <4>2, <6>1, <6>2 DEF Reading
        <5> QED
          BY <1>0, <1>1, <3>5, <5>1 DEF NameAt
      <4>5. nm'.off <= size
        <5>1. o \in Nat /\ o < size
          BY NameFacts
        <5> QED
          BY <1>0, <4>1, <5>1
      <4> QED
        BY <1>0, <3>5, <4>1, <4>3, <4>4, <4>5
  <2> QED
    BY <1>0, <2>3, <2>4 DEF NameReturn
<1>8. CASE nm.off < len /\ NameLabel
  <2>1. PICK l, n : l = msg[nm.off].label /\ n = nm.off + 1 + LabelLen[l]
    OBVIOUS
  <2>2. msg[nm.off].t = "label"
    BY <1>8 DEF NameLabel
  <2>3. /\ l \in Label /\ n \in DOMAIN names
        /\ names[nm.off].name = <<l>> \o names[n].name
        /\ names[nm.off].after = names[n].after
    BY <1>2, <2>1, <2>2 DEF NameOK, IsLabel, Beyond
  <2>4. NameOK(n)
    BY <2>3 DEF MessageOK
  <2>5. n \in Nat /\ n < names[n].after /\ names[n].name \in Seq(Label)
    BY <2>3, NameFacts
  <2>6. CASE n > len
    <3>1. NameReturns(-1) /\ Touch(nm.off + 1)
      BY <1>0, <1>8, <2>1, <2>5, <2>6 DEF NameLabel
    <3> QED
      BY <1>0, <1>1, <1>3, <1>4, <1>8, <2>3, <2>5, <2>6, <3>1
  <2>7. CASE n <= len
    <3>1. Touch(n) /\ nm' = [nm EXCEPT !.off = n, !.name = Append(nm.name, l)] /\ pc' = pc
      BY <1>0, <1>8, <2>1, <2>5, <2>7 DEF NameLabel
    <3>2. nm.name \in Seq(Label) /\ Append(nm.name, l) \in Seq(Label)
      BY <1>0, <2>3 DEF NameReturn
    <3>3. Append(nm.name, l) \o names[n].name = names[s].name
      <4>1. PICK a \in Seq(Label), r \in Seq(Label) : a = nm.name /\ r = names[n].name
        BY <2>5, <3>2
      <4>2. Append(a, l) \o r = a \o (<<l>> \o r)
        BY <2>3, MoveLabel
      <4> QED
        BY <1>1, <2>3, <4>1, <4>2
    <3>4. QED
      <4>1. /\ nm'.off = n /\ nm'.name = Append(nm.name, l) /\ nm'.then = nm.then
            /\ nm'.orig = nm.orig /\ nm' \in NameReturn
        BY <1>0, <2>5, <3>1, <3>2 DEF NameReturn
      <4>2. top' \in Nat /\ top' <= len
        BY <1>0, <2>5, <2>7, <3>1
      <4>3. NameAt(s)'
        <5>1. Reading(s)'
          BY <1>0, <1>1, <2>3, <3>3, <4>1 DEF Reading
        <5> QED
          BY <1>0, <1>1, <3>1, <5>1 DEF NameAt
      <4> QED
        BY <1>0, <2>5, <2>7, <3>1, <4>1, <4>2, <4>3
  <2> QED
    BY <1>0, <2>5, <2>6, <2>7
<1> QED
  BY <1>5, <1>6, <1>7, <1>8 DEF read_name

-----------------------------------------------------------------------------
(* The parser's steps: the message stays.                                  *)

Steps == Values' /\ InBounds' /\ TaskOK' /\ Recovers' /\ SaysPrefix'

LEMMA MessageSame ==
  ASSUME ParseIInv, UNCHANGED message, pc \notin {"ask", "rdata"}, pc' \notin {"ask", "rdata"}
  PROVE MessageOK' /\ ResolverOK'
<1>0. /\ msg' = msg /\ size' = size /\ open' = open /\ names' = names /\ start' = start
      /\ count' = count /\ sent' = sent /\ recs' = recs /\ data' = data
  BY DEF message
<1>1. MessageOK'
  <2>1. \A o : /\ NameOK(o) => NameOK(o)'
               /\ RecordOK(o) => RecordOK(o)'
               /\ DatumOK(o) => DatumOK(o)'
    BY <1>0 DEF NameOK, RecordOK, Followed, DatumOK, IsLabel, Beyond, RdEnd, Says
  <2> QED
    BY <1>0, <2>1 DEF ParseIInv, MessageOK
<1>2. ResolverOK'
  BY <1>0 DEF ParseIInv, ResolverOK, QuestionOK
<1> QED
  BY <1>1, <1>2

LEMMA Calls ==
  ASSUME Values, MessageOK, NEW s \in DOMAIN names,
         NEW t \in {"question", "owner", "named"}, nm' = Call(s, t), names' = names
  PROVE /\ Reading(s)' /\ nm'.then = t /\ nm' \in NameReturn /\ nm'.off <= size
<1>1. /\ s \in Nat /\ s < size /\ names[s].name \in Seq(Label) /\ names[s].after \in Nat
      /\ size \in Nat
  BY NameFacts DEF Values
<1>2. /\ nm'.off = s /\ nm'.then = t /\ nm'.orig = -1 /\ nm'.name = <<>>
      /\ nm' \in NameReturn
  BY <1>1 DEF Call, NameReturn
<1>3. <<>> \o names[s].name = names[s].name
  BY <1>1, ConcatEmptySeq
<1> QED
  BY <1>1, <1>2, <1>3 DEF Reading

LEMMA ReadStep ==
  ASSUME ParseIInv, read_name
  PROVE Steps
<1> DEFINE at == CASE nm.then = "question" -> 12
                  [] nm.then = "owner" -> off
                  [] nm.then = "named" -> rr.rdoff + Named[rr.type]
<1>1. /\ pc = "name" /\ nm.then \in {"question", "owner", "named"}
      /\ UNCHANGED message /\ UNCHANGED <<len, off, ai, rr, txt, result>>
  BY DEF read_name, ParseIInv, Values, TaskOK, Task
<1>2. PICK s : s = at
  OBVIOUS
<1>12. NameAt(s)
  BY <1>1, <1>2 DEF ParseIInv, TaskOK, Task
<1> HIDE DEF at
<1>3. /\ NameAt(s)'
      /\ pc' \in {"name", nm.then} /\ nm'.then = nm.then
      /\ nm' \in NameReturn /\ nm'.off <= size
      /\ top' \in Nat /\ top' <= len
  BY <1>12, NameStep DEF ParseIInv
<1>4. at' = s
  BY <1>1, <1>2, <1>3 DEF at
<1>5. Values' /\ InBounds'
  <2>1. ParseTypeOK'
    BY <1>1, <1>3 DEF ParseIInv, Values, ParseTypeOK, message, result, NameReturn
  <2>2. InBounds'
    BY <1>1, <1>3 DEF InBounds
  <2> QED
    BY <1>1, <1>3, <2>1, <2>2 DEF ParseIInv, Values, message, result, NameReturn
<1>6. Task' = nm.then /\ Task = nm.then
  BY <1>1, <1>3 DEF Task
<1>7. /\ Between => Between'
      /\ InData(rr.rdoff) => InData(rr.rdoff)'
  BY <1>1 DEF Between, InData, Kept, asked, message, result
<1>8. TaskOK'
  BY <1>1, <1>3, <1>4, <1>6, <1>7 DEF TaskOK, at, ParseIInv, result, message
<1>9. Recovers' /\ SaysPrefix'
  BY <1>1, <1>3 DEF Recovers, SaysPrefix
<1> QED
  BY <1>5, <1>8, <1>9 DEF Steps

LEMMA PacketStep ==
  ASSUME ParseIInv, ParsePacket
  PROVE Steps
<1>1. PICK ihl \in {20, 24, 40} : \E flen \in 0 .. 14 + ihl + 8 + size :
        LET iplen == flen - 14
            whole == flen >= 14 /\ iplen >= ihl + 8
        IN /\ len' = IF whole THEN iplen - ihl - 8 ELSE 0
           /\ pc' = IF whole THEN "header" ELSE "done"
  BY DEF ParsePacket
<1>2. pc = "write" /\ UNCHANGED message /\ UNCHANGED <<off, ai, nm, rr, txt, result, top>>
  BY DEF ParsePacket
<1>3. size \in Nat /\ size > 12
  <2>1. 12 \in DOMAIN names
    BY <1>2 DEF ParseIInv, ResolverOK, QuestionOK
  <2> QED
    BY <2>1, NameFacts DEF ParseIInv, Values
<1>4. len' \in 0 .. size /\ pc' \in {"header", "done"} /\ (pc' = "done" => len' = 0)
  BY <1>1, <1>3
<1>5. off = 0 /\ ai = 0 /\ answers = <<>> /\ ~ok /\ question = <<>> /\ top = 0
  BY <1>2 DEF ParseIInv, TaskOK, Task
<1>6. Values' /\ InBounds'
  BY <1>2, <1>3, <1>4, <1>5 DEF ParseIInv, Values, ParseTypeOK, message, result, InBounds
<1>7. TaskOK'
  BY <1>2, <1>4, <1>5 DEF TaskOK, Task, result
<1>8. Recovers' /\ SaysPrefix'
  BY <1>2, <1>3, <1>4, <1>5 DEF Recovers, SaysPrefix, result, message
<1> QED
  BY <1>6, <1>7, <1>8 DEF Steps

LEMMA HeaderStep ==
  ASSUME ParseIInv, ParseHeader
  PROVE Steps
<1>1. /\ pc = "header" /\ UNCHANGED message /\ UNCHANGED <<len, ai, rr, txt>>
      /\ off = 0 /\ ai = 0 /\ answers = <<>> /\ ~ok /\ question = <<>> /\ top = 0
  BY DEF ParseIInv, TaskOK, Task, ParseHeader
<1>2. 12 \in DOMAIN names /\ size > 12 /\ size \in Nat /\ len \in 0 .. size
  <2>1. 12 \in DOMAIN names
    BY <1>1 DEF ParseIInv, ResolverOK, QuestionOK
  <2> QED
    BY <2>1, NameFacts DEF ParseIInv, Values, ParseTypeOK
<1>3. CASE len < 12
  <2>1. Return(FALSE) /\ UNCHANGED <<off, nm, top>>
    BY <1>2, <1>3 DEF ParseHeader, Return, Touch
  <2>2. Values' /\ InBounds'
    BY <1>1, <2>1 DEF ParseIInv, Values, ParseTypeOK, message, InBounds, Return
  <2>3. TaskOK'
    BY <2>1 DEF TaskOK, Task, Return
  <2>4. Recovers' /\ SaysPrefix'
    BY <1>1, <1>2, <1>3, <2>1 DEF Recovers, SaysPrefix, Return, message
  <2> QED
    BY <2>2, <2>3, <2>4 DEF Steps
<1>4. CASE len >= 12
  <2>1. /\ pc' = "name" /\ off' = 12 /\ nm' = Call(12, "question") /\ top' = 12 /\ UNCHANGED result
    BY <1>1, <1>2, <1>4 DEF ParseHeader, Return, Touch
  <2>2. /\ Reading(12)' /\ nm'.then = "question" /\ nm' \in NameReturn /\ nm'.off <= size
    BY <1>1, <1>2, <2>1, Calls DEF ParseIInv, message
  <2>3. Values' /\ InBounds'
    BY <1>1, <1>2, <1>4, <2>1, <2>2
       DEF ParseIInv, Values, ParseTypeOK, message, result, InBounds, NameReturn
  <2>4. TaskOK'
    BY <1>1, <1>2, <2>1, <2>2 DEF TaskOK, Task, NameAt, result, message
  <2>5. Recovers' /\ SaysPrefix'
    BY <2>1 DEF Recovers, SaysPrefix
  <2> QED
    BY <2>3, <2>4, <2>5 DEF Steps
<1> QED
  BY <1>2, <1>3, <1>4

LEMMA RecFacts ==
  ASSUME Values, MessageOK, NEW o \in DOMAIN recs
  PROVE /\ o \in Nat /\ o <= start /\ o <= size
        /\ recs[o].rec \in Nat /\ recs[o].rec <= count
        /\ recs[o].said \in Nat /\ recs[o].said <= Len(sent)
        /\ Len(sent) \in Nat /\ count \in Nat
<1>1. /\ recs[o] \in [rec : 0 .. count, said : 0 .. Len(sent)] /\ o \in 0 .. start
  BY DEF MessageOK, RecordOK
<1>2. /\ size \in Nat /\ start \in Nat /\ start <= size /\ count \in Nat /\ Len(sent) \in Nat
  BY BoundAssumption DEF Values, ParseTypeOK
<1>3. recs[o].rec \in 0 .. count /\ recs[o].said \in 0 .. Len(sent)
  BY <1>1
<1> QED
  BY <1>1, <1>2, <1>3

LEMMA DataFacts ==
  ASSUME Values, MessageOK, NEW o \in DOMAIN data
  PROVE /\ o \in Nat /\ o <= data[o].end
        /\ data[o].type \in Types /\ data[o].end \in DOMAIN recs
        /\ data[o].said \in Nat /\ data[o].said <= Len(sent)
        /\ data[o].end \in Nat /\ data[o].end <= size
<1>1. /\ data[o] \in [type : Types, said : 0 .. Len(sent), end : DOMAIN recs]
      /\ o \in 0 .. data[o].end
  BY DEF MessageOK, DatumOK
<1>2. data[o].type \in Types /\ data[o].said \in 0 .. Len(sent) /\ data[o].end \in DOMAIN recs
  BY <1>1
<1>3. data[o].end \in Nat /\ data[o].end <= size /\ Len(sent) \in Nat
  BY <1>2, RecFacts
<1> QED
  BY <1>1, <1>2, <1>3

LEMMA Adds ==
  ASSUME Values, NEW n \in Nat, n < Len(sent), NEW a, a = sent[n + 1], Kept(n), add_answer(a),
         sent' = sent
  PROVE Kept(n + 1)' /\ answers' \in Seq(Answer) /\ Len(answers') <= MAX_ANS
<1>1. /\ sent \in Seq(Answer) /\ answers \in Seq(Answer) /\ MAX_ANS \in Nat /\ Len(answers) <= MAX_ANS
      /\ Len(answers) \in Nat /\ Len(sent) \in Nat
  BY BoundAssumption DEF Values, ParseTypeOK
<1>2. a \in Answer
  BY <1>1
<1>3. CASE Len(answers) < MAX_ANS
  <2>1. answers' = Append(answers, a) /\ Len(answers) = n
    BY <1>1, <1>3 DEF add_answer, Kept
  <2>2. /\ answers' \in Seq(Answer) /\ Len(answers') = n + 1
        /\ \A j \in 1 .. n : answers'[j] = answers[j]
        /\ answers'[n + 1] = a
    BY <1>1, <1>2, <2>1, AppendProperties
  <2>3. \A j \in 1 .. n + 1 : answers'[j] = sent[j]
    BY <2>1, <2>2 DEF Kept
  <2> QED
    BY <1>1, <1>3, <2>1, <2>2, <2>3 DEF Kept
<1>4. CASE ~(Len(answers) < MAX_ANS)
  <2>1. answers' = answers
    BY <1>4 DEF add_answer
  <2> QED
    BY <1>1, <1>4, <2>1 DEF Kept
<1> QED
  BY <1>3, <1>4

\* What is kept when the parse ends.
LEMMA Ends ==
  ASSUME Values, NEW n \in Nat, n <= Len(sent), Kept(n), question = asked, Return(TRUE),
         len = size => n = Len(sent), UNCHANGED message, len' = len
  PROVE Recovers' /\ SaysPrefix'
<1>1. /\ sent \in Seq(Answer) /\ answers \in Seq(Answer) /\ MAX_ANS \in Nat
      /\ Len(answers) \in Nat /\ Len(sent) \in Nat
  BY BoundAssumption DEF Values
<1>2. /\ names' = names /\ sent' = sent /\ size' = size
      /\ answers' = answers /\ question' = question /\ ok' = TRUE
  BY DEF message, Return
<1>3. Len(answers) <= Len(sent) /\ \A j \in 1 .. Len(answers) : answers[j] = sent[j]
  BY <1>1 DEF Kept
<1>4. answers = SubSeq(sent, 1, Len(answers))
  <2>1. /\ SubSeq(sent, 1, Len(answers)) \in Seq(Answer)
        /\ Len(SubSeq(sent, 1, Len(answers))) = Len(answers)
        /\ \A j \in 1 .. Len(answers) : SubSeq(sent, 1, Len(answers))[j] = sent[j]
    BY <1>1, <1>3
  <2> QED
    BY <1>1, <1>3, <2>1, SeqEqual
<1>5. question' = asked'
  BY <1>2 DEF asked
<1>6. SaysPrefix'
  BY <1>2, <1>3, <1>4, <1>5 DEF SaysPrefix, IsPrefixOf
<1>7. len = size => Len(answers) = IF Len(sent) < MAX_ANS THEN Len(sent) ELSE MAX_ANS
  BY DEF Kept
<1>8. Recovers'
  BY <1>2, <1>4, <1>5, <1>7 DEF Recovers
<1> QED
  BY <1>6, <1>8

LEMMA QuestionStep ==
  ASSUME ParseIInv, ParseQuestion
  PROVE Steps
<1>1. /\ pc = "question" /\ UNCHANGED message /\ UNCHANGED <<len, ai, rr, txt>>
      /\ nm' = idle.nm
      /\ ai = 0 /\ answers = <<>> /\ ~ok /\ NameAt(12)
  BY DEF ParseIInv, TaskOK, Task, ParseQuestion
<1>2. /\ 12 \in DOMAIN names /\ names[12].after + 4 \in DOMAIN recs
      /\ recs[names[12].after + 4] = [rec |-> 0, said |-> 0]
  BY <1>1 DEF ParseIInv, ResolverOK, QuestionOK
<1>3. /\ size \in Nat /\ len \in 0 .. size /\ names[12].after \in Nat /\ names[12].after + 4 <= size
      /\ names[12].name \in Seq(Label)
  BY <1>2, NameFacts, RecFacts DEF ParseIInv, Values, ParseTypeOK
<1>4. HasRead(12)
  BY <1>1 DEF NameAt
<1>5. nm' \in NameReturn /\ nm'.off = 0
  BY <1>1 DEF idle, Call, NameReturn
<1>6. CASE nm.ret = -1 \/ nm.ret + 4 > len
  <2>1. Return(FALSE) /\ UNCHANGED <<off, top>>
    BY <1>3, <1>4, <1>6 DEF ParseQuestion, HasRead, Return, Touch
  <2>2. len < size
    BY <1>3, <1>4, <1>6 DEF HasRead
  <2>3. Values' /\ InBounds'
    <3>1. ParseTypeOK' /\ InBounds'
      <4>1. ParseTypeOK'
        <5>1. /\ pc' = "done" /\ ok' = FALSE /\ question' = question /\ answers' = answers
              /\ off' = off /\ len' = len /\ ai' = ai /\ count' = count /\ size' = size
              /\ nm'.off \in 0 .. size
          BY <1>1, <1>3, <1>5, <2>1 DEF message, Return
        <5> QED
          BY <5>1 DEF ParseIInv, Values, ParseTypeOK
      <4>2. InBounds'
        BY <1>1, <2>1 DEF ParseIInv, InBounds
      <4> QED
        BY <4>1, <4>2
    <3> QED
      BY <1>1, <1>5, <2>1, <3>1 DEF ParseIInv, Values, message, Return, NameReturn
  <2>4. TaskOK'
    BY <2>1 DEF TaskOK, Task, Return
  <2>5. Recovers' /\ SaysPrefix'
    BY <1>1, <1>3, <2>1, <2>2 DEF Recovers, SaysPrefix, Return, message
  <2> QED
    BY <2>3, <2>4, <2>5 DEF Steps
<1>7. CASE ~(nm.ret = -1 \/ nm.ret + 4 > len)
  <2>1. nm.ret = names[12].after /\ nm.name = names[12].name /\ names[12].after + 4 <= len
    BY <1>3, <1>4, <1>7 DEF HasRead
  <2>2. /\ off' = names[12].after + 4 /\ question' = names[12].name /\ pc' = "answer"
        /\ Touch(names[12].after + 4) /\ UNCHANGED <<answers, ok>>
    BY <1>3, <1>7, <2>1 DEF ParseQuestion
  <2>3. /\ off' \in 0 .. len /\ question' \in Seq(Label) /\ top' \in Nat /\ top' <= len
    <3>1. top \in Nat /\ top <= len
      BY DEF ParseIInv, InBounds, Values
    <3> QED
      BY <1>3, <2>1, <2>2, <3>1 DEF Touch
  <2>4. Values' /\ InBounds'
    <3>1. ParseTypeOK' /\ InBounds'
      BY <1>1, <1>3, <1>5, <2>2, <2>3 DEF ParseIInv, Values, ParseTypeOK, message, InBounds
    <3> QED
      BY <1>1, <1>5, <2>2, <2>3, <3>1 DEF ParseIInv, Values, message, NameReturn
  <2>5. Between'
    <3>1. off' \in DOMAIN recs /\ recs[off'].rec = 0 /\ recs[off'].said = 0
      BY <1>2, <2>2
    <3>2. Len(answers) = 0 /\ MAX_ANS \in Nat
      BY <1>1, BoundAssumption
    <3>3. Kept(0)'
      BY <2>2, <3>2 DEF Kept
    <3> QED
      BY <1>1, <2>2, <3>1, <3>3 DEF Between, asked, message
  <2>6. TaskOK'
    BY <2>2, <2>5 DEF TaskOK, Task
  <2>7. Recovers' /\ SaysPrefix'
    BY <2>2 DEF Recovers, SaysPrefix
  <2> QED
    BY <2>4, <2>6, <2>7 DEF Steps
<1> QED
  BY <1>6, <1>7

LEMMA NextAnswerStep ==
  ASSUME ParseIInv, NextAnswer
  PROVE Steps
<1>1. /\ pc = "answer" /\ UNCHANGED message /\ UNCHANGED <<len, off, ai, rr, txt, top>>
      /\ off \in DOMAIN recs /\ recs[off].rec = ai /\ Kept(recs[off].said) /\ question = asked
  BY DEF ParseIInv, TaskOK, Task, NextAnswer, Between
<1>2. /\ RecordOK(off) /\ ai \in 0 .. count /\ count \in Nat
      /\ recs[off].said \in Nat /\ recs[off].said <= Len(sent)
  BY <1>1, RecFacts DEF ParseIInv, MessageOK, Values, ParseTypeOK
<1>3. CASE ai = count
  <2>1. Return(TRUE) /\ UNCHANGED nm
    BY <1>2, <1>3 DEF NextAnswer, Return
  <2>2. recs[off].said = Len(sent)
    <3>1. off = start
      BY <1>1, <1>2, <1>3 DEF RecordOK
    <3> QED
      BY <1>1, <3>1 DEF ParseIInv, ResolverOK
  <2>3. Recovers' /\ SaysPrefix'
    <3>1. PICK n \in Nat : n = recs[off].said
      BY <1>2
    <3>2. Kept(n) /\ n <= Len(sent) /\ n = Len(sent)
      BY <1>1, <1>2, <2>2, <3>1
    <3> QED
      BY <1>1, <2>1, <3>2, Ends DEF ParseIInv
  <2>4. Values' /\ InBounds'
    BY <1>1, <2>1 DEF ParseIInv, Values, ParseTypeOK, message, InBounds, Return
  <2>5. TaskOK'
    BY <2>1 DEF TaskOK, Task, Return
  <2> QED
    BY <2>3, <2>4, <2>5 DEF Steps
<1>4. CASE ai < count
  <2>1. pc' = "name" /\ nm' = Call(off, "owner") /\ UNCHANGED result
    BY <1>2, <1>4 DEF NextAnswer, Return
  <2>2. off \in DOMAIN names
    BY <1>1, <1>2, <1>4 DEF RecordOK, Followed
  <2>3. PICK s \in DOMAIN names : s = off
    BY <2>2
  <2>4. Reading(s)' /\ nm'.then = "owner" /\ nm' \in NameReturn /\ nm'.off <= size
    BY <1>1, <2>1, <2>3, Calls DEF ParseIInv, message
  <2>5. Values' /\ InBounds'
    <3>1. ParseTypeOK' /\ InBounds'
      BY <1>1, <2>1, <2>4 DEF ParseIInv, Values, ParseTypeOK, message, result, InBounds, NameReturn
    <3> QED
      BY <1>1, <2>1, <2>4, <3>1 DEF ParseIInv, Values, message, result, NameReturn
  <2>6. NameAt(off)'
    BY <1>1, <2>1, <2>3, <2>4 DEF NameAt, message
  <2>7. Between'
    BY <1>1, <2>1 DEF Between, Kept, asked, message, result
  <2>8. TaskOK'
    BY <1>1, <1>4, <2>1, <2>4, <2>6, <2>7 DEF TaskOK, Task, message
  <2>9. Recovers' /\ SaysPrefix'
    BY <2>1 DEF Recovers, SaysPrefix
  <2> QED
    BY <2>5, <2>8, <2>9 DEF Steps
<1> QED
  BY <1>2, <1>3, <1>4

LEMMA RecordStep ==
  ASSUME ParseIInv, ParseRecord
  PROVE Steps
<1>1. /\ pc = "owner" /\ UNCHANGED message /\ UNCHANGED <<len, ai, txt>> /\ nm' = idle.nm
      /\ off \in DOMAIN recs /\ recs[off].rec = ai /\ Kept(recs[off].said) /\ question = asked
      /\ NameAt(off) /\ ai < count
  BY DEF ParseIInv, TaskOK, Task, ParseRecord, Between
<1>2. PICK f : f = names[off].after
  OBVIOUS
<1>3. /\ off \in DOMAIN names /\ f + 10 \in DOMAIN data
      /\ data[f + 10] = [type |-> msg[f].type, said |-> recs[off].said, end |-> RdEnd(f)]
      /\ msg[f].rdlen \in Nat
      /\ recs[RdEnd(f)].rec = ai + 1
  BY <1>1, <1>2 DEF ParseIInv, MessageOK, RecordOK, Followed
<1>4. /\ f \in Nat /\ RdEnd(f) \in Nat /\ f + 10 <= RdEnd(f) /\ RdEnd(f) <= size
      /\ RdEnd(f) \in DOMAIN recs /\ msg[f].type \in Types
      /\ recs[off].said \in Nat /\ recs[off].said <= Len(sent)
      /\ size \in Nat /\ len \in 0 .. size
  <2>1. f \in Nat
    BY <1>2, <1>3, NameFacts DEF ParseIInv
  <2>2. /\ data[f + 10].end \in DOMAIN recs /\ f + 10 <= data[f + 10].end /\ data[f + 10].end <= size
        /\ data[f + 10].end \in Nat /\ data[f + 10].type \in Types
    BY <1>3, DataFacts DEF ParseIInv
  <2>3. data[f + 10].end = RdEnd(f) /\ data[f + 10].type = msg[f].type
    BY <1>3
  <2>4. recs[off].said \in Nat /\ recs[off].said <= Len(sent)
    BY <1>1, RecFacts DEF ParseIInv
  <2> QED
    BY <2>1, <2>2, <2>3, <2>4 DEF ParseIInv, Values, ParseTypeOK
<1>5. (nm.ret = -1 /\ len < f) \/ nm.ret = f
  BY <1>1, <1>2 DEF NameAt, HasRead
<1>6. nm' \in NameReturn /\ nm'.off = 0
  BY <1>1 DEF idle, Call, NameReturn
<1>7. ASSUME Return(TRUE), UNCHANGED <<off, rr>>, top' \in Nat, top' <= len, len < size
      PROVE Steps
  <2>1. Recovers' /\ SaysPrefix'
    <3>1. PICK n \in Nat : n = recs[off].said
      BY <1>4
    <3>2. Kept(n) /\ n <= Len(sent)
      BY <1>1, <1>4, <3>1
    <3>3. len # size
      BY <1>4, <1>7
    <3> QED
      BY <1>1, <1>7, <3>2, <3>3, Ends DEF ParseIInv
  <2>2. Values' /\ InBounds'
    <3>1. ParseTypeOK' /\ InBounds'
      BY <1>1, <1>4, <1>6, <1>7 DEF ParseIInv, Values, ParseTypeOK, message, InBounds, Return
    <3> QED
      BY <1>1, <1>6, <1>7, <3>1 DEF ParseIInv, Values, message, Return, NameReturn
  <2>3. TaskOK'
    BY <1>7 DEF TaskOK, Task, Return
  <2> QED
    BY <2>1, <2>2, <2>3 DEF Steps
<1>8. top \in Nat /\ top <= len
  BY DEF ParseIInv, Values, InBounds
<1>9. CASE nm.ret = -1 \/ nm.ret + 10 > len
  <2>1. Return(TRUE) /\ UNCHANGED <<off, rr, top>>
    BY <1>4, <1>5, <1>9 DEF ParseRecord, Return, Touch
  <2>2. len < size
    BY <1>4, <1>5, <1>9
  <2> QED
    BY <1>7, <1>8, <2>1, <2>2
<1>10. CASE nm.ret = f /\ f + 10 <= len /\ ~Fits(RdEnd(f))
  <2>1. Return(TRUE) /\ UNCHANGED <<off, rr>> /\ Touch(f + 10)
    BY <1>4, <1>10 DEF ParseRecord, Return, Touch
  <2>2. top' \in Nat /\ top' <= len
    BY <1>4, <1>8, <1>10, <2>1 DEF Touch
  <2>3. len < size
    BY <1>4, <1>10 DEF Fits
  <2> QED
    BY <1>7, <2>1, <2>2, <2>3
<1>11. CASE nm.ret = f /\ f + 10 <= len /\ Fits(RdEnd(f))
  <2>1. /\ Touch(f + 10) /\ off' = RdEnd(f) /\ pc' = "data" /\ UNCHANGED result
        /\ rr' = [type |-> msg[f].type, rdlen |-> msg[f].rdlen, rdoff |-> f + 10]
    BY <1>4, <1>11 DEF ParseRecord, Return, Touch
  <2>2. top' \in Nat /\ top' <= len /\ off' \in 0 .. len
    BY <1>4, <1>8, <1>11, <2>1 DEF Touch, Fits
  <2>3. /\ rr' \in [type : Types \cup {"other"}, rdlen : Nat, rdoff : Nat]
        /\ rr'.rdoff = f + 10 /\ rr'.rdlen = msg[f].rdlen /\ rr'.type = msg[f].type
    BY <1>3, <1>4, <2>1
  <2>4. Values' /\ InBounds'
    <3>1. ParseTypeOK' /\ InBounds'
      BY <1>1, <1>4, <1>6, <2>1, <2>2 DEF ParseIInv, Values, ParseTypeOK, message, result, InBounds
    <3> QED
      BY <1>1, <1>6, <2>1, <2>2, <2>3, <3>1 DEF ParseIInv, Values, message, result, NameReturn
  <2>5. InData(rr.rdoff)'
    <3>1. Kept(data[f + 10].said)'
      BY <1>1, <1>3, <2>1 DEF Kept, message, result
    <3>2. rr'.rdoff + rr'.rdlen = off'
      BY <1>3, <1>4, <2>1, <2>3 DEF RdEnd
    <3>3. data[f + 10].type = rr'.type /\ data[f + 10].end = off'
      BY <1>3, <2>1, <2>3
    <3>4. off' \in DOMAIN recs /\ recs[off'].rec = ai + 1
      BY <1>3, <1>4, <2>1
    <3>5. data' = data /\ recs' = recs /\ ai' = ai /\ question' = asked'
      BY <1>1, <2>1 DEF message, result, asked
    <3> QED
      BY <1>3, <2>3, <3>1, <3>2, <3>3, <3>4, <3>5 DEF InData
  <2>6. TaskOK'
    BY <2>1, <2>5 DEF TaskOK, Task
  <2>7. Recovers' /\ SaysPrefix'
    BY <2>1 DEF Recovers, SaysPrefix
  <2> QED
    BY <2>4, <2>6, <2>7 DEF Steps
<1> QED
  BY <1>4, <1>5, <1>9, <1>10, <1>11

\* A record has been read.
LEMMA AfterData ==
  ASSUME ParseIInv, NextRecord, UNCHANGED message, UNCHANGED <<len, off, question, ok>>,
         off \in DOMAIN recs, recs[off].rec = ai + 1, Kept(recs[off].said)', question = asked,
         answers' \in Seq(Answer), Len(answers') <= MAX_ANS,
         nm' \in NameReturn, nm'.off <= size, txt' \in Nat, top' \in Nat, top' <= len
  PROVE Steps
<1>1. /\ ai' = ai + 1 /\ pc' = "answer" /\ rr' = idle.rr
      /\ count' = count /\ size' = size /\ sent' = sent /\ recs' = recs /\ names' = names
      /\ len' = len /\ off' = off /\ question' = question /\ ok' = ok
  BY DEF NextRecord, message
<1>2. ai + 1 <= count /\ ai \in 0 .. count /\ count \in Nat /\ size \in Nat
  BY RecFacts DEF ParseIInv, Values, ParseTypeOK
<1>3. rr' \in [type : Types \cup {"other"}, rdlen : Nat, rdoff : Nat]
  BY <1>1 DEF idle
<1>4. ParseTypeOK'
  BY <1>1, <1>2 DEF ParseIInv, Values, ParseTypeOK, NameReturn
<1>5. Values'
  BY <1>1, <1>3, <1>4 DEF ParseIInv, Values, message, NameReturn
<1>6. InBounds'
  BY <1>1 DEF InBounds
<1>7. Between'
  BY <1>1 DEF Between, asked
<1>8. TaskOK'
  BY <1>1, <1>7 DEF TaskOK, Task
<1>9. Recovers' /\ SaysPrefix'
  BY <1>1 DEF Recovers, SaysPrefix
<1> QED
  BY <1>5, <1>6, <1>8, <1>9 DEF Steps

\* What parse_dns knows at data or a text.
LEMMA DataHere ==
  ASSUME ParseIInv, NEW o, InData(o)
  PROVE /\ o \in DOMAIN data /\ DatumOK(o) /\ o \in Nat
        /\ rr.type \in Types /\ rr.rdoff \in Nat /\ rr.rdlen \in Nat
        /\ data[o].type = rr.type /\ data[o].end = off /\ rr.rdoff + rr.rdlen = off
        /\ o <= off /\ off \in Nat /\ off <= len /\ len \in Nat
        /\ off \in DOMAIN recs /\ recs[off].rec = ai + 1
        /\ data[o].said \in Nat /\ data[o].said <= Len(sent) /\ Kept(data[o].said)
        /\ recs[off].said \in Nat /\ recs[off].said <= Len(sent) /\ Len(sent) \in Nat
        /\ question = asked
<1>1. /\ o \in DOMAIN data /\ data[o].type = rr.type /\ data[o].end = off /\ rr.rdoff + rr.rdlen = off
      /\ off \in DOMAIN recs /\ recs[off].rec = ai + 1 /\ Kept(data[o].said) /\ question = asked
  BY DEF InData
<1>2. DatumOK(o)
  BY <1>1 DEF ParseIInv, MessageOK
<1>3. /\ o \in Nat /\ o <= data[o].end /\ data[o].type \in Types
      /\ data[o].said \in Nat /\ data[o].said <= Len(sent)
  BY <1>1, DataFacts DEF ParseIInv
<1>4. recs[off].said \in Nat /\ recs[off].said <= Len(sent) /\ Len(sent) \in Nat
  BY <1>1, RecFacts DEF ParseIInv
<1>5. rr.rdoff \in Nat /\ rr.rdlen \in Nat
  BY DEF ParseIInv, Values
<1>6. off \in Nat /\ off <= len /\ len \in Nat
  BY DEF ParseIInv, Values, ParseTypeOK
<1> QED
  BY <1>1, <1>2, <1>3, <1>4, <1>5, <1>6

LEMMA DataStep ==
  ASSUME ParseIInv, ParseData
  PROVE Steps
<1>0. /\ pc = "data" /\ UNCHANGED message /\ UNCHANGED <<len, off, question, ok>>
      /\ InData(rr.rdoff)
  BY DEF ParseIInv, TaskOK, Task, ParseData
<1>1. PICK o : o = rr.rdoff
  OBVIOUS
<1>2. /\ o \in DOMAIN data /\ DatumOK(o) /\ o \in Nat
      /\ rr.type \in Types /\ rr.rdoff \in Nat /\ rr.rdlen \in Nat
      /\ data[o].type = rr.type /\ data[o].end = off /\ rr.rdoff + rr.rdlen = off
      /\ o <= off /\ off \in Nat /\ off <= len /\ len \in Nat
      /\ off \in DOMAIN recs /\ recs[off].rec = ai + 1
      /\ data[o].said \in Nat /\ data[o].said <= Len(sent) /\ Kept(data[o].said)
      /\ recs[off].said \in Nat /\ recs[off].said <= Len(sent) /\ Len(sent) \in Nat
      /\ question = asked
  BY <1>0, <1>1, DataHere
<1>3. /\ nm \in NameReturn /\ nm.off <= size /\ txt \in Nat /\ top \in Nat /\ top <= len
      /\ answers \in Seq(Answer) /\ Len(answers) <= MAX_ANS
      /\ sent' = sent /\ names' = names /\ recs' = recs /\ data' = data /\ size' = size /\ count' = count
  BY <1>0 DEF ParseIInv, Values, ParseTypeOK, NameReturn, InBounds, message
<1>4. CASE rr.type \in DOMAIN Address
  <2>1. rr.type \notin DOMAIN Named /\ rr.type # "TXT" /\ rr.type # "other"
    BY <1>2, <1>4, TypeCases
  <2>2. off = o + Address[rr.type] /\ Says(o, <<rr.type>>)
    BY <1>2, <1>4, <2>1 DEF DatumOK
  <2>3. rr.rdlen = Address[rr.type]
    BY <1>1, <1>2, <1>4, <2>2, TypeCases
  <2>4. AddressOctets = <<rr.type>>
    BY <1>2 DEF AddressOctets
  <2>5. /\ add_answer(<<rr.type>>) /\ Touch(rr.rdoff + rr.rdlen) /\ NextRecord /\ UNCHANGED <<nm, txt>>
    BY <1>4, <2>1, <2>3, <2>4 DEF ParseData
  <2>6. top' \in Nat /\ top' <= len
    BY <1>2, <1>3, <2>5 DEF Touch
  <2>7. PICK n, a : n \in Nat /\ n = data[o].said /\ a = <<rr.type>>
    BY <1>2
  <2>8. Kept(n) /\ a = sent[n + 1] /\ n + 1 = recs[off].said /\ n < Len(sent)
    BY <1>2, <2>2, <2>7 DEF Says
  <2>9. Kept(n + 1)' /\ answers' \in Seq(Answer) /\ Len(answers') <= MAX_ANS
    BY <1>3, <2>5, <2>7, <2>8, Adds DEF ParseIInv
  <2>10. Kept(recs[off].said)'
    BY <1>0, <1>3, <2>8, <2>9
  <2> QED
    BY <1>0, <1>2, <1>3, <2>5, <2>6, <2>9, <2>10, AfterData
<1>5. CASE rr.type \in DOMAIN Named
  <2>1. rr.type \notin DOMAIN Address /\ rr.type # "TXT" /\ rr.type # "other" /\ Named[rr.type] \in Nat
    BY <1>2, <1>5, TypeCases
  <2>2. PICK s : s = o + Named[rr.type]
    OBVIOUS
  <2>3. s \in DOMAIN names /\ names[s].after = off
    BY <1>2, <1>5, <2>1, <2>2 DEF DatumOK
  <2>4. s < off
    BY <2>3, NameFacts DEF ParseIInv
  <2>5. rr.rdlen > Named[rr.type]
    BY <1>1, <1>2, <2>1, <2>2, <2>4
  <2>6. /\ nm' = Call(s, "named") /\ pc' = "name" /\ UNCHANGED <<ai, rr>>
        /\ UNCHANGED <<answers, top, txt>>
    BY <1>1, <1>5, <2>1, <2>2, <2>5 DEF ParseData
  <2>7. Reading(s)' /\ nm'.then = "named" /\ nm' \in NameReturn /\ nm'.off <= size
    BY <1>3, <2>3, <2>6, Calls DEF ParseIInv
  <2>8. Values' /\ InBounds'
    <3>1. ParseTypeOK' /\ InBounds'
      BY <1>0, <1>3, <2>6, <2>7 DEF ParseIInv, Values, ParseTypeOK, InBounds, NameReturn
    <3> QED
      BY <1>0, <1>3, <2>6, <2>7, <3>1 DEF ParseIInv, Values, message, NameReturn
  <2>9. InData(rr.rdoff)'
    BY <1>0, <1>3, <2>6 DEF InData, Kept, asked
  <2>10. NameAt(rr.rdoff + Named[rr.type])'
    BY <1>1, <1>3, <2>2, <2>3, <2>6, <2>7 DEF NameAt
  <2>11. TaskOK'
    BY <1>5, <2>6, <2>7, <2>9, <2>10 DEF TaskOK, Task
  <2>12. Recovers' /\ SaysPrefix'
    BY <2>6 DEF Recovers, SaysPrefix
  <2> QED
    BY <2>8, <2>11, <2>12 DEF Steps
<1>6. CASE rr.type = "TXT"
  <2>1. rr.type \notin DOMAIN Address \cup DOMAIN Named
    BY <1>2, <1>6, TypeCases
  <2>2. txt' = 0 /\ pc' = "text" /\ UNCHANGED <<ai, nm, rr, answers, top>>
    BY <1>6, <2>1 DEF ParseData
  <2>3. Values' /\ InBounds'
    <3>1. ParseTypeOK' /\ InBounds'
      BY <1>0, <1>2, <1>3, <2>2 DEF ParseIInv, Values, ParseTypeOK, InBounds
    <3> QED
      BY <1>0, <1>3, <2>2, <3>1 DEF ParseIInv, Values, message
  <2>4. (rr.rdoff + txt)' = rr.rdoff
    BY <1>2, <2>2
  <2>5. InData(rr.rdoff + txt)'
    BY <1>0, <1>3, <2>2, <2>4 DEF InData, Kept, asked
  <2>6. TaskOK'
    BY <1>6, <2>2, <2>5 DEF TaskOK, Task
  <2>7. Recovers' /\ SaysPrefix'
    BY <2>2 DEF Recovers, SaysPrefix
  <2> QED
    BY <2>3, <2>6, <2>7 DEF Steps
<1>7. CASE rr.type = "other"
  <2>1. rr.type \notin DOMAIN Address \cup DOMAIN Named
    BY <1>2, <1>7, TypeCases
  <2>2. NextRecord /\ UNCHANGED <<nm, answers, top, txt>>
    BY <1>7, <2>1 DEF ParseData
  <2>3. recs[off].said = data[o].said
    BY <1>2, <1>7, <2>1 DEF DatumOK
  <2>4. Kept(recs[off].said)'
    BY <1>0, <1>2, <1>3, <2>2, <2>3 DEF Kept
  <2> QED
    BY <1>0, <1>2, <1>3, <2>2, <2>4, AfterData
<1> QED
  BY <1>2, <1>4, <1>5, <1>6, <1>7, TypeCases

LEMMA NamedStep ==
  ASSUME ParseIInv, ParseNamed
  PROVE Steps
<1>0. /\ pc = "named" /\ UNCHANGED message /\ UNCHANGED <<len, off, txt, question, ok, top>>
      /\ NextRecord /\ nm' = idle.nm
      /\ InData(rr.rdoff) /\ rr.type \in DOMAIN Named /\ NameAt(rr.rdoff + Named[rr.type])
  BY DEF ParseIInv, TaskOK, Task, ParseNamed
<1>1. PICK o, s : o = rr.rdoff /\ s = rr.rdoff + Named[rr.type]
  OBVIOUS
<1>2. /\ o \in DOMAIN data /\ DatumOK(o)
      /\ rr.type \in Types /\ data[o].type = rr.type /\ data[o].end = off
      /\ off \in Nat /\ off <= len /\ len \in Nat
      /\ off \in DOMAIN recs /\ recs[off].rec = ai + 1
      /\ data[o].said \in Nat /\ Kept(data[o].said)
      /\ recs[off].said \in Nat /\ recs[off].said <= Len(sent) /\ Len(sent) \in Nat
      /\ question = asked
  BY <1>0, <1>1, DataHere
<1>3. /\ nm' \in NameReturn /\ nm'.off <= size /\ txt' \in Nat /\ top' \in Nat /\ top' <= len
      /\ sent' = sent /\ recs' = recs
  <2>1. nm' \in NameReturn /\ nm'.off = 0
    BY <1>0 DEF idle, Call, NameReturn
  <2> QED
    BY <1>0, <2>1 DEF ParseIInv, Values, ParseTypeOK, InBounds, message
<1>4. /\ s \in DOMAIN names /\ names[s].after = off /\ Says(o, names[s].name)
  <2>1. rr.type \notin DOMAIN Address /\ rr.type # "TXT" /\ rr.type # "other"
    BY <1>0, <1>2, TypeCases
  <2> QED
    BY <1>0, <1>1, <1>2, <2>1 DEF DatumOK
<1>5. nm.ret = off /\ nm.name = names[s].name
  BY <1>0, <1>1, <1>2, <1>4 DEF NameAt, HasRead
<1>6. PICK n, a : n \in Nat /\ n = data[o].said /\ a = nm.name
  BY <1>2
<1>7. add_answer(a)
  BY <1>2, <1>5, <1>6 DEF ParseNamed
<1>8. Kept(n) /\ a = sent[n + 1] /\ n + 1 = recs[off].said /\ n < Len(sent)
  BY <1>2, <1>4, <1>5, <1>6 DEF Says
<1>9. Kept(n + 1)' /\ answers' \in Seq(Answer) /\ Len(answers') <= MAX_ANS
  BY <1>3, <1>6, <1>7, <1>8, Adds DEF ParseIInv
<1>10. Kept(recs[off].said)'
  BY <1>0, <1>3, <1>8, <1>9
<1> QED
  BY <1>0, <1>2, <1>3, <1>9, <1>10, AfterData

LEMMA TextStep ==
  ASSUME ParseIInv, ParseText
  PROVE Steps
<1>0. /\ pc = "text" /\ UNCHANGED message /\ UNCHANGED <<len, off, nm, question, ok>>
      /\ InData(rr.rdoff + txt) /\ rr.type = "TXT"
  BY DEF ParseIInv, TaskOK, Task, ParseText
<1>1. PICK o : o = rr.rdoff + txt
  OBVIOUS
<1>2. /\ o \in DOMAIN data /\ DatumOK(o) /\ o \in Nat
      /\ rr.type \in Types /\ rr.rdoff \in Nat /\ rr.rdlen \in Nat
      /\ data[o].type = rr.type /\ data[o].end = off /\ rr.rdoff + rr.rdlen = off
      /\ o <= off /\ off \in Nat /\ off <= len /\ len \in Nat
      /\ off \in DOMAIN recs /\ recs[off].rec = ai + 1
      /\ data[o].said \in Nat /\ data[o].said <= Len(sent) /\ Kept(data[o].said)
      /\ recs[off].said \in Nat /\ recs[off].said <= Len(sent) /\ Len(sent) \in Nat
      /\ question = asked
  BY <1>0, <1>1, DataHere
<1>3. /\ nm \in NameReturn /\ nm.off <= size /\ txt \in Nat /\ top \in Nat /\ top <= len
      /\ answers \in Seq(Answer) /\ Len(answers) <= MAX_ANS
      /\ sent' = sent /\ names' = names /\ recs' = recs /\ data' = data /\ size' = size /\ count' = count
  BY <1>0 DEF ParseIInv, Values, ParseTypeOK, NameReturn, InBounds, message
<1>4. rr.type \notin DOMAIN Address \cup DOMAIN Named
  BY <1>0, <1>2, TypeCases
<1>5. CASE o = off /\ recs[o].said = data[o].said
  <2>1. txt >= rr.rdlen
    BY <1>1, <1>2, <1>3, <1>5
  <2>2. NextRecord /\ UNCHANGED <<answers, txt, top>>
    BY <1>2, <1>3, <2>1 DEF ParseText
  <2>3. Kept(recs[off].said)'
    BY <1>0, <1>2, <1>3, <1>5, <2>2 DEF Kept
  <2> QED
    BY <1>0, <1>2, <1>3, <2>2, <2>3, AfterData
<1>6. CASE /\ IsLabel(o)
           /\ Beyond(o) \in DOMAIN data
           /\ data[Beyond(o)] = [type |-> "TXT", said |-> data[o].said + 1, end |-> data[o].end]
           /\ sent[data[o].said + 1] = <<msg[o].label>>
  <2>1. PICK l \in Label : l = msg[o].label
    BY <1>6 DEF IsLabel
  <2>2. PICK b \in DOMAIN data : b = o + 1 + LabelLen[l]
    BY <1>6, <2>1 DEF Beyond
  <2>3. data[b].type = "TXT" /\ data[b].said = data[o].said + 1 /\ data[b].end = off
    BY <1>2, <1>6, <2>1, <2>2 DEF Beyond
  <2>4. b \in Nat /\ b <= off /\ b > o /\ data[o].said + 1 <= Len(sent) /\ LabelLen[l] \in Nat
    BY <1>2, <2>2, <2>3, Lengths, DataFacts DEF ParseIInv
  <2>5. PICK t \in Nat : t = txt + 1 + LabelLen[l]
    BY <1>3, <2>4
  <2>6. t <= rr.rdlen /\ txt < rr.rdlen /\ rr.rdoff + t = b
    <3>1. PICK k \in Nat, x \in Nat, q \in Nat, z \in Nat, w \in Nat :
            k = LabelLen[l] /\ x = rr.rdoff /\ q = txt /\ z = rr.rdlen /\ w = off
      BY <1>2, <1>3, <2>4
    <3>2. o = x + q /\ b = o + 1 + k /\ t = q + 1 + k /\ x + z = w /\ b <= w
      BY <1>1, <1>2, <2>2, <2>4, <2>5, <3>1
    <3>3. t <= z /\ q < z /\ x + t = b
      BY <3>2
    <3> QED
      BY <3>1, <3>3
  <2>7. /\ add_answer(<<l>>) /\ txt' = t /\ Touch(b) /\ UNCHANGED <<ai, pc, rr>>
    BY <1>1, <1>2, <1>3, <2>1, <2>5, <2>6 DEF ParseText
  <2>8. PICK n, a : n \in Nat /\ n = data[o].said /\ a = <<l>>
    BY <1>2
  <2>9. Kept(n) /\ a = sent[n + 1] /\ n + 1 = data[b].said /\ n < Len(sent)
    BY <1>2, <1>6, <2>1, <2>3, <2>4, <2>8
  <2>10. Kept(n + 1)' /\ answers' \in Seq(Answer) /\ Len(answers') <= MAX_ANS
    BY <1>3, <2>7, <2>8, <2>9, Adds DEF ParseIInv
  <2>11. top' \in Nat /\ top' <= len
    BY <1>2, <1>3, <2>4, <2>7 DEF Touch
  <2>12. Values' /\ InBounds'
    <3>1. ParseTypeOK' /\ InBounds'
      BY <1>0, <1>2, <1>3, <2>6, <2>7, <2>10, <2>11 DEF ParseIInv, Values, ParseTypeOK, InBounds
    <3> QED
      BY <1>0, <1>3, <2>7, <2>10, <2>11, <3>1 DEF ParseIInv, Values, message
  <2>13. InData(rr.rdoff + txt)'
    <3>1. (rr.rdoff + txt)' = b
      BY <2>6, <2>7
    <3>2. Kept(data[b].said)'
      BY <1>3, <2>9, <2>10
    <3>3. question' = asked'
      BY <1>0, <1>2, <1>3 DEF asked
    <3>4. /\ off' \in DOMAIN recs /\ recs[off'].rec = ai' + 1 /\ rr'.rdoff + rr'.rdlen = off'
          /\ b \in DOMAIN data /\ data[b].type = rr'.type /\ data[b].end = off'
      BY <1>0, <1>2, <2>3, <2>7
    <3> QED
      BY <1>3, <3>1, <3>2, <3>3, <3>4 DEF InData
  <2>14. TaskOK'
    BY <1>0, <2>7, <2>13 DEF TaskOK, Task
  <2>15. Recovers' /\ SaysPrefix'
    BY <1>0, <2>7 DEF Recovers, SaysPrefix
  <2> QED
    BY <2>12, <2>14, <2>15 DEF Steps
<1> QED
  BY <1>0, <1>2, <1>4, <1>5, <1>6 DEF DatumOK

-----------------------------------------------------------------------------
(* The resolver's steps: what has been written stays.                      *)

NothingParsed == UNCHANGED parser /\ pc \in {"ask", "write", "rdata"} /\ pc' \in {"ask", "write", "rdata"}

LEMMA Writes ==
  ASSUME ParseIInv, NothingParsed, size' \in Nat, size <= size', start' \in Nat, start' <= size',
         DOMAIN msg' \subseteq 0 .. size' - 1, sent' \in Seq(Answer),
         count' \in 0 .. MaxRR, count <= count', kind' \in Types \cup {"other"}
  PROVE Steps
<1>1. /\ len' = len /\ off' = off /\ ai' = ai /\ nm' = nm /\ rr' = rr /\ txt' = txt /\ top' = top
      /\ question' = question /\ answers' = answers /\ ok' = ok
      /\ pc \in {"ask", "write", "rdata"} /\ pc' \in {"ask", "write", "rdata"}
  BY DEF NothingParsed, parser, result
<1>2. /\ len = 0 /\ ai = 0 /\ off = 0 /\ answers = <<>> /\ ~ok /\ question = <<>> /\ top = 0
  BY <1>1 DEF ParseIInv, TaskOK, Task
<1>3. nm.off \in 0 .. size' /\ count' \in Nat
  <2>1. nm.off \in 0 .. size /\ size \in Nat /\ MaxRR \in Nat
    BY BoundAssumption DEF ParseIInv, Values, ParseTypeOK
  <2> QED
    BY <2>1
<1>4. ParseTypeOK'
  BY <1>1, <1>2, <1>3 DEF ParseIInv, Values, ParseTypeOK
<1>5. Values'
  BY <1>1, <1>4 DEF ParseIInv, Values
<1>6. InBounds' /\ Recovers' /\ SaysPrefix'
  BY <1>1, <1>2 DEF InBounds, Recovers, SaysPrefix
<1>7. TaskOK'
  BY <1>1, <1>2 DEF TaskOK, Task
<1> QED
  BY <1>5, <1>6, <1>7 DEF Steps

Grows ==
  /\ size' \in Nat /\ size <= size'
  /\ \A o \in DOMAIN msg : o \in DOMAIN msg' /\ msg'[o] = msg[o]
  /\ \A o \in DOMAIN names : o \in DOMAIN names' /\ names'[o] = names[o]
  /\ \A o \in DOMAIN recs : o \in DOMAIN recs' /\ recs'[o] = recs[o]
  /\ \A o \in DOMAIN data : o \in DOMAIN data' /\ data'[o] = data[o]
  /\ sent' \in Seq(Answer) /\ Len(sent) <= Len(sent')
  /\ \A j \in 1 .. Len(sent) : sent'[j] = sent[j]

LEMMA EmptyFacts == DOMAIN Empty = {}
  BY DEF Empty

LEMMA KeptNames ==
  ASSUME Values, MessageOK, Grows, NEW o \in DOMAIN names
  PROVE NameOK(o)'
<1>1. NameOK(o) /\ o \in DOMAIN msg
  BY DEF MessageOK, NameOK
<1>2. msg'[o] = msg[o] /\ names'[o] = names[o] /\ o \in DOMAIN msg' /\ o \in DOMAIN names'
  BY <1>1 DEF Grows
<1>3. o \in Nat /\ size \in Nat /\ size' \in Nat /\ size <= size'
  BY NameFacts DEF Values, Grows
<1>4. names'[o] \in [name : Seq(Label), after : o + 1 .. size']
  <2>1. names[o] \in [name : Seq(Label), after : o + 1 .. size]
    BY <1>1 DEF NameOK
  <2>2. o + 1 .. size \subseteq o + 1 .. size'
    BY <1>3
  <2> QED
    BY <1>2, <2>1, <2>2
<1>5. CASE msg[o].t = "end" /\ names[o] = [name |-> <<>>, after |-> o + 1]
  BY <1>2, <1>4, <1>5 DEF NameOK
<1>6. CASE /\ msg[o].t = "pointer"
           /\ msg[o].to \in DOMAIN names
           /\ names[msg[o].to].after <= o
           /\ names[o] = [name |-> names[msg[o].to].name, after |-> o + 2]
  <2>1. PICK d \in DOMAIN names : d = msg[o].to
    BY <1>6
  <2>2. d \in DOMAIN names' /\ names'[d] = names[d]
    BY DEF Grows
  <2> QED
    BY <1>2, <1>4, <1>6, <2>1, <2>2 DEF NameOK
<1>7. CASE /\ IsLabel(o)
           /\ Beyond(o) \in DOMAIN names
           /\ names[o].name = <<msg[o].label>> \o names[Beyond(o)].name
           /\ names[o].after = names[Beyond(o)].after
  <2>1. PICK d \in DOMAIN names : d = Beyond(o)
    BY <1>7
  <2>2. d \in DOMAIN names' /\ names'[d] = names[d]
    BY DEF Grows
  <2>3. Beyond(o)' = d /\ IsLabel(o)'
    BY <1>2, <1>7, <2>1 DEF Beyond, IsLabel
  <2> QED
    BY <1>2, <1>4, <1>7, <2>1, <2>2, <2>3 DEF NameOK
<1> QED
  BY <1>1, <1>5, <1>6, <1>7 DEF NameOK

LEMMA KeptData ==
  ASSUME Values, MessageOK, Grows, NEW o \in DOMAIN data
  PROVE DatumOK(o)'
<1>1. PICK d, e, n : d = data[o] /\ e = d.end /\ n = d.said
  OBVIOUS
<1>2. /\ DatumOK(o) /\ d \in [type : Types, said : 0 .. Len(sent), end : DOMAIN recs] /\ o \in 0 .. e
  BY <1>1 DEF MessageOK, DatumOK
<1>3. /\ e \in DOMAIN recs /\ recs'[e] = recs[e] /\ e \in DOMAIN recs' /\ data'[o] = d
      /\ o \in DOMAIN data'
  BY <1>1, <1>2 DEF Grows
<1>4. Len(sent) \in Nat /\ Len(sent') \in Nat /\ n \in Nat /\ n <= Len(sent) /\ Len(sent) <= Len(sent')
  BY <1>1, <1>2 DEF Values, Grows
<1>5. recs[e].said <= Len(sent)
  BY <1>3, RecFacts
<1>6. d \in [type : Types, said : 0 .. Len(sent'), end : DOMAIN recs']
  BY <1>1, <1>2, <1>3, <1>4
<1>7. ASSUME NEW a, Says(o, a)
      PROVE Says(o, a)'
  <2>1. sent[n + 1] = a /\ recs[e].said = n + 1
    BY <1>1, <1>7 DEF Says
  <2>2. sent'[n + 1] = sent[n + 1]
    BY <1>4, <1>5, <2>1 DEF Grows
  <2> QED
    BY <1>1, <1>3, <2>1, <2>2 DEF Says
<1>8. CASE /\ d.type \in DOMAIN Address
           /\ e = o + Address[d.type]
           /\ Says(o, <<d.type>>)
  <2>1. PICK a : a = <<d.type>>
    OBVIOUS
  <2>2. Says(o, a)'
    BY <1>7, <1>8, <2>1
  <2> QED
    BY <1>1, <1>2, <1>3, <1>6, <1>8, <2>1, <2>2 DEF DatumOK
<1>9. CASE /\ d.type \in DOMAIN Named
           /\ LET q == o + Named[d.type]
              IN q \in DOMAIN names /\ names[q].after = e /\ Says(o, names[q].name)
  <2>1. PICK q, a : q = o + Named[d.type] /\ a = names[q].name
    OBVIOUS
  <2>2. q \in DOMAIN names /\ names[q].after = e /\ Says(o, a)
    BY <1>9, <2>1
  <2>3. q \in DOMAIN names' /\ names'[q] = names[q] /\ Says(o, a)'
    BY <1>7, <2>2 DEF Grows
  <2> QED
    BY <1>1, <1>2, <1>3, <1>6, <1>9, <2>1, <2>2, <2>3 DEF DatumOK
<1>10. CASE d.type = "TXT" /\ o = e /\ recs[o].said = n
  BY <1>1, <1>2, <1>3, <1>6, <1>10 DEF DatumOK
<1>11. CASE /\ d.type = "TXT"
            /\ IsLabel(o)
            /\ Beyond(o) \in DOMAIN data
            /\ data[Beyond(o)] = [type |-> "TXT", said |-> n + 1, end |-> e]
            /\ sent[n + 1] = <<msg[o].label>>
  <2>1. PICK b \in DOMAIN data : b = Beyond(o)
    BY <1>11
  <2>2. o \in DOMAIN msg /\ o \in DOMAIN msg' /\ msg'[o] = msg[o] /\ IsLabel(o)' /\ Beyond(o)' = b
    BY <1>11, <2>1 DEF IsLabel, Beyond, Grows
  <2>3. b \in DOMAIN data' /\ data'[b] = data[b]
    BY DEF Grows
  <2>4. n + 1 <= Len(sent)
    <3>1. data[b].said <= Len(sent) /\ data[b].said = n + 1
      BY <1>11, <2>1, DataFacts
    <3> QED
      BY <3>1
  <2>5. sent'[n + 1] = sent[n + 1]
    BY <1>4, <2>4 DEF Grows
  <2> QED
    BY <1>1, <1>2, <1>3, <1>6, <1>11, <2>1, <2>2, <2>3, <2>5 DEF DatumOK
<1>12. CASE d.type = "other" /\ recs[e].said = n
  BY <1>1, <1>2, <1>3, <1>6, <1>12 DEF DatumOK
<1> QED
  BY <1>1, <1>2, <1>8, <1>9, <1>10, <1>11, <1>12 DEF DatumOK

LEMMA KeptFollowed ==
  ASSUME Values, MessageOK, Grows, NEW o \in DOMAIN recs, Followed(o)
  PROVE Followed(o)'
<1>1. PICK f, g : f = names[o].after /\ g = f + 10
  OBVIOUS
<1>2. /\ o \in DOMAIN names
      /\ f \in DOMAIN msg /\ msg[f].t = "fixed" /\ msg[f].rdlen \in Nat
      /\ g \in DOMAIN data
      /\ data[g] = [type |-> msg[f].type, said |-> recs[o].said, end |-> RdEnd(f)]
      /\ recs[RdEnd(f)].rec = recs[o].rec + 1
  BY <1>1 DEF Followed
<1>3. PICK e : e = RdEnd(f)
  OBVIOUS
<1>4. e \in DOMAIN recs
  BY <1>2, <1>3, DataFacts
<1>5. /\ names'[o] = names[o] /\ o \in DOMAIN names' /\ msg'[f] = msg[f] /\ f \in DOMAIN msg'
      /\ data'[g] = data[g] /\ g \in DOMAIN data' /\ recs'[o] = recs[o] /\ recs'[e] = recs[e]
  BY <1>2, <1>4 DEF Grows
<1>6. RdEnd(f)' = e
  BY <1>3, <1>5 DEF RdEnd
<1> QED
  BY <1>1, <1>2, <1>3, <1>5, <1>6 DEF Followed

\* The name in hand gets a label.
LEMMA LabelJoins ==
  ASSUME NEW a \in Seq(Label), NEW l \in Label, NEW k \in Label
  PROVE /\ Append(<<k>>, l) = <<k>> \o <<l>>
        /\ Append(<<k>> \o a, l) = <<k>> \o Append(a, l)
<1>1. <<k>> \in Seq(Label) /\ <<l>> \in Seq(Label) /\ <<k>> \o a \in Seq(Label)
  BY ConcatProperties
<1>2. /\ Append(<<k>>, l) = <<k>> \o <<l>> /\ Append(a, l) = a \o <<l>>
      /\ Append(<<k>> \o a, l) = (<<k>> \o a) \o <<l>>
  BY <1>1, AppendIsConcat
<1>3. (<<k>> \o a) \o <<l>> = <<k>> \o (a \o <<l>>)
  BY <1>1, ConcatAssociative
<1> QED
  BY <1>2, <1>3

LEMMA OpenFacts ==
  ASSUME Values, NEW s, NameOpen(s) \/ TextsOpen(s)
  PROVE /\ \A o \in DOMAIN open : s <= o /\ o \in Nat /\ o < size /\ o \in DOMAIN msg
        /\ size \notin DOMAIN open /\ s <= size /\ s \in Nat
<1>1. s \in DOMAIN open \cup {size} /\ \A o \in DOMAIN open : s <= o /\ o \in DOMAIN msg
  BY DEF NameOpen, TextsOpen, IsLabel
<1>2. size \in Nat /\ \A o \in DOMAIN msg : o \in Nat /\ o < size
  BY DEF Values
<1> QED
  BY <1>1, <1>2

LEMMA NewLabel ==
  ASSUME Values, NEW s, NameOpen(s), NEW l \in Label,
         msg' = Put(msg, size, LabelItem(l)), size' = size + 1 + LabelLen[l],
         open' = [o \in DOMAIN open \cup {size} |-> IF o = size THEN <<l>> ELSE Append(open[o], l)]
  PROVE NameOpen(s)'
<1>1. /\ \A o \in DOMAIN open : s <= o /\ o \in Nat /\ o < size /\ o \in DOMAIN msg
      /\ size \notin DOMAIN open /\ s <= size /\ s \in Nat /\ size \in Nat
  BY OpenFacts DEF Values
<1>2. /\ \A o \in DOMAIN msg : o < size /\ o \in DOMAIN msg' /\ msg'[o] = msg[o]
      /\ size \in DOMAIN msg' /\ msg'[size] = LabelItem(l)
  BY DEF Put, Values
<1>3. s \in DOMAIN open' \cup {size'}
  BY DEF NameOpen
<1> PICK z : z = size
  OBVIOUS
<1>4. /\ IsLabel(z)' /\ Beyond(z)' = size' /\ open'[z] = <<msg'[z].label>>
      /\ open'[z] \in Seq(Label)
  <2>1. msg'[z].t = "label" /\ msg'[z].label = l /\ z \in DOMAIN msg'
    BY <1>2 DEF LabelItem
  <2> QED
    BY <2>1 DEF IsLabel, Beyond
<1>5. ASSUME NEW o \in DOMAIN open
      PROVE /\ s <= o /\ IsLabel(o)' /\ open'[o] \in Seq(Label)
            /\ Beyond(o)' \in DOMAIN open'
            /\ open'[o] = <<msg'[o].label>> \o open'[Beyond(o)']
  <2>1. PICK k \in Label : k = msg[o].label
    BY DEF NameOpen, IsLabel
  <2>2. PICK b : b = Beyond(o)
    OBVIOUS
  <2>3. /\ IsLabel(o) /\ open[o] \in Seq(Label)
        /\ \/ b = size /\ open[o] = <<k>>
           \/ b \in DOMAIN open /\ open[o] = <<k>> \o open[b]
    BY <2>1, <2>2 DEF NameOpen
  <2>4. msg'[o] = msg[o] /\ IsLabel(o)' /\ Beyond(o)' = b
    BY <1>1, <1>2, <2>2, <2>3 DEF IsLabel, Beyond
  <2>5. open'[o] = Append(open[o], l) /\ open'[size] = <<l>>
    BY <1>1
  <2>6. CASE b = size /\ open[o] = <<k>>
    <3>1. Append(<<k>>, l) = <<k>> \o <<l>>
      BY <2>3, LabelJoins
    <3>2. open'[b] = <<l>> /\ b \in DOMAIN open'
      BY <2>5, <2>6
    <3>3. open'[o] = <<k>> \o open'[b]
      BY <2>5, <2>6, <3>1, <3>2
    <3>4. open'[o] \in Seq(Label)
      BY <2>3, <2>5
    <3> QED
      BY <1>1, <2>1, <2>4, <3>2, <3>3, <3>4
  <2>7. CASE b \in DOMAIN open /\ open[o] = <<k>> \o open[b]
    <3>1. PICK a \in Seq(Label) : a = open[b]
      BY <2>7 DEF NameOpen
    <3>2. Append(<<k>> \o a, l) = <<k>> \o Append(a, l)
      BY LabelJoins
    <3>3. open'[b] = Append(a, l) /\ b \in DOMAIN open'
      BY <1>1, <2>7, <3>1
    <3>4. open'[o] = <<k>> \o open'[b]
      BY <2>5, <2>7, <3>1, <3>2, <3>3
    <3>5. open'[o] \in Seq(Label)
      BY <2>3, <2>5
    <3> QED
      BY <1>1, <2>1, <2>4, <3>3, <3>4, <3>5
  <2> QED
    BY <2>3, <2>6, <2>7
<1>6. \A o \in DOMAIN open' :
        /\ s <= o
        /\ IsLabel(o)'
        /\ open'[o] \in Seq(Label)
        /\ \/ Beyond(o)' = size' /\ open'[o] = <<msg'[o].label>>
           \/ Beyond(o)' \in DOMAIN open' /\ open'[o] = <<msg'[o].label>> \o open'[Beyond(o)']
  <2> SUFFICES ASSUME NEW o \in DOMAIN open'
               PROVE /\ s <= o
                     /\ IsLabel(o)'
                     /\ open'[o] \in Seq(Label)
                     /\ \/ Beyond(o)' = size' /\ open'[o] = <<msg'[o].label>>
                        \/ Beyond(o)' \in DOMAIN open' /\ open'[o] = <<msg'[o].label>> \o open'[Beyond(o)']
    OBVIOUS
  <2>1. CASE o \in DOMAIN open
    BY <1>5, <2>1
  <2>2. CASE o = z
    BY <1>1, <1>4, <2>2
  <2> QED
    BY <2>1, <2>2
<1> QED
  BY <1>3, <1>6 DEF NameOpen

\* The records are where they were.
LEMMA KeptMessage ==
  ASSUME Values, MessageOK, Grows, UNCHANGED <<start, count, recs, data>>,
         \A o \in DOMAIN names' \ DOMAIN names : NameOK(o)'
  PROVE MessageOK'
<1>1. \A o \in DOMAIN names' : NameOK(o)'
  BY KeptNames
<1>2. \A o \in DOMAIN data' : DatumOK(o)'
  BY KeptData
<1>3. ASSUME NEW o \in DOMAIN recs
      PROVE RecordOK(o)'
  <2>1. RecordOK(o)
    BY DEF MessageOK
  <2>2. recs[o].rec < count => Followed(o)'
    BY <2>1, KeptFollowed DEF RecordOK
  <2>3. /\ recs[o] \in [rec : 0 .. count, said : 0 .. Len(sent)]
        /\ Len(sent) \in Nat /\ Len(sent') \in Nat /\ Len(sent) <= Len(sent')
    BY <2>1 DEF RecordOK, Grows, Values
  <2>4. recs[o] \in [rec : 0 .. count, said : 0 .. Len(sent')]
    BY <2>3
  <2> QED
    BY <2>1, <2>2, <2>4 DEF RecordOK
<1> QED
  BY <1>1, <1>2, <1>3 DEF MessageOK

LEMMA LabelStep ==
  ASSUME ParseIInv, WriteLabel
  PROVE ParseIInv'
<1>1. PICK l \in Label :
        /\ msg' = Put(msg, size, LabelItem(l))
        /\ size' = size + 1 + LabelLen[l]
        /\ open' = [o \in DOMAIN open \cup {size} |-> IF o = size THEN <<l>> ELSE Append(open[o], l)]
  BY DEF WriteLabel
<1>2. /\ names' = names /\ start' = start /\ kind' = kind /\ count' = count /\ sent' = sent
      /\ recs' = recs /\ data' = data /\ pc' = pc /\ UNCHANGED parser
      /\ pc \in {"ask", "rdata"} /\ (pc = "rdata" => kind \in DOMAIN Named)
  BY DEF WriteLabel
<1>3. /\ size \in Nat /\ start \in Nat /\ start <= size /\ DOMAIN msg \subseteq 0 .. size - 1
      /\ sent \in Seq(Answer) /\ count \in 0 .. MaxRR /\ kind \in Types \cup {"other"}
      /\ Values /\ MessageOK /\ ResolverOK
  BY DEF ParseIInv, Values, ParseTypeOK
<1>4. size' \in Nat /\ size < size'
  <2>1. LabelLen[l] \in Nat
    BY Lengths
  <2> QED
    BY <1>1, <1>3, <2>1
<1>5. /\ DOMAIN msg' = DOMAIN msg \cup {size} /\ \A o \in DOMAIN msg : msg'[o] = msg[o]
  BY <1>1, <1>3 DEF Put
<1>6. Steps
  <2>1. DOMAIN msg' \subseteq 0 .. size' - 1
    BY <1>3, <1>4, <1>5
  <2> QED
    BY <1>2, <1>3, <1>4, <2>1, Writes DEF NothingParsed
<1>7. Grows
  BY <1>2, <1>3, <1>4, <1>5 DEF Grows
<1>8. MessageOK'
  BY <1>2, <1>3, <1>7, KeptMessage
<1>9. ASSUME NEW s, NameOpen(s)
      PROVE NameOpen(s)'
  BY <1>1, <1>3, <1>9, NewLabel
<1>10. CASE pc = "ask"
  <2>1. NameOpen(12)'
    BY <1>3, <1>9, <1>10 DEF ResolverOK
  <2>2. ResolverOK'
    BY <1>2, <1>3, <1>10, <2>1 DEF ResolverOK
  <2> QED
    BY <1>6, <1>8, <2>2 DEF Steps, ParseIInv
<1>11. CASE pc = "rdata"
  <2>1. RecordOpen /\ kind \in DOMAIN Named /\ kind # "TXT" /\ Named[kind] \in Nat
    BY <1>2, <1>3, <1>11, TypeCases DEF ResolverOK
  <2>2. PICK s : s = start + 12 + Named[kind]
    OBVIOUS
  <2>3. NameOpen(s)
    BY <2>1, <2>2 DEF RecordOpen
  <2>4. NameOpen(s)' /\ start + 12 <= size
    <3>1. s <= size
      BY <1>3, <2>3, OpenFacts
    <3> QED
      BY <1>3, <1>9, <2>1, <2>2, <2>3, <3>1
  <2>5. \A o \in DOMAIN msg' : o <= start \/ o >= start + 12
    BY <1>5, <2>1, <2>4 DEF RecordOpen
  <2>6. RecordOpen'
    BY <1>2, <2>1, <2>2, <2>4, <2>5 DEF RecordOpen
  <2>7. ResolverOK'
    BY <1>2, <1>3, <1>11, <2>6 DEF ResolverOK, QuestionOK
  <2> QED
    BY <1>6, <1>8, <2>7 DEF Steps, ParseIInv
<1> QED
  BY <1>2, <1>10, <1>11

\* The name in hand is closed.
Closing(rest, n) ==
  /\ size' \in Nat /\ size + n <= size'
  /\ \A o \in DOMAIN msg : o \in DOMAIN msg' /\ msg'[o] = msg[o]
  /\ size \in DOMAIN msg'
  /\ \/ msg'[size].t = "end" /\ rest = <<>> /\ n = 1
     \/ /\ msg'[size].t = "pointer" /\ n = 2
        /\ msg'[size].to \in DOMAIN names /\ rest = names[msg'[size].to].name
        /\ names[msg'[size].to].after <= size
  /\ DOMAIN open \cap DOMAIN names = {}

LEMMA Closes ==
  ASSUME Values, MessageOK, NEW s, NameOpen(s), NEW rest \in Seq(Label), NEW n \in Nat, n > 0,
         names' = Closed(rest, n), Closing(rest, n)
  PROVE /\ \A o \in DOMAIN names : o \in DOMAIN names' /\ names'[o] = names[o]
        /\ \A o \in DOMAIN names' \ DOMAIN names : NameOK(o)'
        /\ s \in DOMAIN names' /\ names'[s].after = size + n /\ names'[s].name \in Seq(Label)
<1> USE DEF Closing
<1>1. /\ \A o \in DOMAIN open : s <= o /\ o \in Nat /\ o < size /\ o \in DOMAIN msg
      /\ size \notin DOMAIN open /\ s <= size /\ s \in Nat /\ size \in Nat
  BY OpenFacts DEF Values
<1>2. size \notin DOMAIN names
  BY NameFacts DEF Values
<1>3. DOMAIN names' = DOMAIN names \cup DOMAIN open \cup {size}
  BY DEF Closed
<1>4. \A o \in DOMAIN names : names'[o] = names[o]
  BY DEF Closed
<1> PICK z : z = size
  OBVIOUS
<1>5. names'[z] = [name |-> rest, after |-> z + n]
  BY <1>2 DEF Closed
<1>6. \A o \in DOMAIN open : names'[o] = [name |-> open[o] \o rest, after |-> z + n]
  BY <1>1 DEF Closed
<1>7. NameOK(z)'
  <2>1. names'[z] \in [name : Seq(Label), after : z + 1 .. size']
    BY <1>1, <1>5
  <2>2. CASE msg'[z].t = "end" /\ rest = <<>> /\ n = 1
    BY <1>5, <2>1, <2>2 DEF NameOK
  <2>3. CASE /\ msg'[z].t = "pointer" /\ n = 2
             /\ msg'[z].to \in DOMAIN names /\ rest = names[msg'[z].to].name
             /\ names[msg'[z].to].after <= z
    <3>1. PICK d \in DOMAIN names : d = msg'[z].to
      BY <2>3
    <3>2. d \in DOMAIN names' /\ names'[d] = names[d]
      BY <1>3, <1>4
    <3> QED
      BY <1>5, <2>1, <2>3, <3>1, <3>2 DEF NameOK
  <2> QED
    BY <2>2, <2>3
<1>8. ASSUME NEW o \in DOMAIN open
      PROVE NameOK(o)' /\ names'[o].after = z + n /\ names'[o].name \in Seq(Label)
  <2>1. PICK k, b : k \in Label /\ k = msg[o].label /\ b = Beyond(o)
    BY DEF NameOpen, IsLabel
  <2>2. /\ IsLabel(o) /\ open[o] \in Seq(Label)
        /\ \/ b = size /\ open[o] = <<k>>
           \/ b \in DOMAIN open /\ open[o] = <<k>> \o open[b]
    BY <2>1 DEF NameOpen
  <2>3. msg'[o] = msg[o] /\ o \in DOMAIN msg' /\ IsLabel(o)' /\ Beyond(o)' = b
    BY <1>1, <2>1, <2>2 DEF IsLabel, Beyond
  <2>4. PICK w \in Seq(Label) : w = open[o] \o rest
    BY <2>2, ConcatProperties
  <2>5. names'[o] = [name |-> w, after |-> z + n]
    BY <1>6, <2>4
  <2>6. names'[o] \in [name : Seq(Label), after : o + 1 .. size']
    BY <1>1, <2>5
  <2>7. /\ b \in DOMAIN names' /\ w = <<k>> \o names'[b].name
        /\ names'[b].after = z + n
    <3>1. CASE b = size /\ open[o] = <<k>>
      BY <1>3, <1>5, <2>4, <3>1
    <3>2. CASE b \in DOMAIN open /\ open[o] = <<k>> \o open[b]
      <4>1. PICK a \in Seq(Label) : a = open[b]
        BY <3>2 DEF NameOpen
      <4>2. <<k>> \in Seq(Label)
        BY <2>1
      <4>3. (<<k>> \o a) \o rest = <<k>> \o (a \o rest)
        BY <4>2, ConcatAssociative
      <4>4. names'[b] = [name |-> a \o rest, after |-> z + n]
        BY <1>6, <3>2, <4>1
      <4> QED
        BY <1>3, <2>4, <3>2, <4>1, <4>3, <4>4
    <3> QED
      BY <2>2, <3>1, <3>2
  <2>8. NameOK(o)'
    BY <2>1, <2>3, <2>5, <2>6, <2>7 DEF NameOK
  <2> QED
    BY <2>5, <2>8
<1>9. s \in DOMAIN open \cup {z}
  BY DEF NameOpen
<1> QED
  BY <1>3, <1>4, <1>5, <1>7, <1>8, <1>9

LEMMA EndQuestionStep ==
  ASSUME ParseIInv, EndQuestion
  PROVE ParseIInv'
<1>1. /\ pc = "ask" /\ pc' = "write" /\ msg' = Put(msg, size, [t |-> "end"]) /\ names' = Closed(<<>>, 1)
      /\ size' = size + 5 /\ start' = size + 5 /\ open' = Empty
      /\ recs' = Put(recs, size + 5, [rec |-> 0, said |-> 0])
      /\ kind' = kind /\ count' = count /\ sent' = sent /\ data' = data /\ UNCHANGED parser
  BY DEF EndQuestion
<1>2. /\ DOMAIN names = {} /\ DOMAIN recs = {} /\ DOMAIN data = {} /\ count = 0 /\ sent = <<>>
      /\ NameOpen(12) /\ Values /\ MessageOK
  BY <1>1 DEF ParseIInv, ResolverOK
<1>3. /\ size \in Nat /\ DOMAIN msg \subseteq 0 .. size - 1
      /\ sent \in Seq(Answer) /\ count \in 0 .. MaxRR /\ kind \in Types \cup {"other"}
  BY <1>2 DEF Values, ParseTypeOK
<1>4. /\ DOMAIN msg' = DOMAIN msg \cup {size} /\ \A o \in DOMAIN msg : msg'[o] = msg[o]
      /\ msg'[size] = [t |-> "end"]
  BY <1>1, <1>3 DEF Put
<1>5. Steps
  <2>1. DOMAIN msg' \subseteq 0 .. size' - 1 /\ size' \in Nat /\ start' \in Nat /\ size <= size' /\ start' <= size'
    BY <1>1, <1>3, <1>4
  <2>2. count <= count'
    BY <1>1, <1>2
  <2> QED
    BY <1>1, <1>3, <2>1, <2>2, Writes DEF NothingParsed, ParseIInv
<1>6. /\ \A o \in DOMAIN names' : NameOK(o)'
      /\ 12 \in DOMAIN names' /\ names'[12].after = size + 1
  <2>1. /\ \A o \in DOMAIN names' \ DOMAIN names : NameOK(o)'
        /\ 12 \in DOMAIN names' /\ names'[12].after = size + 1
    <3>1. <<>> \in Seq(Label) /\ size' \in Nat /\ size + 1 <= size' /\ 1 \in Nat /\ 1 > 0
      BY <1>1, <1>3
    <3>2. /\ \A o \in DOMAIN msg : o \in DOMAIN msg' /\ msg'[o] = msg[o]
          /\ size \in DOMAIN msg' /\ msg'[size].t = "end"
          /\ DOMAIN open \cap DOMAIN names = {}
      BY <1>2, <1>4
    <3> QED
      BY <1>1, <1>2, <3>1, <3>2, Closes DEF Closing
  <2> QED
    BY <1>2, <2>1
<1>7. DOMAIN recs' = {start'} /\ recs'[start'] = [rec |-> 0, said |-> 0]
  BY <1>1, <1>2 DEF Put
<1>8. MessageOK'
  <2>1. \A o \in DOMAIN recs' : RecordOK(o)'
    <3>1. PICK g \in Nat : g = start'
      BY <1>1, <1>3
    <3>2. Len(sent') \in Nat
      BY <1>1, <1>3
    <3>3. recs'[g] \in [rec : 0 .. count', said : 0 .. Len(sent')] /\ recs'[g].rec = 0 /\ count' = 0
      BY <1>1, <1>2, <1>7, <3>1, <3>2
    <3>4. RecordOK(g)'
      BY <3>1, <3>3 DEF RecordOK
    <3> QED
      BY <1>7, <3>1, <3>4
  <2> QED
    BY <1>1, <1>2, <1>6, <2>1 DEF MessageOK
<1>9. ResolverOK'
  <2>1. QuestionOK'
    <3>1. names'[12].after + 4 = start'
      BY <1>1, <1>3, <1>6
    <3> QED
      BY <1>6, <1>7, <3>1 DEF QuestionOK
  <2>2. Len(sent') = recs'[start'].said
    BY <1>1, <1>2, <1>7
  <2> QED
    BY <1>1, <1>7, <2>1, <2>2 DEF ResolverOK
<1> QED
  BY <1>5, <1>8, <1>9 DEF Steps, ParseIInv

LEMMA BeginStep ==
  ASSUME ParseIInv, BeginRecord
  PROVE ParseIInv'
<1>1. PICK type \in Types, o \in Targets :
       /\ kind' = type
       /\ msg' = Put(msg, size, PointerItem(o))
       /\ names' = Put(names, size, [name |-> names[o].name, after |-> size + 2])
       /\ size' = size + 12 + IF type \in DOMAIN Named THEN Named[type] ELSE 0
  BY DEF BeginRecord
<1>2. /\ pc = "write" /\ pc' = "rdata" /\ count < MaxRR
      /\ open' = open /\ start' = start /\ count' = count /\ sent' = sent /\ recs' = recs
      /\ data' = data /\ UNCHANGED parser
  BY DEF BeginRecord
<1>3. /\ size \in Nat /\ DOMAIN msg \subseteq 0 .. size - 1 /\ start = size
      /\ sent \in Seq(Answer) /\ count \in 0 .. MaxRR /\ open = Empty
      /\ Len(sent) = recs[start].said /\ start \in DOMAIN recs
      /\ Values /\ MessageOK /\ QuestionOK
  BY <1>2 DEF ParseIInv, Values, ParseTypeOK, ResolverOK
<1>4. /\ o \in DOMAIN names /\ names[o].name \in Seq(Label) /\ names[o].after \in Nat /\ names[o].after <= size
      /\ size \notin DOMAIN names /\ \A q \in DOMAIN names : names[q].after <= size
  <2>1. o \in DOMAIN names
    BY DEF Targets
  <2> QED
    BY <1>3, <2>1, NameFacts
<1>5. PICK w \in Nat : w = IF type \in DOMAIN Named THEN Named[type] ELSE 0
  BY TypeCases
<1>6. size' = size + 12 + w
  BY <1>1, <1>5
<1>7. /\ DOMAIN msg' = DOMAIN msg \cup {size} /\ \A q \in DOMAIN msg : msg'[q] = msg[q]
      /\ msg'[size] = PointerItem(o)
  BY <1>1, <1>3 DEF Put
<1>8. /\ DOMAIN names' = DOMAIN names \cup {size} /\ \A q \in DOMAIN names : names'[q] = names[q]
      /\ names'[size] = [name |-> names[o].name, after |-> size + 2]
  BY <1>1, <1>4 DEF Put
<1>9. Steps
  <2>1. DOMAIN msg' \subseteq 0 .. size' - 1 /\ size' \in Nat /\ size <= size' /\ start <= size'
    BY <1>3, <1>6, <1>7
  <2> QED
    BY <1>1, <1>2, <1>3, <2>1, Writes DEF NothingParsed, ParseIInv, Values
<1>10. Grows
  <2>1. size' \in Nat /\ size <= size'
    BY <1>3, <1>6
  <2> QED
    BY <1>2, <1>3, <1>7, <1>8, <2>1 DEF Grows
<1>11. MessageOK'
  <2>1. PICK z \in Nat : z = size
    BY <1>3
  <2>2. msg'[z].t = "pointer" /\ msg'[z].to = o /\ z \in DOMAIN msg'
    BY <1>7, <2>1 DEF PointerItem
  <2>3. names'[z] = [name |-> names[o].name, after |-> z + 2] /\ names'[o] = names[o] /\ o \in DOMAIN names'
    BY <1>4, <1>8, <2>1
  <2>4. names'[z] \in [name : Seq(Label), after : z + 1 .. size']
    BY <1>4, <1>6, <2>1, <2>3
  <2>5. NameOK(z)'
    BY <1>4, <2>1, <2>2, <2>3, <2>4 DEF NameOK
  <2> QED
    BY <1>2, <1>3, <1>8, <1>10, <2>1, <2>5, KeptMessage
<1>12. RecordOpen'
  <2>1. DOMAIN open' = {} /\ kind' = type
    BY <1>1, <1>2, <1>3, EmptyFacts
  <2>2. kind' \in DOMAIN Named => NameOpen(start + 12 + Named[kind])'
    <3>1. kind' \in DOMAIN Named => start' + 12 + Named[kind'] = size'
      BY <1>1, <1>2, <1>3, <1>5, <1>6
    <3> QED
      BY <2>1, <3>1 DEF NameOpen
  <2>3. kind' \notin DOMAIN Named => start' + 12 = size'
    BY <1>1, <1>2, <1>3, <1>5, <1>6
  <2>4. kind' = "TXT" => TextsOpen(start + 12)'
    <3>1. "TXT" \notin DOMAIN Named
      BY DEF Named
    <3> QED
      BY <1>2, <1>3, <2>1, <2>3, <3>1 DEF TextsOpen, SaidAt
  <2>5. /\ start' \in DOMAIN names' /\ names'[start'].after = start' + 2
        /\ \A q \in DOMAIN names' : names'[q].after <= start' + 2
    <3>1. \A q \in DOMAIN names : names[q].after \in Nat
      BY <1>3, NameFacts
    <3> QED
      BY <1>2, <1>3, <1>4, <1>8, <3>1
  <2>6. \A q \in DOMAIN msg' : q <= start' \/ q >= start' + 12
    BY <1>2, <1>3, <1>7
  <2> QED
    BY <1>1, <1>2, <1>3, <2>1, <2>2, <2>3, <2>4, <2>5, <2>6 DEF RecordOpen
<1>13. ResolverOK'
  <2>1. QuestionOK'
    BY <1>2, <1>3, <1>8 DEF QuestionOK
  <2> QED
    BY <1>2, <1>3, <1>12, <2>1 DEF ResolverOK
<1> QED
  BY <1>9, <1>11, <1>13 DEF Steps, ParseIInv

LEMMA WriteTextStep ==
  ASSUME ParseIInv, WriteText
  PROVE ParseIInv'
<1>1. PICK l \in Label :
        /\ msg' = Put(msg, size, LabelItem(l))
        /\ size' = size + 1 + LabelLen[l]
        /\ open' = Put(open, size, Len(sent))
        /\ sent' = Append(sent, <<l>>)
  BY DEF WriteText
<1>2. /\ pc = "rdata" /\ pc' = pc /\ kind = "TXT"
      /\ names' = names /\ start' = start /\ kind' = kind /\ count' = count
      /\ recs' = recs /\ data' = data /\ UNCHANGED parser
  BY DEF WriteText
<1>3. /\ size \in Nat /\ start \in Nat /\ start <= size /\ DOMAIN msg \subseteq 0 .. size - 1
      /\ sent \in Seq(Answer) /\ count \in 0 .. MaxRR /\ kind \in Types \cup {"other"}
      /\ Values /\ MessageOK /\ QuestionOK /\ start \in DOMAIN recs
      /\ RecordOpen /\ TextsOpen(start + 12)
  BY <1>2 DEF ParseIInv, Values, ParseTypeOK, ResolverOK, RecordOpen
<1>4. size' \in Nat /\ size < size'
  <2>1. LabelLen[l] \in Nat
    BY Lengths
  <2> QED
    BY <1>1, <1>3, <2>1
<1>5. /\ DOMAIN msg' = DOMAIN msg \cup {size} /\ \A o \in DOMAIN msg : msg'[o] = msg[o]
      /\ msg'[size] = LabelItem(l)
  BY <1>1, <1>3 DEF Put
<1> PICK z \in Nat : z = size
  BY <1>3
<1> PICK n \in Nat : n = Len(sent)
  BY <1>3
<1> PICK s \in Nat : s = start + 12
  BY <1>3
<1>6. /\ sent' \in Seq(Answer) /\ Len(sent') = n + 1 /\ sent'[n + 1] = <<l>>
      /\ \A j \in 1 .. n : sent'[j] = sent[j]
  <2>1. <<l>> \in Answer
    BY DEF Answer
  <2> QED
    BY <1>1, <1>3, <2>1, AppendProperties
<1>7. /\ \A o \in DOMAIN open : s <= o /\ o \in Nat /\ o < z /\ o \in DOMAIN msg
      /\ z \notin DOMAIN open /\ s <= z /\ s \in Nat
  BY <1>3, OpenFacts
<1>8. Steps
  <2>1. DOMAIN msg' \subseteq 0 .. size' - 1
    BY <1>3, <1>4, <1>5
  <2> QED
    BY <1>2, <1>3, <1>4, <1>6, <2>1, Writes DEF NothingParsed
<1>9. Grows
  BY <1>2, <1>3, <1>4, <1>5, <1>6 DEF Grows
<1>10. MessageOK'
  BY <1>2, <1>3, <1>9, KeptMessage
<1>11. /\ DOMAIN open' = DOMAIN open \cup {z} /\ open'[z] = n /\ \A o \in DOMAIN open : open'[o] = open[o]
  BY <1>1, <1>7 DEF Put
<1>12. TextsOpen(s)'
  <2>1. s \in DOMAIN open \cup {z} /\ SaidAt(s) = recs[start].said
    BY <1>3 DEF TextsOpen
  <2>2. \A o \in DOMAIN open \cup {z} : SaidAt(o)' = SaidAt(o)
    BY <1>4, <1>7, <1>11 DEF SaidAt
  <2>3. ASSUME NEW o \in DOMAIN open
        PROVE /\ s <= o /\ IsLabel(o)' /\ open'[o] \in 0 .. Len(sent') - 1
              /\ sent'[open'[o] + 1] = <<msg'[o].label>>
              /\ Beyond(o)' \in DOMAIN open'
              /\ SaidAt(Beyond(o))' = open'[o] + 1
    <3>1. PICK b : b = Beyond(o)
      OBVIOUS
    <3>2. /\ s <= o /\ IsLabel(o) /\ open[o] \in 0 .. n - 1 /\ sent[open[o] + 1] = <<msg[o].label>>
          /\ b \in DOMAIN open \cup {z} /\ SaidAt(b) = open[o] + 1
      BY <1>3, <3>1 DEF TextsOpen
    <3>3. msg'[o] = msg[o] /\ o \in DOMAIN msg' /\ IsLabel(o)' /\ Beyond(o)' = b
      BY <1>5, <1>7, <3>1, <3>2 DEF IsLabel, Beyond
    <3>4. open'[o] = open[o] /\ sent'[open[o] + 1] = sent[open[o] + 1]
      BY <1>6, <1>11, <3>2
    <3>5. SaidAt(b)' = open[o] + 1
      BY <2>2, <3>2
    <3>6. SaidAt(Beyond(o))' = SaidAt(b)'
      BY <3>3 DEF SaidAt
    <3>7. open[o] \in 0 .. Len(sent') - 1
      BY <1>6, <3>2
    <3> QED
      BY <1>11, <3>2, <3>3, <3>4, <3>5, <3>6, <3>7
  <2>4. /\ s <= z /\ IsLabel(z)' /\ open'[z] \in 0 .. Len(sent') - 1
        /\ sent'[open'[z] + 1] = <<msg'[z].label>>
        /\ Beyond(z)' = size'
        /\ SaidAt(Beyond(z))' = open'[z] + 1
    <3>1. msg'[z].t = "label" /\ msg'[z].label = l /\ z \in DOMAIN msg'
      BY <1>5 DEF LabelItem
    <3>2. IsLabel(z)' /\ Beyond(z)' = size'
      BY <1>1, <3>1 DEF IsLabel, Beyond
    <3>3. SaidAt(Beyond(z))' = n + 1
      BY <1>6, <3>2 DEF SaidAt
    <3> QED
      BY <1>6, <1>7, <1>11, <3>1, <3>2, <3>3
  <2>5. SaidAt(s)' = recs'[start'].said
    BY <1>2, <2>1, <2>2
  <2>6. \A o \in DOMAIN open' :
           /\ s <= o /\ IsLabel(o)' /\ open'[o] \in 0 .. Len(sent') - 1
           /\ sent'[open'[o] + 1] = <<msg'[o].label>>
           /\ Beyond(o)' \in DOMAIN open' \cup {size'}
           /\ SaidAt(Beyond(o))' = open'[o] + 1
    BY <1>11, <2>3, <2>4
  <2> QED
    BY <1>11, <2>1, <2>5, <2>6 DEF TextsOpen
<1>13. RecordOpen'
  <2>1. \A o \in DOMAIN msg' : o <= start \/ o >= start + 12
    BY <1>3, <1>5, <1>7 DEF RecordOpen
  <2>2. "TXT" \notin DOMAIN Named
    BY DEF Named
  <2> QED
    BY <1>2, <1>3, <1>12, <2>1, <2>2 DEF RecordOpen
<1>14. ResolverOK'
  BY <1>2, <1>3, <1>13 DEF ResolverOK, QuestionOK
<1> QED
  BY <1>8, <1>10, <1>14 DEF Steps, ParseIInv

\* The record in hand is closed.
Finishing(m, n, begun) ==
  /\ \A o \in DOMAIN msg : o \in DOMAIN m /\ m[o] = msg[o]
  /\ \A o \in DOMAIN m : o \in Nat /\ o < n /\ (o <= start \/ o >= start + 12)
  /\ size <= n /\ start + 12 <= n
  /\ \A o \in DOMAIN names : o \in DOMAIN names' /\ names'[o] = names[o]
  /\ sent' \in Seq(Answer) /\ Len(sent) <= Len(sent') /\ \A j \in 1 .. Len(sent) : sent'[j] = sent[j]
  /\ start + 12 \in DOMAIN begun /\ begun[start + 12] = recs[start].said
  /\ \A o \in DOMAIN begun : o > start

DatumOf(type, said, end) == [type |-> type, said |-> said, end |-> end]

LEMMA Finishes ==
  ASSUME ParseIInv, pc = "rdata", NEW m, NEW n \in Nat, NEW begun, EndRecord(m, n, begun),
         Finishing(m, n, begun)
  PROVE /\ Grows /\ Steps
        /\ DOMAIN msg' = DOMAIN m \cup {start + 2} /\ \A o \in DOMAIN m : msg'[o] = m[o]
        /\ n \in DOMAIN recs' /\ recs'[n].said = Len(sent')
        /\ DOMAIN data' = DOMAIN data \cup DOMAIN begun
        /\ \A o \in DOMAIN begun : data'[o] = DatumOf(kind, begun[o], n)
        /\ (/\ \A o \in DOMAIN names' \ DOMAIN names : NameOK(o)'
            /\ \A o \in DOMAIN begun : DatumOK(o)') => ParseIInv'
<1> USE DEF Finishing
<1>1. /\ msg' = Put(m, start + 2, [t |-> "fixed", type |-> kind, rdlen |-> n - (start + 12)])
      /\ size' = n /\ start' = n /\ count' = count + 1
      /\ recs' = Put(recs, n, [rec |-> count + 1, said |-> Len(sent')])
      /\ data' = [o \in DOMAIN data \cup DOMAIN begun |->
                    IF o \in DOMAIN data THEN data[o] ELSE [type |-> kind, said |-> begun[o], end |-> n]]
      /\ open' = Empty /\ pc' = "write" /\ kind' = kind /\ UNCHANGED parser
  BY DEF EndRecord
<1>2. /\ size \in Nat /\ start \in Nat /\ start <= size
      /\ sent \in Seq(Answer) /\ count \in 0 .. MaxRR /\ count < MaxRR /\ MaxRR \in Nat /\ kind \in Types
      /\ Values /\ MessageOK /\ QuestionOK /\ start \in DOMAIN recs /\ RecordOpen
  BY BoundAssumption DEF ParseIInv, Values, ParseTypeOK, ResolverOK, RecordOpen
<1>3. \A o \in DOMAIN recs : o \in Nat /\ o <= start /\ recs[o].rec \in Nat /\ recs[o].rec <= count
  BY <1>2, RecFacts
<1>4. \A o \in DOMAIN data : o \in Nat /\ o <= start
  <2>1. \A o \in DOMAIN data : o \in Nat /\ o <= data[o].end /\ data[o].end \in DOMAIN recs
    BY <1>2, DataFacts
  <2> QED
    BY <1>2, <1>3, <2>1
<1>5. DOMAIN data \cap DOMAIN begun = {}
  BY <1>2, <1>4
<1>6. /\ DOMAIN msg' = DOMAIN m \cup {start + 2} /\ \A o \in DOMAIN m : msg'[o] = m[o]
      /\ msg'[start + 2] = [t |-> "fixed", type |-> kind, rdlen |-> n - (start + 12)]
  <2>1. start + 2 \notin DOMAIN m
    BY <1>2
  <2> QED
    BY <1>1, <2>1 DEF Put
<1>7. /\ DOMAIN recs' = DOMAIN recs \cup {n} /\ \A o \in DOMAIN recs : recs'[o] = recs[o]
      /\ recs'[n] = [rec |-> count + 1, said |-> Len(sent')]
  <2>1. n \notin DOMAIN recs
    BY <1>2, <1>3
  <2> QED
    BY <1>1, <2>1 DEF Put
<1>8. /\ DOMAIN data' = DOMAIN data \cup DOMAIN begun /\ \A o \in DOMAIN data : data'[o] = data[o]
      /\ \A o \in DOMAIN begun : data'[o] = DatumOf(kind, begun[o], n)
  BY <1>1, <1>5 DEF DatumOf
<1>9. Grows
  BY <1>1, <1>2, <1>6, <1>7, <1>8 DEF Grows
<1>10. Steps
  <2>1. DOMAIN msg' \subseteq 0 .. size' - 1
    <3>1. \A o \in DOMAIN m : o \in 0 .. n - 1
      BY <1>2
    <3>2. start + 2 \in 0 .. n - 1
      BY <1>2
    <3> QED
      BY <1>1, <1>6, <3>1, <3>2
  <2>2. count' \in 0 .. MaxRR /\ count <= count' /\ start' \in Nat /\ start' <= size' /\ size' \in Nat /\ size <= size'
    BY <1>1, <1>2
  <2> QED
    BY <1>1, <1>2, <2>1, <2>2, Writes DEF NothingParsed
<1>11. \A o \in DOMAIN recs' : RecordOK(o)'
  <2>0. PICK b \in Nat, c \in Nat : b = start /\ c = count
    BY <1>2
  <2>1. Followed(b)'
    <3>1. /\ names'[b].after = b + 2 /\ b \in DOMAIN names'
      BY <1>2, <2>0 DEF RecordOpen
    <3>2. /\ b + 2 \in DOMAIN msg' /\ msg'[b + 2] = [t |-> "fixed", type |-> kind, rdlen |-> n - (b + 12)]
      BY <1>6, <2>0
    <3>3. n - (b + 12) \in Nat /\ (b + 2) + 10 + (n - (b + 12)) = n /\ (b + 2) + 10 = b + 12
      BY <2>0
    <3>4. RdEnd(b + 2)' = n
      BY <3>2, <3>3 DEF RdEnd
    <3>5. b + 12 \in DOMAIN data' /\ data'[b + 12] = [type |-> kind, said |-> recs[b].said, end |-> n]
      BY <1>8, <2>0 DEF DatumOf
    <3>6. recs'[b] = recs[b] /\ recs[b].rec = c /\ recs'[n].rec = c + 1
      BY <1>2, <1>7, <2>0 DEF MessageOK, RecordOK
    <3> QED
      BY <3>1, <3>2, <3>3, <3>4, <3>5, <3>6 DEF Followed
  <2>2. ASSUME NEW o \in DOMAIN recs
        PROVE RecordOK(o)'
    <3>1. RecordOK(o)
      BY <1>2 DEF MessageOK
    <3>2. Followed(o)'
      <4>1. CASE recs[o].rec = c
        BY <2>0, <2>1, <3>1, <4>1 DEF RecordOK
      <4>2. CASE recs[o].rec < c
        BY <1>2, <1>9, <2>0, <3>1, <4>2, KeptFollowed DEF RecordOK
      <4> QED
        BY <1>3, <2>0, <4>1, <4>2
    <3>3. recs'[o] \in [rec : 0 .. count', said : 0 .. Len(sent')]
      <4>1. recs[o] \in [rec : 0 .. count, said : 0 .. Len(sent)] /\ Len(sent) \in Nat /\ Len(sent') \in Nat
        BY <1>2, <3>1 DEF RecordOK
      <4> QED
        BY <1>1, <1>2, <1>7, <4>1
    <3>4. o \in 0 .. start' /\ recs'[o].rec # count' /\ o # start'
      BY <1>1, <1>2, <1>3, <1>7
    <3> QED
      BY <3>2, <3>3, <3>4 DEF RecordOK
  <2>3. RecordOK(n)'
    <3>1. Len(sent') \in Nat
      OBVIOUS
    <3>2. recs'[n] \in [rec : 0 .. count', said : 0 .. Len(sent')] /\ recs'[n].rec = count'
      BY <1>1, <1>2, <1>7, <3>1
    <3> QED
      BY <1>1, <1>2, <3>2 DEF RecordOK
  <2> QED
    BY <1>7, <2>2, <2>3
<1>12. ResolverOK'
  <2>1. QuestionOK'
    BY <1>2, <1>7 DEF QuestionOK
  <2> QED
    BY <1>1, <1>7, <2>1 DEF ResolverOK
<1>13. ASSUME \A o \in DOMAIN names' \ DOMAIN names : NameOK(o)', \A o \in DOMAIN begun : DatumOK(o)'
       PROVE ParseIInv'
  <2>1. \A o \in DOMAIN names' : NameOK(o)'
    BY <1>2, <1>9, <1>13, KeptNames
  <2>2. \A o \in DOMAIN data' : DatumOK(o)'
    BY <1>2, <1>8, <1>9, <1>13, KeptData
  <2> QED
    BY <1>10, <1>11, <1>12, <2>1, <2>2 DEF MessageOK, Steps, ParseIInv
<1> QED
  BY <1>6, <1>7, <1>8, <1>9, <1>10, <1>13

LEMMA Datum ==
  ASSUME NEW o \in Nat, NEW e \in Nat, NEW k \in Types, NEW n \in Nat, o <= e,
         e \in DOMAIN recs', n <= Len(sent'), sent' \in Seq(Answer),
         data'[o] = [type |-> k, said |-> n, end |-> e],
         \/ /\ k \in DOMAIN Address /\ e = o + Address[k]
            /\ sent'[n + 1] = <<k>> /\ recs'[e].said = n + 1
         \/ /\ k \in DOMAIN Named /\ o + Named[k] \in DOMAIN names' /\ names'[o + Named[k]].after = e
            /\ sent'[n + 1] = names'[o + Named[k]].name /\ recs'[e].said = n + 1
         \/ k = "TXT" /\ o = e /\ recs'[o].said = n
         \/ /\ k = "TXT"
            /\ IsLabel(o)'
            /\ Beyond(o)' \in DOMAIN data'
            /\ data'[Beyond(o)'] = [type |-> "TXT", said |-> n + 1, end |-> e]
            /\ sent'[n + 1] = <<msg'[o].label>>
         \/ k = "other" /\ recs'[e].said = n
  PROVE DatumOK(o)'
<1>1. Len(sent') \in Nat
  OBVIOUS
<1>2. /\ data'[o].type = k /\ data'[o].said = n /\ data'[o].end = e
      /\ data'[o] \in [type : Types, said : 0 .. Len(sent'), end : DOMAIN recs']
      /\ o \in 0 .. data'[o].end
  BY <1>1
<1> QED
  BY <1>2 DEF DatumOK, Says

LEMMA EndDataStep ==
  ASSUME ParseIInv, EndData
  PROVE ParseIInv'
<1>1. /\ size \in Nat /\ start \in Nat /\ start <= size /\ DOMAIN msg \subseteq 0 .. size - 1
      /\ sent \in Seq(Answer) /\ kind \in Types /\ pc = "rdata" /\ kind \notin DOMAIN Named
      /\ Values /\ MessageOK /\ QuestionOK /\ start \in DOMAIN recs /\ RecordOpen
      /\ \A o \in DOMAIN msg : o \in Nat /\ o < size /\ (o <= start \/ o >= start + 12)
      /\ kind \in DOMAIN Address \/ kind = "TXT" \/ kind = "other"
  <2>1. /\ size \in Nat /\ start \in Nat /\ start <= size /\ DOMAIN msg \subseteq 0 .. size - 1
        /\ sent \in Seq(Answer) /\ Values /\ MessageOK /\ ResolverOK
    BY DEF ParseIInv, Values
  <2>2. pc = "rdata" /\ kind \notin DOMAIN Named
    BY DEF EndData
  <2>3. QuestionOK /\ start \in DOMAIN recs /\ RecordOpen
    BY <2>1, <2>2 DEF ResolverOK
  <2>4. /\ kind \in Types /\ \A o \in DOMAIN msg : o <= start \/ o >= start + 12
        /\ \A o \in DOMAIN names : names[o].after <= start + 2
        /\ kind # "TXT" => Len(sent) = recs[start].said
    BY <2>3 DEF RecordOpen
  <2>5. \A o \in DOMAIN msg : o \in Nat /\ o < size
    BY <2>1
  <2>6. kind \in DOMAIN Address \/ kind = "TXT" \/ kind = "other"
    BY <2>2, <2>4, TypeCases
  <2> QED
    BY <2>1, <2>2, <2>3, <2>4, <2>5, <2>6
<1>2. /\ sent' = IF kind \in DOMAIN Address THEN Append(sent, <<kind>>) ELSE sent
      /\ names' = names
  BY DEF EndData
<1> PICK k \in Types : k = kind
  BY <1>1
<1> PICK s \in Nat : s = start
  BY <1>1
<1> PICK z \in Nat : z = size
  BY <1>1
<1> PICK c \in Nat : c = Len(sent)
  BY <1>1
<1> PICK m, begun : m = msg /\ begun = Put(open, size, Len(sent))
  OBVIOUS
<1>3. /\ k \in DOMAIN Address => Address[k] \in Nat /\ k \notin {"TXT", "other"}
      /\ "TXT" \notin DOMAIN Address /\ "other" \notin DOMAIN Address
  BY TypeCases DEF Address
<1>4. PICK x \in Nat : x = CASE k \in DOMAIN Address -> Address[k]
                             [] k = "TXT" -> 0
                             [] k = "other" -> 1
  <2>1. CASE k \in DOMAIN Address
    BY <1>3, <2>1
  <2>2. CASE k = "TXT"
    BY <1>3, <2>2
  <2>3. CASE k = "other"
    BY <1>3, <2>3
  <2> QED
    BY <1>1, <2>1, <2>2, <2>3
<1>5. /\ k \in DOMAIN Address => x = Address[k]
      /\ k = "TXT" => x = 0
      /\ k = "other" => x = 1
  BY <1>3, <1>4
<1>6. PICK n \in Nat : n = z + x
  OBVIOUS
<1>7. EndRecord(m, n, begun)
  BY <1>4, <1>6 DEF EndData, EndRecord
<1>8. /\ s + 12 \in DOMAIN open \cup {z}
      /\ \A o \in DOMAIN open : s + 12 <= o /\ o \in Nat /\ o < z
      /\ z \notin DOMAIN open /\ s + 12 <= z
      /\ k = "TXT" => TextsOpen(s + 12) /\ SaidAt(s + 12) = recs[s].said
      /\ k # "TXT" => DOMAIN open = {} /\ z = s + 12 /\ recs[s].said = c
  <2>1. CASE k = "TXT"
    <3>1. PICK t : t = s + 12
      OBVIOUS
    <3>2. TextsOpen(t)
      BY <1>1, <2>1, <3>1 DEF RecordOpen
    <3>3. SaidAt(t) = recs[s].said /\ t \in DOMAIN open \cup {z}
      BY <3>2 DEF TextsOpen
    <3> QED
      BY <1>1, <2>1, <3>1, <3>2, <3>3, OpenFacts
  <2>2. CASE k # "TXT"
    BY <1>1, <2>2, EmptyFacts DEF RecordOpen
  <2> QED
    BY <2>1, <2>2
<1>9. /\ DOMAIN begun = DOMAIN open \cup {z} /\ begun[z] = c
      /\ \A o \in DOMAIN open : begun[o] = open[o]
  BY <1>8 DEF Put
<1>10. begun[s + 12] = recs[s].said
  BY <1>8, <1>9 DEF SaidAt
<1>11. /\ sent' \in Seq(Answer) /\ \A j \in 1 .. c : sent'[j] = sent[j]
       /\ k \in DOMAIN Address => Len(sent') = c + 1 /\ sent'[c + 1] = <<k>>
       /\ k \notin DOMAIN Address => sent' = sent /\ Len(sent') = c
       /\ c <= Len(sent') /\ Len(sent') \in Nat
  <2>1. CASE k \in DOMAIN Address
    <3>1. <<k>> \in Answer
      BY DEF Answer
    <3> QED
      BY <1>1, <1>2, <2>1, <3>1, AppendProperties
  <2>2. CASE k \notin DOMAIN Address
    BY <1>1, <1>2, <2>2
  <2> QED
    BY <2>1, <2>2
<1>12. /\ DOMAIN msg' = DOMAIN m \cup {s + 2} /\ \A o \in DOMAIN m : msg'[o] = m[o]
       /\ n \in DOMAIN recs' /\ recs'[n].said = Len(sent')
       /\ DOMAIN data' = DOMAIN data \cup DOMAIN begun
       /\ \A o \in DOMAIN begun : data'[o] = [type |-> k, said |-> begun[o], end |-> n]
       /\ (\A o \in DOMAIN begun : DatumOK(o)') => ParseIInv'
  <2>1. /\ \A o \in DOMAIN m : o \in Nat /\ o < n /\ (o <= start \/ o >= start + 12)
        /\ size <= n /\ start + 12 <= n
        /\ start + 12 \in DOMAIN begun /\ begun[start + 12] = recs[start].said
        /\ \A o \in DOMAIN begun : o > start
    BY <1>1, <1>6, <1>8, <1>9, <1>10
  <2>2. Len(sent) <= Len(sent') /\ \A j \in 1 .. Len(sent) : sent'[j] = sent[j]
    BY <1>11
  <2> QED
    <3>1. /\ \A o \in DOMAIN msg : o \in DOMAIN m /\ m[o] = msg[o]
          /\ \A o \in DOMAIN names : o \in DOMAIN names' /\ names'[o] = names[o]
          /\ DOMAIN names' \ DOMAIN names = {}
      BY <1>2
    <3>2. /\ DOMAIN msg' = DOMAIN m \cup {start + 2} /\ \A o \in DOMAIN m : msg'[o] = m[o]
          /\ n \in DOMAIN recs' /\ recs'[n].said = Len(sent')
          /\ DOMAIN data' = DOMAIN data \cup DOMAIN begun
          /\ \A o \in DOMAIN begun : data'[o] = DatumOf(kind, begun[o], n)
          /\ (/\ \A o \in DOMAIN names' \ DOMAIN names : NameOK(o)'
              /\ \A o \in DOMAIN begun : DatumOK(o)') => ParseIInv'
      <4>1. Finishing(m, n, begun)
        BY <1>11, <2>1, <2>2, <3>1 DEF Finishing
      <4>2. pc = "rdata" /\ EndRecord(m, n, begun)
        BY <1>1, <1>7
      <4> QED
        BY ONLY ParseIInv, n \in Nat, <4>1, <4>2, Finishes
    <3> QED
      BY <3>1, <3>2 DEF DatumOf
<1>13. ASSUME k # "TXT"
       PROVE \A o \in DOMAIN begun : DatumOK(o)'
  <2>1. DOMAIN begun = {z} /\ data'[z] = [type |-> k, said |-> c, end |-> n]
    BY <1>8, <1>9, <1>12, <1>13
  <2>2. CASE k \in DOMAIN Address
    <3>1. n = z + Address[k] /\ z <= n /\ recs'[n].said = c + 1
      BY <1>5, <1>6, <1>11, <1>12, <2>2
    <3>2. DatumOK(z)'
      BY <1>11, <1>12, <2>1, <2>2, <3>1, Datum
    <3> QED
      BY <2>1, <3>2
  <2>3. CASE k = "other"
    <3>1. z <= n /\ recs'[n].said = c
      BY <1>3, <1>6, <1>11, <1>12, <2>3
    <3>2. DatumOK(z)'
      BY <1>11, <1>12, <2>1, <2>3, <3>1, Datum
    <3> QED
      BY <2>1, <3>2
  <2> QED
    BY <1>1, <1>13, <2>2, <2>3
<1>14. ASSUME k = "TXT"
       PROVE \A o \in DOMAIN begun : DatumOK(o)'
  <2>1. n = z /\ sent' = sent /\ recs'[n].said = c
    BY <1>3, <1>5, <1>6, <1>11, <1>12, <1>14
  <2>2. DatumOK(z)'
    <3>1. data'[z] = [type |-> k, said |-> c, end |-> n]
      BY <1>9, <1>12
    <3> QED
      <4>1. z <= n /\ c <= Len(sent') /\ recs'[z].said = c
        BY <1>11, <2>1
      <4> QED
        BY <1>11, <1>12, <1>14, <2>1, <3>1, <4>1, Datum
  <2>3. ASSUME NEW o \in DOMAIN open
        PROVE DatumOK(o)'
    <3>1. PICK t, b, w : t = s + 12 /\ b = Beyond(o) /\ w = open[o]
      OBVIOUS
    <3>2. /\ IsLabel(o) /\ w \in 0 .. c - 1 /\ sent[w + 1] = <<msg[o].label>>
          /\ b \in DOMAIN open \cup {z} /\ SaidAt(b) = w + 1
      BY <1>8, <1>14, <3>1 DEF TextsOpen
    <3>3. msg'[o] = msg[o] /\ IsLabel(o)' /\ Beyond(o)' = b
      BY <1>12, <3>1, <3>2 DEF IsLabel, Beyond
    <3>4. begun[b] = w + 1
      BY <1>9, <3>2 DEF SaidAt
    <3>5. b \in DOMAIN data' /\ data'[b] = [type |-> "TXT", said |-> w + 1, end |-> n]
      BY <1>9, <1>12, <1>14, <3>2, <3>4
    <3>6. data'[o] = [type |-> k, said |-> w, end |-> n]
      BY <1>9, <1>12, <3>1
    <3>7. o \in Nat /\ o <= n /\ w \in Nat /\ w <= Len(sent')
      BY <1>8, <1>11, <2>1, <3>2
    <3> QED
      BY <1>11, <1>12, <1>14, <2>1, <3>2, <3>3, <3>5, <3>6, <3>7, Datum
  <2> QED
    BY <1>9, <2>2, <2>3
<1> QED
  BY <1>12, <1>13, <1>14

LEMMA EndNameStep ==
  ASSUME ParseIInv, EndName
  PROVE ParseIInv'
<1>1. /\ size \in Nat /\ start \in Nat /\ start <= size /\ DOMAIN msg \subseteq 0 .. size - 1
      /\ sent \in Seq(Answer) /\ kind \in Types /\ pc = "rdata" /\ kind \in DOMAIN Named /\ kind # "TXT"
      /\ Values /\ MessageOK /\ QuestionOK /\ start \in DOMAIN recs /\ RecordOpen
      /\ \A o \in DOMAIN msg : o \in Nat /\ o < size /\ (o <= start \/ o >= start + 12)
      /\ \A o \in DOMAIN names : names[o].after <= start + 2
      /\ Named[kind] \in Nat /\ Len(sent) = recs[start].said
  <2>1. /\ size \in Nat /\ start \in Nat /\ start <= size /\ DOMAIN msg \subseteq 0 .. size - 1
        /\ sent \in Seq(Answer) /\ Values /\ MessageOK /\ ResolverOK
    BY DEF ParseIInv, Values
  <2>2. pc = "rdata" /\ kind \in DOMAIN Named
    BY DEF EndName
  <2>3. QuestionOK /\ start \in DOMAIN recs /\ RecordOpen
    BY <2>1, <2>2 DEF ResolverOK
  <2>4. /\ kind \in Types /\ \A o \in DOMAIN msg : o <= start \/ o >= start + 12
        /\ \A o \in DOMAIN names : names[o].after <= start + 2
        /\ kind # "TXT" => Len(sent) = recs[start].said
    BY <2>3 DEF RecordOpen
  <2>5. \A o \in DOMAIN msg : o \in Nat /\ o < size
    BY <2>1
  <2>6. Named[kind] \in Nat /\ kind # "TXT"
    BY <2>2, <2>4, TypeCases
  <2> QED
    BY <2>1, <2>2, <2>3, <2>4, <2>5, <2>6
<1> PICK k \in Types : k = kind
  BY <1>1
<1> PICK s \in Nat : s = start
  BY <1>1
<1> PICK z \in Nat : z = size
  BY <1>1
<1> PICK c \in Nat : c = Len(sent)
  BY <1>1
<1> PICK v \in Nat : v = s + 12 + Named[k]
  BY <1>1
<1> PICK begun : begun = Put(Empty, start + 12, Len(sent))
  OBVIOUS
<1>2. NameOpen(v)
  BY <1>1 DEF RecordOpen
<1>3. v <= z /\ s + 12 <= z /\ \A o \in DOMAIN open : o >= v
  <2>1. v <= z /\ \A o \in DOMAIN open : v <= o /\ o \in Nat
    BY <1>1, <1>2, OpenFacts
  <2> QED
    BY <1>1, <2>1
<1>4. DOMAIN open \cap DOMAIN names = {}
  <2>1. \A o \in DOMAIN names : o \in Nat /\ o < s + 2
    BY <1>1, NameFacts
  <2> QED
    BY <1>1, <1>3, <2>1
<1>5. DOMAIN begun = {s + 12} /\ begun[s + 12] = c
  BY EmptyFacts DEF Put
<1>6. ASSUME NEW it, NEW rest \in Seq(Label), NEW x \in Nat, x > 0, NEW m, m = Put(msg, z, it),
             NEW n \in Nat, n = z + x,
             names' = Closed(rest, x), sent' = Append(sent, NameWritten), EndRecord(m, n, begun),
             \/ it.t = "end" /\ rest = <<>> /\ x = 1
             \/ /\ it.t = "pointer" /\ x = 2
                /\ it.to \in DOMAIN names /\ rest = names[it.to].name
      PROVE ParseIInv'
  <2>1. /\ DOMAIN m = DOMAIN msg \cup {z} /\ m[z] = it /\ \A o \in DOMAIN msg : m[o] = msg[o]
    BY <1>1, <1>6 DEF Put
  <2>2. /\ size' = n /\ msg' = Put(m, start + 2, [t |-> "fixed", type |-> kind, rdlen |-> n - (start + 12)])
    BY <1>6 DEF EndRecord
  <2>3. \A o \in DOMAIN m : o \in DOMAIN msg' /\ msg'[o] = m[o]
    <3>1. s + 2 \notin DOMAIN m
      <4>1. \A o \in DOMAIN msg : o # s + 2
        BY <1>1
      <4>2. z # s + 2
        BY <1>3
      <4> QED
        BY <2>1, <4>1, <4>2
    <3> QED
      BY <2>2, <3>1 DEF Put
  <2>4. /\ \A o \in DOMAIN names : o \in DOMAIN names' /\ names'[o] = names[o]
        /\ \A o \in DOMAIN names' \ DOMAIN names : NameOK(o)'
        /\ v \in DOMAIN names' /\ names'[v].after = z + x /\ names'[v].name \in Seq(Label)
    <3>1. /\ size' \in Nat /\ size + x <= size' /\ size \in DOMAIN msg' /\ msg'[size] = it
          /\ \A o \in DOMAIN msg : o \in DOMAIN msg' /\ msg'[o] = msg[o]
      <4>1. size' = z + x /\ size = z
        BY <1>6, <2>2
      <4> QED
        BY <2>1, <2>3, <4>1
    <3>2. it.t = "pointer" /\ it.to \in DOMAIN names => names[it.to].after <= size
      <4>1. \A o \in DOMAIN names : names[o].after \in Nat /\ names[o].after <= start + 2
        BY <1>1, NameFacts
      <4> QED
        BY <1>1, <1>3, <4>1
    <3>3. \/ msg'[size].t = "end" /\ rest = <<>> /\ x = 1
          \/ /\ msg'[size].t = "pointer" /\ x = 2
             /\ msg'[size].to \in DOMAIN names /\ rest = names[msg'[size].to].name
             /\ names[msg'[size].to].after <= size
      BY <1>6, <3>1, <3>2
    <3>4. /\ \A o \in DOMAIN names : o \in DOMAIN names' /\ names'[o] = names[o]
          /\ \A o \in DOMAIN names' \ DOMAIN names : NameOK(o)'
          /\ v \in DOMAIN names' /\ names'[v].after = size + x /\ names'[v].name \in Seq(Label)
      <4>1. Closing(rest, x)
        BY <1>4, <3>1, <3>3 DEF Closing
      <4> QED
        BY <1>1, <1>2, <1>6, <4>1, Closes
    <3> QED
      BY <3>4
  <2>5. PICK w \in Seq(Label) : w = names'[v].name
    BY <2>4
  <2>6. NameWritten = w
    BY <1>1, <2>5 DEF NameWritten
  <2>7. /\ sent' \in Seq(Answer) /\ Len(sent') = c + 1 /\ sent'[c + 1] = w
        /\ \A j \in 1 .. c : sent'[j] = sent[j]
    <3>1. w \in Answer
      BY DEF Answer
    <3>2. sent' = Append(sent, w)
      BY <1>6, <2>6
    <3> QED
      BY <1>1, <3>1, <3>2, AppendProperties
  <2>8. /\ n \in DOMAIN recs' /\ recs'[n].said = Len(sent')
        /\ \A o \in DOMAIN begun : data'[o] = [type |-> k, said |-> begun[o], end |-> n]
        /\ (\A o \in DOMAIN begun : DatumOK(o)') => ParseIInv'
    <3>1. /\ \A o \in DOMAIN m : o \in Nat /\ o < n /\ (o <= start \/ o >= start + 12)
          /\ \A o \in DOMAIN msg : o \in DOMAIN m /\ m[o] = msg[o]
          /\ size <= n /\ start + 12 <= n
      <4>1. z < n /\ size = z /\ start = s
        BY <1>6
      <4>2. \A o \in DOMAIN msg : o \in Nat /\ o < n /\ (o <= s \/ o >= s + 12)
        BY <1>1, <4>1
      <4>3. z <= n /\ s + 12 <= n
        BY <1>3, <4>1
      <4> QED
        BY <1>3, <2>1, <4>1, <4>2, <4>3
    <3>2. /\ start + 12 \in DOMAIN begun /\ begun[start + 12] = recs[start].said
          /\ \A o \in DOMAIN begun : o > start
      BY <1>1, <1>5
    <3>3. Len(sent) <= Len(sent') /\ \A j \in 1 .. Len(sent) : sent'[j] = sent[j]
      BY <2>7
    <3>4. /\ n \in DOMAIN recs' /\ recs'[n].said = Len(sent')
          /\ \A o \in DOMAIN begun : data'[o] = DatumOf(kind, begun[o], n)
          /\ (/\ \A o \in DOMAIN names' \ DOMAIN names : NameOK(o)'
              /\ \A o \in DOMAIN begun : DatumOK(o)') => ParseIInv'
      <4>1. Finishing(m, n, begun)
        BY <2>4, <2>7, <3>1, <3>2, <3>3 DEF Finishing
      <4>2. pc = "rdata" /\ EndRecord(m, n, begun)
        BY <1>1, <1>6
      <4> QED
        BY ONLY ParseIInv, n \in Nat, <4>1, <4>2, Finishes
    <3> QED
      BY <2>4, <3>4 DEF DatumOf
  <2>9. DatumOK(s + 12)'
    <3>1. PICK o \in Nat : o = s + 12
      OBVIOUS
    <3>2. o <= n /\ c <= Len(sent') /\ o + Named[k] = v
      BY <1>1, <1>3, <1>6, <2>7, <3>1
    <3>3. data'[o] = [type |-> k, said |-> c, end |-> n]
      BY <1>5, <2>8, <3>1
    <3>4. names'[o + Named[k]].after = n /\ o + Named[k] \in DOMAIN names'
          /\ sent'[c + 1] = names'[o + Named[k]].name /\ recs'[n].said = c + 1
      BY <1>6, <2>4, <2>5, <2>7, <2>8, <3>2
    <3>5. DatumOK(o)'
      BY <1>1, <2>7, <2>8, <3>2, <3>3, <3>4, Datum
    <3> QED
      BY <3>1, <3>5
  <2> QED
    BY <1>5, <2>8, <2>9
<1>7. CASE /\ names' = Closed(<<>>, 1)
           /\ sent' = Append(sent, NameWritten)
           /\ EndRecord(Put(msg, size, [t |-> "end"]), size + 1, Put(Empty, start + 12, Len(sent)))
  <2>1. PICK it, m, n : it = [t |-> "end"] /\ m = Put(msg, z, it) /\ n = z + 1
    OBVIOUS
  <2> n \in Nat
    BY <2>1
  <2>2. EndRecord(m, n, begun)
    BY <1>7, <2>1 DEF EndRecord
  <2>3. it.t = "end" /\ <<>> \in Seq(Label)
    BY <2>1
  <2> QED
    <3>1. 1 \in Nat /\ 1 > 0
      OBVIOUS
    <3> QED
      BY <1>6, <1>7, <2>1, <2>2, <2>3, <3>1
<1>8. ASSUME NEW o \in Targets,
             names' = Closed(names[o].name, 2),
             sent' = Append(sent, NameWritten),
             EndRecord(Put(msg, size, PointerItem(o)), size + 2, Put(Empty, start + 12, Len(sent)))
      PROVE ParseIInv'
  <2>1. PICK it, m, rest : it = PointerItem(o) /\ m = Put(msg, z, it) /\ rest = names[o].name
    OBVIOUS
  <2>2. PICK n \in Nat : n = z + 2
    OBVIOUS
  <2>3. EndRecord(m, n, begun)
    BY <1>8, <2>1, <2>2 DEF EndRecord
  <2>4. it.t = "pointer" /\ it.to = o /\ o \in DOMAIN names
    BY <2>1 DEF PointerItem, Targets
  <2>5. rest \in Seq(Label)
    BY <1>1, <2>1, <2>4, NameFacts
  <2>6. names' = Closed(rest, 2)
    BY <1>8, <2>1
  <2> QED
    <3>1. 2 \in Nat /\ 2 > 0 /\ it.to \in DOMAIN names /\ rest = names[it.to].name
      BY <2>1, <2>4
    <3> QED
      BY <1>6, <1>8, <2>1, <2>2, <2>3, <2>4, <2>5, <2>6, <3>1
<1> QED
  BY <1>7, <1>8 DEF EndName

-----------------------------------------------------------------------------
(* The theorems.                                                           *)

LEMMA AtFirst ==
  ASSUME ParseInit
  PROVE ParseIInv
<1>1. /\ DOMAIN msg = {} /\ DOMAIN open = {} /\ DOMAIN names = {} /\ DOMAIN recs = {} /\ DOMAIN data = {}
      /\ size = 12 /\ start = 0 /\ kind = "other" /\ count = 0 /\ sent = <<>> /\ pc = "ask" /\ len = 0
      /\ off = 0 /\ ai = 0 /\ txt = 0 /\ question = <<>> /\ answers = <<>> /\ ok = FALSE /\ top = 0
  BY EmptyFacts DEF ParseInit
<1>2. /\ nm \in NameReturn /\ nm.off = 0
      /\ rr \in [type : Types \cup {"other"}, rdlen : Nat, rdoff : Nat]
  BY DEF ParseInit, idle, Call, NameReturn
<1>3. Values
  <2>1. ParseTypeOK
    <3>1. 0 \in 0 .. MaxRR /\ 0 <= MAX_ANS /\ Len(<<>>) = 0 /\ <<>> \in Seq(Label)
      BY BoundAssumption
    <3>2. /\ count \in 0 .. MaxRR /\ len \in 0 .. size /\ off \in 0 .. len
          /\ ai \in 0 .. count /\ nm.off \in 0 .. size
      BY <1>1, <1>2, <3>1
    <3>3. question \in Seq(Label) /\ Len(answers) <= MAX_ANS /\ ok \in BOOLEAN /\ pc = "ask"
      BY <1>1, <3>1
    <3> QED
      BY <3>2, <3>3 DEF ParseTypeOK
  <2> QED
    BY <1>1, <1>2, <2>1 DEF Values, NameReturn
<1>4. MessageOK
  BY <1>1 DEF MessageOK
<1>5. ResolverOK
  <2>1. NameOpen(12)
    BY <1>1 DEF NameOpen
  <2> QED
    BY <1>1, <2>1 DEF ResolverOK
<1>6. TaskOK
  BY <1>1 DEF TaskOK, Task
<1>7. InBounds /\ Recovers /\ SaysPrefix
  BY <1>1 DEF InBounds, Recovers, SaysPrefix
<1> QED
  BY <1>3, <1>4, <1>5, <1>6, <1>7 DEF ParseIInv

LEMMA FrameStep ==
  ASSUME NextFrame
  PROVE ParseIInv'
<1>1. /\ DOMAIN msg' = {} /\ DOMAIN open' = {} /\ DOMAIN names' = {} /\ DOMAIN recs' = {} /\ DOMAIN data' = {}
      /\ size' = 12 /\ start' = 0 /\ kind' = "other" /\ count' = 0 /\ sent' = <<>> /\ pc' = "ask" /\ len' = 0
      /\ off' = 0 /\ ai' = 0 /\ txt' = 0 /\ question' = <<>> /\ answers' = <<>> /\ ok' = FALSE /\ top' = 0
  BY EmptyFacts DEF NextFrame
<1>2. /\ nm' \in NameReturn /\ nm'.off = 0
      /\ rr' \in [type : Types \cup {"other"}, rdlen : Nat, rdoff : Nat]
  BY DEF NextFrame, idle, Call, NameReturn
<1>3. Values'
  <2>1. ParseTypeOK'
    <3>1. 0 \in 0 .. MaxRR /\ 0 <= MAX_ANS /\ Len(<<>>) = 0 /\ <<>> \in Seq(Label)
      BY BoundAssumption
    <3>2. /\ count' \in 0 .. MaxRR /\ len' \in 0 .. size' /\ off' \in 0 .. len'
          /\ ai' \in 0 .. count' /\ nm'.off \in 0 .. size'
      BY <1>1, <1>2, <3>1
    <3>3. question' \in Seq(Label) /\ Len(answers') <= MAX_ANS /\ ok' \in BOOLEAN /\ pc' = "ask"
      BY <1>1, <3>1
    <3> QED
      BY <3>2, <3>3 DEF ParseTypeOK
  <2> QED
    BY <1>1, <1>2, <2>1 DEF Values, NameReturn
<1>4. MessageOK'
  BY <1>1 DEF MessageOK
<1>5. ResolverOK'
  <2>1. NameOpen(12)'
    BY <1>1 DEF NameOpen
  <2> QED
    BY <1>1, <2>1 DEF ResolverOK
<1>6. TaskOK'
  BY <1>1 DEF TaskOK, Task
<1>7. InBounds' /\ Recovers' /\ SaysPrefix'
  BY <1>1 DEF InBounds, Recovers, SaysPrefix
<1> QED
  BY <1>3, <1>4, <1>5, <1>6, <1>7 DEF ParseIInv

\* A step of the parser.
LEMMA ParserStep ==
  ASSUME ParseIInv, ParsePacket \/ parse_dns \/ read_name
  PROVE ParseIInv'
<1>1. Steps
  BY PacketStep, HeaderStep, QuestionStep, NextAnswerStep, RecordStep, DataStep, NamedStep, TextStep,
     ReadStep DEF parse_dns
<1>2. UNCHANGED message /\ pc \notin {"ask", "rdata"}
  BY DEF ParsePacket, parse_dns, ParseHeader, ParseQuestion, NextAnswer, ParseRecord, ParseData,
         ParseNamed, ParseText, read_name
<1>3. pc' \notin {"ask", "rdata"}
  <2>1. CASE ParsePacket
    BY <2>1 DEF ParsePacket
  <2>2. CASE parse_dns
    BY <2>2 DEF parse_dns, ParseHeader, ParseQuestion, NextAnswer, ParseRecord, ParseData,
                ParseNamed, ParseText, Return, NextRecord
  <2>3. CASE read_name
    <3>1. pc' \in {"name", nm.then}
      BY <2>3 DEF read_name, NameReturns, NameEnd, NamePointer, NameLabel, Follow
    <3> QED
      BY <3>1 DEF ParseIInv, Values
  <2> QED
    BY <2>1, <2>2, <2>3
<1>4. MessageOK' /\ ResolverOK'
  BY <1>2, <1>3, MessageSame
<1> QED
  BY <1>1, <1>4 DEF Steps, ParseIInv

LEMMA NothingHappens ==
  ASSUME ParseIInv, UNCHANGED parseVars
  PROVE ParseIInv'
<1>1. /\ msg' = msg /\ size' = size /\ open' = open /\ names' = names /\ start' = start /\ kind' = kind
      /\ count' = count /\ sent' = sent /\ recs' = recs /\ data' = data
  BY DEF parseVars, message
<1>2. /\ pc' = pc /\ len' = len /\ off' = off /\ ai' = ai /\ nm' = nm /\ rr' = rr /\ txt' = txt /\ top' = top
      /\ question' = question /\ answers' = answers /\ ok' = ok
  BY DEF parseVars, result
<1>3. Values' /\ InBounds' /\ Recovers' /\ SaysPrefix'
  <2>1. ParseTypeOK' = ParseTypeOK
    BY <1>1, <1>2 DEF ParseTypeOK
  <2>2. Values'
    BY <1>1, <1>2, <2>1 DEF ParseIInv, Values
  <2> QED
    BY <1>1, <1>2, <2>2 DEF ParseIInv, InBounds, Recovers, SaysPrefix, asked
<1>4. MessageOK'
  <2>1. \A o : /\ NameOK(o) => NameOK(o)'
               /\ RecordOK(o) => RecordOK(o)'
               /\ DatumOK(o) => DatumOK(o)'
    BY <1>1 DEF NameOK, RecordOK, Followed, DatumOK, IsLabel, Beyond, RdEnd, Says
  <2> QED
    BY <1>1, <2>1 DEF ParseIInv, MessageOK
<1>5. ResolverOK'
  <2>1. \A s : /\ NameOpen(s) => NameOpen(s)'
               /\ TextsOpen(s) => TextsOpen(s)'
    BY <1>1 DEF NameOpen, TextsOpen, SaidAt, IsLabel, Beyond
  <2>2. RecordOpen => RecordOpen'
    BY <1>1, <2>1 DEF RecordOpen
  <2> QED
    BY <1>1, <1>2, <2>1, <2>2 DEF ParseIInv, ResolverOK, QuestionOK
<1>6. TaskOK'
  <2>1. \A s : NameAt(s) => NameAt(s)'
    BY <1>1, <1>2 DEF NameAt, Reading, HasRead
  <2>2. \A o : InData(o) => InData(o)'
    BY <1>1, <1>2 DEF InData, Kept, asked
  <2>3. Between => Between'
    BY <1>1, <1>2 DEF Between, Kept, asked
  <2>4. Task' = Task
    BY <1>2 DEF Task
  <2> QED
    BY <1>1, <1>2, <2>1, <2>2, <2>3, <2>4 DEF ParseIInv, TaskOK
<1> QED
  BY <1>3, <1>4, <1>5, <1>6 DEF ParseIInv

\* The message is what the resolver wrote, and the parser is where it should be in it:
\* read_name keeps to the name it was called for wherever pointers lead it, and parse_dns
\* has kept exactly the answers before the record, or the text, it is at.
THEOREM ParseInvariant == ParseSpec => []ParseIInv
<1>1. ParseInit => ParseIInv
  BY AtFirst
<1>2. ParseIInv /\ [ParseNext]_parseVars => ParseIInv'
  <2> SUFFICES ASSUME ParseIInv, [ParseNext]_parseVars
               PROVE ParseIInv'
    OBVIOUS
  <2>1. CASE Resolver
    BY <2>1, LabelStep, EndQuestionStep, BeginStep, EndDataStep, EndNameStep, WriteTextStep DEF Resolver
  <2>2. CASE ParsePacket \/ parse_dns \/ read_name
    BY <2>2, ParserStep
  <2>3. CASE NextFrame
    BY <2>3, FrameStep
  <2>4. CASE UNCHANGED parseVars
    BY <2>4, NothingHappens
  <2> QED
    BY <2>1, <2>2, <2>3, <2>4 DEF ParseNext
<1> QED
  BY <1>1, <1>2, PTL DEF ParseSpec

\* Every offset parse_dns and read_name keep is inside what was captured, and add_answer
\* never keeps more than MAX_ANS answers, however many records a message has.
THEOREM ParseTypeCorrect == ParseSpec => []ParseTypeOK
<1>1. ParseIInv => ParseTypeOK
  BY DEF ParseIInv, Values
<1> QED
  BY <1>1, ParseInvariant, PTL

\* The checks against len in read_name and parse_dns are enough: wherever the capture cut
\* the message, no octet behind the cut is read.
THEOREM NothingBehindCut == ParseSpec => []InBounds
<1>1. ParseIInv => InBounds
  BY DEF ParseIInv
<1> QED
  BY <1>1, ParseInvariant, PTL

\* A whole message, of any number of records, labels and texts and with any compression
\* of its names, is parsed to its question and its first MAX_ANS answers, in order.
THEOREM WholeRecovered == ParseSpec => []Recovers
<1>1. ParseIInv => Recovers
  BY DEF ParseIInv
<1> QED
  BY <1>1, ParseInvariant, PTL

\* What parse_dns says of a message cut anywhere is its question and a prefix of its
\* answers: none is half read, made up or out of order.
THEOREM CutSaysPrefix == ParseSpec => []SaysPrefix
<1>1. ParseIInv => SaysPrefix
  BY DEF ParseIInv
<1> QED
  BY <1>1, ParseInvariant, PTL
=============================================================================
