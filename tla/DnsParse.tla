------------------------------ MODULE DnsParse ------------------------------
(***************************************************************************)
(* The dns tracer's parser (c/dns.c: parse_packet, parse_dns, read_name).  *)
(* A resolver writes a message, with names compressed by pointers; the     *)
(* capture may hold only the beginning of its frame.  The parser walks it  *)
(* octet by octet, and what it says is compared with what was written.     *)
(*                                                                         *)
(* Messages are those a resolver writes: a pointer refers to a name before *)
(* it, lengths are right, a name fits into the parser's 256 octets.  What  *)
(* the parser does with other octets is not modelled.                      *)
(***************************************************************************)
EXTENDS Integers, FiniteSets, Sequences

CONSTANTS Label,      \* labels of names, and texts
          LabelLen,   \* label -> its octets
          Types,      \* record types that occur
          MaxLabels,  \* bound: labels that are written of a name
          MaxTexts,   \* bound: texts of a record
          MaxRR,      \* bound: answer records
          MAX_ANS

\* What the record types hold: an address of so many octets; a name after so many octets.
Address == [A |-> 4, AAAA |-> 16]
Named == [CNAME |-> 0, NS |-> 0, PTR |-> 0, MX |-> 2, SRV |-> 6]

ASSUME LabelAssumption == LabelLen \in [Label -> 1 .. 63]
ASSUME TypesAssumption == Types \subseteq DOMAIN Address \cup DOMAIN Named \cup {"TXT", "other"}
ASSUME BoundAssumption == {MaxLabels, MaxTexts, MaxRR, MAX_ANS} \subseteq Nat

VARIABLES msg,       \* the message: the octets that mean something, by their offset
          size,      \* its length so far
          open,      \* resolver: what has been written of the name or the texts in hand
          names,     \* resolver: offset -> the name that is there, and where it ends
          start,     \* resolver: where the record in hand begins, or the next one will
          kind,      \* resolver: the type of the record in hand
          count,     \* resolver: answer records, the header's ANCOUNT
          sent,      \* resolver: the answers
          recs,      \* history: where a record begins -> its number, the answers before it
          data,      \* history: where data or a text begin -> the same, and where they end
          pc,
          len,       \* octets of the message in the capture
          off,       \* parse_dns: off
          ai,        \* parse_dns: i, of answers
          nm,        \* read_name: its locals
          rr,        \* parse_dns: rtype, rdlen, rdoff
          txt,       \* parse_dns: p, in a TXT record
          question, answers, ok,
          top        \* history: octets of the message up to the last one read

message == <<msg, size, open, names, start, kind, count, sent, recs, data>>
result == <<question, answers, ok>>
parseVars == <<message, pc, len, off, ai, nm, rr, txt, result, top>>

Empty == [o \in {} |-> 0]
Put(f, o, v) == [q \in DOMAIN f \cup {o} |-> IF q = o THEN v ELSE f[q]]

\* read_name called for what is at o; it goes on at then.
Call(o, then) == [off |-> o, orig |-> -1, name |-> <<>>, then |-> then, ret |-> -1]
idle == [nm |-> Call(0, "none"), rr |-> [type |-> "other", rdlen |-> 0, rdoff |-> 0]]

\* The header has been written.
ParseInit ==
  /\ msg = Empty /\ size = 12 /\ open = Empty /\ names = Empty
  /\ start = 0 /\ kind = "other" /\ count = 0 /\ sent = <<>> /\ recs = Empty /\ data = Empty
  /\ pc = "ask"
  /\ len = 0
  /\ off = 0
  /\ ai = 0
  /\ nm = idle.nm
  /\ rr = idle.rr
  /\ txt = 0
  /\ question = <<>>
  /\ answers = <<>>
  /\ ok = FALSE
  /\ top = 0

parser == <<len, off, ai, nm, rr, txt, result, top>>

-----------------------------------------------------------------------------
(* The resolver.                                                           *)

LabelItem(l) == [t |-> "label", label |-> l]
PointerItem(o) == [t |-> "pointer", to |-> o]

\* What a pointer of 14 bits may refer to.
Targets == {o \in DOMAIN names : o < 16384 /\ msg[o].t = "label"}

\* A label of the question or of a name in a record's data.
WriteLabel ==
  /\ pc = "ask" \/ (pc = "rdata" /\ kind \in DOMAIN Named)
  /\ Cardinality(DOMAIN open) < MaxLabels
  /\ \E l \in Label :
       /\ msg' = Put(msg, size, LabelItem(l))
       /\ size' = size + 1 + LabelLen[l]
       /\ open' = [o \in DOMAIN open \cup {size} |-> IF o = size THEN <<l>> ELSE Append(open[o], l)]
  /\ UNCHANGED <<names, start, kind, count, sent, recs, data, pc, parser>>

\* The name in hand ends with n octets that stand for rest: it is known now, and so is
\* what begins with any of its labels.
Closed(rest, n) ==
  [o \in DOMAIN names \cup DOMAIN open \cup {size} |->
     IF o \in DOMAIN names THEN names[o]
     ELSE [name |-> IF o = size THEN rest ELSE open[o] \o rest, after |-> size + n]]

\* The end of the question's name, its type and class.
EndQuestion ==
  /\ pc = "ask"
  /\ msg' = Put(msg, size, [t |-> "end"])
  /\ names' = Closed(<<>>, 1)
  /\ size' = size + 5
  /\ start' = size + 5
  /\ recs' = Put(recs, size + 5, [rec |-> 0, said |-> 0])
  /\ open' = Empty
  /\ pc' = "write"
  /\ UNCHANGED <<kind, count, sent, data, parser>>

\* A record has its owner, a pointer; then type, class, lifetime and the length of its
\* data, ten octets, to be filled in; then its data.
BeginRecord ==
  /\ pc = "write"
  /\ count < MaxRR
  /\ \E type \in Types, o \in Targets :
       /\ kind' = type
       /\ msg' = Put(msg, size, PointerItem(o))
       /\ names' = Put(names, size, [name |-> names[o].name, after |-> size + 2])
       /\ size' = size + 12 + IF type \in DOMAIN Named THEN Named[type] ELSE 0
  /\ pc' = "rdata"
  /\ UNCHANGED <<open, start, count, sent, recs, data, parser>>

\* The record in hand ends at n; begun are its data, or its texts.
EndRecord(m, n, begun) ==
  /\ msg' = Put(m, start + 2, [t |-> "fixed", type |-> kind, rdlen |-> n - (start + 12)])
  /\ size' = n
  /\ start' = n
  /\ count' = count + 1
  /\ recs' = Put(recs, n, [rec |-> count + 1, said |-> Len(sent')])
  /\ data' = [o \in DOMAIN data \cup DOMAIN begun |->
                IF o \in DOMAIN data THEN data[o] ELSE [type |-> kind, said |-> begun[o], end |-> n]]
  /\ open' = Empty
  /\ pc' = "write"
  /\ UNCHANGED <<kind, parser>>

\* The data are an address, the texts so far, or one octet of something else.
EndData ==
  /\ pc = "rdata"
  /\ kind \notin DOMAIN Named
  /\ sent' = IF kind \in DOMAIN Address THEN Append(sent, <<kind>>) ELSE sent
  /\ EndRecord(msg, size + CASE kind \in DOMAIN Address -> Address[kind]
                             [] kind = "TXT" -> 0
                             [] kind = "other" -> 1,
               Put(open, size, Len(sent)))
  /\ UNCHANGED names

\* The data are a name: the root ends it, or a pointer to a name written before.
NameWritten == names'[start + 12 + Named[kind]].name

EndName ==
  /\ pc = "rdata"
  /\ kind \in DOMAIN Named
  /\ \/ /\ names' = Closed(<<>>, 1)
        /\ sent' = Append(sent, NameWritten)
        /\ EndRecord(Put(msg, size, [t |-> "end"]), size + 1, Put(Empty, start + 12, Len(sent)))
     \/ \E o \in Targets :
          /\ names' = Closed(names[o].name, 2)
          /\ sent' = Append(sent, NameWritten)
          /\ EndRecord(Put(msg, size, PointerItem(o)), size + 2, Put(Empty, start + 12, Len(sent)))

WriteText ==
  /\ pc = "rdata"
  /\ kind = "TXT"
  /\ Cardinality(DOMAIN open) < MaxTexts
  /\ \E l \in Label :
       /\ msg' = Put(msg, size, LabelItem(l))
       /\ size' = size + 1 + LabelLen[l]
       /\ open' = Put(open, size, Len(sent))
       /\ sent' = Append(sent, <<l>>)
  /\ UNCHANGED <<names, start, kind, count, recs, data, pc, parser>>

Resolver == WriteLabel \/ EndQuestion \/ BeginRecord \/ EndData \/ EndName \/ WriteText

-----------------------------------------------------------------------------
(* parse_packet, then parse_dns.                                           *)

Touch(n) == top' = IF n > top THEN n ELSE top

\* parse_packet: an IP header (of version 4, its options too, or 6), a UDP header (port
\* 53) and the message, or as much of them as was captured.  Other frames are dropped.
ParsePacket ==
  /\ pc = "write"
  /\ \E ihl \in {20, 24, 40} : \E flen \in 0 .. 14 + ihl + 8 + size :
       LET iplen == flen - 14
           whole == flen >= 14 /\ iplen >= ihl + 8
       IN /\ len' = IF whole THEN iplen - ihl - 8 ELSE 0
          /\ pc' = IF whole THEN "header" ELSE "done"
  /\ UNCHANGED <<message, off, ai, nm, rr, txt, result, top>>

Return(b) == pc' = "done" /\ ok' = b /\ UNCHANGED <<question, answers>>

ParseHeader ==
  /\ pc = "header"
  /\ \/ len < 12 /\ Return(FALSE) /\ UNCHANGED <<off, nm, top>>
     \/ len >= 12 /\ pc' = "name" /\ off' = 12 /\ nm' = Call(12, "question") /\ Touch(12) /\ UNCHANGED result
  /\ UNCHANGED <<message, len, ai, rr, txt>>

\* read_name, one octet that begins something at a time.
NameReturns(r) == pc' = nm.then /\ nm' = [nm EXCEPT !.ret = r]

NameEnd ==
  /\ msg[nm.off].t = "end"
  /\ Touch(nm.off + 1)
  /\ NameReturns(IF nm.orig = -1 THEN nm.off + 1 ELSE nm.orig)

Follow(orig) == nm' = [nm EXCEPT !.orig = orig, !.off = msg[nm.off].to] /\ UNCHANGED pc

\* Mutants: a pointer drops the labels before it; it is not checked for its second octet.
NamePointerDrops ==
  /\ msg[nm.off].t = "pointer"
  /\ \/ nm.off + 2 > len /\ NameReturns(-1) /\ UNCHANGED top
     \/ /\ nm.off + 2 <= len
        /\ Touch(nm.off + 2)
        /\ nm' = [nm EXCEPT !.orig = IF @ = -1 THEN nm.off + 2 ELSE @, !.off = msg[nm.off].to, !.name = <<>>]
        /\ UNCHANGED pc
NamePointerUnchecked ==
  /\ msg[nm.off].t = "pointer"
  /\ Touch(nm.off + 2)
  /\ Follow(IF nm.orig = -1 THEN nm.off + 2 ELSE nm.orig)

NamePointer ==
  /\ msg[nm.off].t = "pointer"
  /\ \/ nm.off + 2 > len /\ NameReturns(-1) /\ UNCHANGED top
     \/ nm.off + 2 <= len /\ Touch(nm.off + 2) /\ Follow(IF nm.orig = -1 THEN nm.off + 2 ELSE nm.orig)

NameLabel ==
  /\ msg[nm.off].t = "label"
  /\ LET l == msg[nm.off].label
         next == nm.off + 1 + LabelLen[l]
     IN \/ next > len /\ NameReturns(-1) /\ Touch(nm.off + 1)
        \/ /\ next <= len
           /\ Touch(next)
           /\ nm' = [nm EXCEPT !.off = next, !.name = Append(@, l)]
           /\ UNCHANGED pc

read_name ==
  /\ pc = "name"
  /\ \/ nm.off >= len /\ NameReturns(-1) /\ UNCHANGED top
     \/ nm.off < len /\ (NameEnd \/ NamePointer \/ NameLabel)
  /\ UNCHANGED <<message, len, off, ai, rr, txt, result>>

\* The question, whole or the message is rejected.
ParseQuestion ==
  /\ pc = "question"
  /\ \/ (nm.ret = -1 \/ nm.ret + 4 > len) /\ Return(FALSE) /\ UNCHANGED <<off, top>>
     \/ /\ nm.ret # -1 /\ nm.ret + 4 <= len
        /\ off' = nm.ret + 4
        /\ question' = nm.name
        /\ pc' = "answer"
        /\ Touch(nm.ret + 4)
        /\ UNCHANGED <<answers, ok>>
  /\ nm' = idle.nm
  /\ UNCHANGED <<message, len, ai, rr, txt>>

NextAnswer ==
  /\ pc = "answer"
  /\ \/ ai = count /\ Return(TRUE) /\ UNCHANGED nm
     \/ ai < count /\ pc' = "name" /\ nm' = Call(off, "owner") /\ UNCHANGED result
  /\ UNCHANGED <<message, len, off, ai, rr, txt, top>>

\* Mutant: the data of a record are not checked against the end.
FitsBlind(end) == TRUE

\* Where the data of the record end whose type is at o, and whether they are all there.
RdEnd(o) == o + 10 + msg[o].rdlen
Fits(end) == end <= len

\* A record whose fixed part or data are not all there ends the parse; what was read
\* before it counts.
ParseRecord ==
  /\ pc = "owner"
  /\ LET o == nm.ret
     IN \/ (o = -1 \/ o + 10 > len) /\ Return(TRUE) /\ UNCHANGED <<off, rr, top>>
        \/ /\ o # -1 /\ o + 10 <= len
           /\ ~Fits(RdEnd(o))
           /\ Touch(o + 10)
           /\ Return(TRUE) /\ UNCHANGED <<off, rr>>
        \/ /\ o # -1 /\ o + 10 <= len
           /\ Fits(RdEnd(o))
           /\ Touch(o + 10)
           /\ off' = RdEnd(o)
           /\ rr' = [type |-> msg[o].type, rdlen |-> msg[o].rdlen, rdoff |-> o + 10]
           /\ pc' = "data"
           /\ UNCHANGED result
  /\ nm' = idle.nm
  /\ UNCHANGED <<message, len, ai, txt>>

\* Mutant: as many answers are kept as there are.
add_answerAll(a) == answers' = Append(answers, a)

\* MAX_ANS answers are kept.
add_answer(a) == answers' = IF Len(answers) < MAX_ANS THEN Append(answers, a) ELSE answers

NextRecord == ai' = ai + 1 /\ pc' = "answer" /\ rr' = idle.rr

\* The octets of an address; behind the cut the buffer holds those of an older frame.
AddressOctets == IF rr.rdoff + rr.rdlen <= len THEN <<rr.type>> ELSE <<"old">>

ParseData ==
  /\ pc = "data"
  /\ \/ /\ rr.type \in DOMAIN Address
        /\ IF rr.rdlen = Address[rr.type]
             THEN add_answer(AddressOctets) /\ Touch(rr.rdoff + rr.rdlen)
             ELSE UNCHANGED <<answers, top>>
        /\ NextRecord
        /\ UNCHANGED <<nm, txt>>
     \/ /\ rr.type \in DOMAIN Named
        /\ IF Named[rr.type] = 0 \/ rr.rdlen > Named[rr.type]
             THEN nm' = Call(rr.rdoff + Named[rr.type], "named") /\ pc' = "name" /\ UNCHANGED <<ai, rr>>
             ELSE NextRecord /\ UNCHANGED nm
        /\ UNCHANGED <<answers, top, txt>>
     \/ rr.type = "TXT" /\ txt' = 0 /\ pc' = "text" /\ UNCHANGED <<ai, nm, rr, answers, top>>
     \/ rr.type = "other" /\ NextRecord /\ UNCHANGED <<nm, answers, top, txt>>
  /\ UNCHANGED <<message, len, off, question, ok>>

ParseNamed ==
  /\ pc = "named"
  /\ IF nm.ret # -1 THEN add_answer(nm.name) ELSE UNCHANGED answers
  /\ NextRecord
  /\ nm' = idle.nm
  /\ UNCHANGED <<message, len, off, txt, question, ok, top>>

\* One text of a TXT record; one that would run over its end is the last.
ParseText ==
  /\ pc = "text"
  /\ \/ txt >= rr.rdlen /\ NextRecord /\ UNCHANGED <<answers, txt, top>>
     \/ /\ txt < rr.rdlen
        /\ LET l == msg[rr.rdoff + txt].label
               next == txt + 1 + LabelLen[l]
           IN IF next > rr.rdlen
                THEN NextRecord /\ Touch(rr.rdoff + txt + 1) /\ UNCHANGED <<answers, txt>>
                ELSE add_answer(<<l>>) /\ txt' = next /\ Touch(rr.rdoff + next) /\ UNCHANGED <<ai, pc, rr>>
  /\ UNCHANGED <<message, len, off, nm, question, ok>>

\* The loop of dns_main comes to the next frame.
NextFrame ==
  /\ pc = "done"
  /\ msg' = Empty /\ size' = 12 /\ open' = Empty /\ names' = Empty
  /\ start' = 0 /\ kind' = "other" /\ count' = 0 /\ sent' = <<>> /\ recs' = Empty /\ data' = Empty
  /\ pc' = "ask" /\ len' = 0 /\ off' = 0 /\ ai' = 0 /\ nm' = idle.nm /\ rr' = idle.rr /\ txt' = 0
  /\ question' = <<>> /\ answers' = <<>> /\ ok' = FALSE /\ top' = 0

parse_dns == ParseHeader \/ ParseQuestion \/ NextAnswer \/ ParseRecord \/ ParseData \/ ParseNamed \/ ParseText

ParseNext == Resolver \/ ParsePacket \/ parse_dns \/ read_name \/ NextFrame

ParseSpec == ParseInit /\ [][ParseNext]_parseVars

-----------------------------------------------------------------------------
(* Properties.                                                             *)

\* The state is well formed: offsets stay inside what was captured, and no more than
\* MAX_ANS answers are kept.
ParseTypeOK ==
  /\ count \in 0 .. MaxRR
  /\ pc \in {"ask", "write", "rdata", "header", "name", "question",
             "answer", "owner", "data", "named", "text", "done"}
  /\ len \in 0 .. size
  /\ off \in 0 .. len
  /\ ai \in 0 .. count
  /\ nm.off \in 0 .. size
  /\ txt \in 0 .. rr.rdlen \/ pc # "text"
  /\ question \in Seq(Label)
  /\ Len(answers) <= MAX_ANS
  /\ ok \in BOOLEAN

\* Of a message cut anywhere no octet behind the cut is read (the checks against len in
\* read_name and parse_dns), neither by following a pointer nor in a record's data.
InBounds == top <= len

asked == names[12].name
IsPrefixOf(s, t) == Len(s) <= Len(t) /\ s = SubSeq(t, 1, Len(s))

\* A whole message is parsed to what was written: its question, and its answers in order
\* up to MAX_ANS, with the names that pointers stand for and past records of other types.
Recovers ==
  pc = "done" /\ len = size =>
    /\ ok
    /\ question = asked
    /\ answers = SubSeq(sent, 1, IF Len(sent) < MAX_ANS THEN Len(sent) ELSE MAX_ANS)

\* What is said of a message cut anywhere is true of the whole: its question and the
\* first of its answers, none of them half.
SaysPrefix == pc = "done" /\ ok => question = asked /\ IsPrefixOf(answers, sent)

-----------------------------------------------------------------------------
(* Why they hold.                                                          *)

Answer == Seq(Label) \cup {<<t>> : t \in Types}

Values ==
  /\ ParseTypeOK
  /\ size \in Nat /\ start \in Nat /\ start <= size
  /\ DOMAIN msg \subseteq 0 .. size - 1
  /\ sent \in Seq(Answer) /\ answers \in Seq(Answer)
  /\ nm \in [off : Nat, orig : Int, name : Seq(Label), then : {"none", "question", "owner", "named"}, ret : Int]
  /\ rr \in [type : Types \cup {"other"}, rdlen : Nat, rdoff : Nat]
  /\ txt \in Nat /\ top \in Nat
  /\ kind \in Types \cup {"other"}

IsLabel(o) == o \in DOMAIN msg /\ msg[o].t = "label" /\ msg[o].label \in Label
Beyond(o) == o + 1 + LabelLen[msg[o].label]

\* A name is its first label and the name behind, or that which a pointer refers to,
\* written before it; or the root.
NameOK(o) ==
  /\ o \in DOMAIN msg
  /\ names[o] \in [name : Seq(Label), after : o + 1 .. size]
  /\ \/ msg[o].t = "end" /\ names[o] = [name |-> <<>>, after |-> o + 1]
     \/ /\ msg[o].t = "pointer"
        /\ msg[o].to \in DOMAIN names
        /\ names[msg[o].to].after <= o
        /\ names[o] = [name |-> names[msg[o].to].name, after |-> o + 2]
     \/ /\ IsLabel(o)
        /\ Beyond(o) \in DOMAIN names
        /\ names[o].name = <<msg[o].label>> \o names[Beyond(o)].name
        /\ names[o].after = names[Beyond(o)].after

\* The records follow one another, the last one written or in hand begins at start.
Followed(o) ==
  LET f == names[o].after
  IN /\ o \in DOMAIN names
     /\ f \in DOMAIN msg /\ msg[f].t = "fixed" /\ msg[f].rdlen \in Nat
     /\ f + 10 \in DOMAIN data
     /\ data[f + 10] = [type |-> msg[f].type, said |-> recs[o].said, end |-> RdEnd(f)]
     /\ recs[RdEnd(f)].rec = recs[o].rec + 1

RecordOK(o) ==
  /\ recs[o] \in [rec : 0 .. count, said : 0 .. Len(sent)]
  /\ o \in 0 .. start
  /\ recs[o].rec = count <=> o = start
  /\ recs[o].rec < count => Followed(o)

\* Between the beginning of data and their end lies what its record says.
Says(o, a) == sent[data[o].said + 1] = a /\ recs[data[o].end].said = data[o].said + 1

DatumOK(o) ==
  /\ data[o] \in [type : Types, said : 0 .. Len(sent), end : DOMAIN recs]
  /\ o \in 0 .. data[o].end
  /\ \/ /\ data[o].type \in DOMAIN Address
        /\ data[o].end = o + Address[data[o].type]
        /\ Says(o, <<data[o].type>>)
     \/ /\ data[o].type \in DOMAIN Named
        /\ LET n == o + Named[data[o].type]
           IN n \in DOMAIN names /\ names[n].after = data[o].end /\ Says(o, names[n].name)
     \/ data[o].type = "TXT" /\ o = data[o].end /\ recs[o].said = data[o].said
     \/ /\ data[o].type = "TXT"
        /\ IsLabel(o)
        /\ Beyond(o) \in DOMAIN data
        /\ data[Beyond(o)] = [type |-> "TXT", said |-> data[o].said + 1, end |-> data[o].end]
        /\ sent[data[o].said + 1] = <<msg[o].label>>
     \/ data[o].type = "other" /\ recs[data[o].end].said = data[o].said

\* The question is the name behind the header, the first record follows it.
QuestionOK ==
  /\ 12 \in DOMAIN names
  /\ names[12].after + 4 \in DOMAIN recs
  /\ recs[names[12].after + 4] = [rec |-> 0, said |-> 0]

\* The name in hand begins at s.
NameOpen(s) ==
  /\ s \in DOMAIN open \cup {size}
  /\ \A o \in DOMAIN open :
       /\ s <= o
       /\ IsLabel(o)
       /\ open[o] \in Seq(Label)
       /\ \/ Beyond(o) = size /\ open[o] = <<msg[o].label>>
          \/ Beyond(o) \in DOMAIN open /\ open[o] = <<msg[o].label>> \o open[Beyond(o)]

\* The texts in hand begin at s.
SaidAt(o) == IF o = size THEN Len(sent) ELSE open[o]
TextsOpen(s) ==
  /\ s \in DOMAIN open \cup {size}
  /\ SaidAt(s) = recs[start].said
  /\ \A o \in DOMAIN open :
       /\ s <= o
       /\ IsLabel(o)
       /\ open[o] \in 0 .. Len(sent) - 1
       /\ sent[open[o] + 1] = <<msg[o].label>>
       /\ Beyond(o) \in DOMAIN open \cup {size}
       /\ SaidAt(Beyond(o)) = open[o] + 1

RecordOpen ==
  /\ kind \in Types
  /\ count < MaxRR
  /\ start \in DOMAIN names
  /\ names[start].after = start + 2
  /\ \A o \in DOMAIN names : names[o].after <= start + 2
  /\ \A o \in DOMAIN msg : o <= start \/ o >= start + 12
  /\ kind \in DOMAIN Named => NameOpen(start + 12 + Named[kind])
  /\ kind = "TXT" => TextsOpen(start + 12)
  /\ kind # "TXT" => Len(sent) = recs[start].said
  /\ kind \notin DOMAIN Named \cup {"TXT"} => open = Empty /\ size = start + 12

MessageOK ==
  /\ \A o \in DOMAIN names : NameOK(o)
  /\ \A o \in DOMAIN recs : RecordOK(o)
  /\ \A o \in DOMAIN data : DatumOK(o)

ResolverOK ==
  /\ pc = "ask" => /\ DOMAIN names = {} /\ DOMAIN recs = {} /\ DOMAIN data = {} /\ count = 0 /\ sent = <<>>
                   /\ start = 0 /\ NameOpen(12)
  /\ pc # "ask" => QuestionOK /\ start \in DOMAIN recs
  /\ pc = "rdata" => RecordOpen
  /\ pc \notin {"ask", "rdata"} => size = start /\ open = Empty /\ Len(sent) = recs[start].said

\* The first n answers are kept, but no more than MAX_ANS.
Kept(n) ==
  /\ Len(answers) = IF n < MAX_ANS THEN n ELSE MAX_ANS
  /\ \A j \in 1 .. Len(answers) : answers[j] = sent[j]

\* read_name is at, or has been at, the name that begins at s.
Reading(s) ==
  /\ nm.off \in DOMAIN names
  /\ nm.name \o names[nm.off].name = names[s].name
  /\ names[nm.off].after <= names[s].after
  /\ names[s].after = IF nm.orig = -1 THEN names[nm.off].after ELSE nm.orig
HasRead(s) ==
  \/ nm.ret = -1 /\ len < names[s].after
  \/ nm.ret = names[s].after /\ nm.name = names[s].name
NameAt(s) == s \in DOMAIN names /\ IF pc = "name" THEN Reading(s) ELSE HasRead(s)

\* parse_dns is between two records; at data or a text that begin at o.
Between == off \in DOMAIN recs /\ recs[off].rec = ai /\ Kept(recs[off].said) /\ question = asked
InData(o) ==
  /\ off \in DOMAIN recs
  /\ recs[off].rec = ai + 1
  /\ rr.rdoff + rr.rdlen = off
  /\ o \in DOMAIN data /\ data[o].type = rr.type /\ data[o].end = off
  /\ Kept(data[o].said)
  /\ question = asked

Task == IF pc = "name" THEN nm.then ELSE pc
TaskOK ==
  /\ Task # "none"
  /\ Task \in {"ask", "write", "rdata"} => len = 0
  /\ Task \in {"ask", "write", "rdata", "header", "question"} => ai = 0 /\ answers = <<>> /\ ~ok
  /\ Task \in {"ask", "write", "rdata", "header"} => off = 0 /\ question = <<>> /\ top = 0
  /\ Task = "question" => NameAt(12)
  /\ Task = "answer" => Between
  /\ Task = "owner" => Between /\ NameAt(off) /\ ai < count
  /\ Task = "data" => InData(rr.rdoff)
  /\ Task = "named" => InData(rr.rdoff) /\ rr.type \in DOMAIN Named /\ NameAt(rr.rdoff + Named[rr.type])
  /\ Task = "text" => InData(rr.rdoff + txt) /\ rr.type = "TXT"

ParseIInv ==
  /\ Values /\ InBounds
  /\ MessageOK /\ ResolverOK
  /\ TaskOK
  /\ Recovers /\ SaysPrefix
=============================================================================
