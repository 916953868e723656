----------------------------- MODULE Discovery ------------------------------
(***************************************************************************)
(* Finding instances on the local network (internal/netdiscover/mdns.go):  *)
(* names on the wire, the announcement, its parser, the advertiser and the *)
(* browser.  On the wire a name is bytes; in a record it is the sequence   *)
(* of its labels.  DiCases are the inputs tried, DiRight what they promise.*)
(***************************************************************************)
EXTENDS Integers, Sequences, FiniteSets, SequencesExt, Functions

CONSTANTS
  DiBytes    \* bound on the length of the buffers decoded

ASSUME DiAssumption == DiBytes \in Nat

\* The part of a text before byte c, and the part after it.
DiBefore(text, c) == SubSeq(text, 1, (CHOOSE i \in DOMAIN text : text[i] = c /\ \A j \in 1..(i-1) : text[j] # c) - 1)
DiCutTo(text, n) == SubSeq(text, 1, IF Len(text) < n THEN Len(text) ELSE n)
DiFramed(text) == <<Len(text)>> \o text

-----------------------------------------------------------------------------
\* EncodeName: empty labels left out, the others cut to 63 bytes, no compression.
DiEncodeName(labels) ==
  FlattenSeq([i \in DOMAIN labels |-> IF labels[i] = <<>> THEN <<>> ELSE DiFramed(DiCutTo(labels[i], 63))]) \o <<0>>

\* DecodeName at the 0-based offset off: [labels, next], labels "error" when the name
\* leaves the buffer or follows more than ten pointers.  next stands still from the
\* first pointer on.
DiDecodeName(buf, off) ==
  LET n == Len(buf)
      At(o) == buf[o + 1]
      Error == [labels |-> "error", next |-> off]
      Go[o \in Nat, labels \in Seq(Seq(Nat)), next \in Nat, jumps \in Nat] ==
        LET Moved(to) == IF jumps = 0 THEN to ELSE next IN
        CASE o >= n -> Error
          [] At(o) >= 192 ->
               IF o + 1 >= n THEN Error
               ELSE LET to == (At(o) % 64) * 256 + At(o + 1) IN
                    IF to >= n \/ jumps = 10 THEN Error ELSE Go[to, labels, Moved(o + 2), jumps + 1]
          [] At(o) = 0 -> [labels |-> labels, next |-> Moved(o + 1)]
          [] OTHER ->
               LET end == o + 1 + At(o) IN
               IF end > n THEN Error ELSE Go[end, Append(labels, SubSeq(buf, o + 2, end)), Moved(end), jumps] IN
  IF off >= n THEN Error ELSE Go[off, <<>>, off, 0]

\* A decoded name ends inside the buffer and behind where it began: the reader of a
\* packet always advances, whatever the pointers say.
DiDecodeRight(x) ==
  LET got == DiDecodeName(x.buf, x.off) IN
  got.labels # "error" => got.next > x.off /\ got.next <= Len(x.buf)

\* What is encoded comes back, its labels cut, and the offset is the field's after it.
DiNameRight(x) ==
  LET wire == DiEncodeName(x.labels)
      kept == SelectSeq(x.labels, LAMBDA l : l # <<>>) IN
  DiDecodeName(x.before \o wire \o x.after, Len(x.before))
    = [labels |-> [i \in DOMAIN kept |-> DiCutTo(kept[i], 63)], next |-> Len(x.before) + Len(wire)]

\* encodeTXT over the pairs in the order the map gives them; 61 is the equals sign.
DiEncodeTXT(pairs) ==
  LET Entry(p) == IF p.v = <<>> THEN p.k ELSE p.k \o <<61>> \o p.v
      named == SelectSeq(pairs, LAMBDA p : p.k # <<>>)
      out == FlattenSeq([i \in DOMAIN named |-> DiFramed(DiCutTo(Entry(named[i]), 255))]) IN
  IF out = <<>> THEN <<0>> ELSE out

\* parseTXTRData: a later entry of a key wins; an entry that overruns ends it.
DiParseTXT(data) ==
  LET Put(txt, entry) == LET k == IF 61 \in ToSet(entry) THEN DiBefore(entry, 61) ELSE entry
                             v == SubSeq(entry, Len(k) + 2, Len(entry)) IN
        [x \in DOMAIN txt \union {k} |-> IF x = k THEN v ELSE txt[x]]
      Entries[o \in Nat] ==
        IF o >= Len(data) THEN <<>>
        ELSE LET end == o + 1 + data[o + 1] IN
             IF end = o + 1 THEN Entries[end] ELSE IF end > Len(data) THEN <<>> ELSE <<SubSeq(data, o + 2, end)>> \o Entries[end] IN
  FoldLeft(Put, <<>>, Entries[0])

\* A table whose keys hold no equals sign survives; where one does, it moves to the value.
DiTxtRight(x) ==
  LET got == DiParseTXT(DiEncodeTXT(x.pairs))
      clean == \A i \in DOMAIN x.pairs : 61 \notin ToSet(x.pairs[i].k) IN
  /\ clean => DOMAIN got = {p.k : p \in ToSet(x.pairs)} \ {<<>>}
  /\ clean => \A p \in ToSet(x.pairs) : p.k = <<>> \/ got[p.k] = DiCutTo(p.v, 254 - Len(p.k))
  /\ \A k \in DOMAIN got : 61 \notin ToSet(k)

-----------------------------------------------------------------------------
\* Records.  A label is a text; those too long for the wire share their 63 bytes.
DiLowered == [Desk |-> "desk", DESK |-> "desk"]
DiLower(name) == [i \in DOMAIN name |-> IF name[i] \in DOMAIN DiLowered THEN DiLowered[name[i]] ELSE name[i]]
DiWire(name) == [i \in DOMAIN name |-> IF name[i] \in {"longer", "longest"} THEN "long" ELSE name[i]]

DiService == <<"_nimbus", "_tcp">>
DiDomain == <<"local">>
DiMine == <<"phone">>                      \* defaultHost, defaultInstance
DiOr(name, default) == IF name = <<>> THEN default ELSE name
DiServiceFQDN(svc) == DiOr(svc.service, DiService) \o DiOr(svc.domain, DiDomain)

\* "._tcp." occurs in a name.
DiTcp(name) == \E i \in 2..(Len(name) - 1) : DiLower(name)[i] = "_tcp"

\* instanceFQDN keeps a name that is one already; hostFQDN completes a bare label.
DiInstanceFQDN(svc) ==
  LET name == DiOr(svc.instance, DiMine) IN
  IF IsSuffix(DiLower(DiServiceFQDN(svc)), DiLower(name)) \/ DiTcp(name) THEN name ELSE name \o DiServiceFQDN(svc)

DiHostFQDN(svc) == LET host == DiOr(svc.host, DiMine) IN IF Len(host) = 1 THEN Append(host, "local") ELSE host

\* BuildAnnounce: the records of a packet, or an error for a port out of range.
DiAnnounce(svc) ==
  LET inst == DiWire(DiInstanceFQDN(svc))
      host == DiWire(DiHostFQDN(svc))
      ips == IF svc.ips = <<>> THEN <<"127.0.0.1">> ELSE svc.ips IN
  IF svc.port \notin 1..65535 THEN [error |-> TRUE, rrs |-> <<>>]
  ELSE [error |-> FALSE,
        rrs |-> <<[typ |-> "PTR", name |-> DiWire(DiServiceFQDN(svc)), to |-> inst],
                  [typ |-> "SRV", name |-> inst, to |-> host, port |-> svc.port],
                  [typ |-> "TXT", name |-> inst, txt |-> svc.txt]>>
                \o [i \in DOMAIN ips |-> [typ |-> "A", name |-> host, ip |-> ips[i]]]]

\* splitServiceFQDN and instanceShort.
DiSplit(fqdn) == IF Len(fqdn) >= 3 THEN [service |-> SubSeq(fqdn, 1, 2), domain |-> SubSeq(fqdn, 3, Len(fqdn))]
                                   ELSE [service |-> DiService, domain |-> DiDomain]

DiShort(inst, svc) ==
  IF DiLower(inst) = DiLower(svc) THEN inst
  ELSE IF IsStrictSuffix(DiLower(svc), DiLower(inst)) THEN SubSeq(inst, 1, Len(inst) - Len(svc))
  ELSE IF DiTcp(inst)
    THEN SubSeq(inst, 1, (CHOOSE i \in 2..(Len(inst)-1) : DiLower(inst)[i] = "_tcp" /\ \A j \in 2..(i-1) : DiLower(inst)[j] # "_tcp") - 1)
  ELSE inst

\* ParsePacket: a record whose data cannot be read ("bad") is passed over, one that
\* leaves the packet ("cut") makes the whole of it an error.  An instance is its
\* lower-case name; SRV and TXT make one too, without a PTR under the default service.
DiParse(rrs) ==
  LET good == SelectSeq(rrs, LAMBDA r : r.typ \in {"PTR", "SRV", "TXT", "A"})
      Of(typ) == SelectSeq(good, LAMBDA r : r.typ = typ)
      Key(r) == DiLower(IF r.typ = "PTR" THEN r.to ELSE r.name)
      For(typ, key) == SelectSeq(Of(typ), LAMBDA r : Key(r) = key)
      Info(key) ==
        LET ptr == For("PTR", key)
            srv == For("SRV", key)
            txt == For("TXT", key)
            split == DiSplit(IF ptr = <<>> THEN <<>> ELSE ptr[1].name)
            svc == split.service \o split.domain
            host == IF srv = <<>> THEN <<>> ELSE Last(srv).to IN
        [instance |-> IF ptr = <<>> THEN DiShort(key \o svc, svc) ELSE DiShort(ptr[1].to, svc),
         service |-> split.service, domain |-> split.domain, host |-> host,
         port |-> IF srv = <<>> THEN 0 ELSE Last(srv).port,
         txt |-> FoldLeft(LAMBDA t, r : [k \in DOMAIN t \union DOMAIN r.txt |-> IF k \in DOMAIN r.txt THEN r.txt[k] ELSE t[k]], <<>>, txt),
         ips |-> IF host = <<>> THEN <<>> ELSE LET a == SelectSeq(Of("A"), LAMBDA r : DiLower(r.name) = DiLower(host)) IN [i \in DOMAIN a |-> a[i].ip]] IN
  IF \E i \in DOMAIN rrs : rrs[i].typ = "cut" THEN [error |-> TRUE, found |-> {}]
  ELSE [error |-> FALSE, found |-> {Info(Key(r)) : r \in {q \in ToSet(good) : q.typ # "A"}}]

-----------------------------------------------------------------------------
\* LocalIPs over the interfaces of the machine, an unreadable one passed over.
DiLocalIPs(listed, ifaces) ==
  LET addrs == FlattenSeq([i \in DOMAIN ifaces |-> IF ifaces[i].readable THEN ifaces[i].addrs ELSE <<>>])
      usable == SelectSeq(addrs, LAMBDA a : a.v4 /\ ~a.loopback) IN
  IF ~listed \/ usable = <<>> THEN <<"127.0.0.1">> ELSE [i \in DOMAIN usable |-> usable[i].ip]

DiLocalRight(x) == LET got == DiLocalIPs(x.listed, x.ifaces) IN
  /\ got # <<>>
  /\ x.listed => \A i \in DOMAIN x.ifaces : x.ifaces[i].readable => \A a \in ToSet(x.ifaces[i].addrs) :
       a.v4 /\ ~a.loopback => a.ip \in ToSet(got)

\* Advertise: what keeps it from starting, or the seconds at which it announces until
\* its context ends: three times a second apart, then every two minutes, whether the
\* sends succeed or not.
DiAdvertise(x) ==
  CASE x.port \notin 1..65535 -> [error |-> "port", sends |-> {}]
    [] ~x.route -> [error |-> "route", sends |-> {}]
    [] ~x.bound -> [error |-> "bind", sends |-> {}]
    [] OTHER -> [error |-> "none", sends |-> {t \in 0..(x.stop - 1) : t < 3 \/ (t - 2) % 120 = 0}]

\* Who listens for two minutes hears it, and nothing is sent after the end.
DiAdvertiseRight(x) == LET got == DiAdvertise(x) IN
  got.error = "none" => \A t \in 0..(x.stop - 120) : got.sends \intersect (t..(t + 119)) # {}

\* Browse: one service per name and port, what later packets say of it added.
DiSame(a, b) == DiLower(a.instance) = DiLower(b.instance) /\ a.port = b.port

DiMerge(found, s) ==
  LET New(ips) == SelectSeq(s.ips, LAMBDA ip : ip \notin ToSet(ips))
      Join(old) == [old EXCEPT !.ips = @ \o New(@), !.txt = IF DOMAIN @ = {} THEN s.txt ELSE @,
                               !.host = IF @ = <<>> THEN s.host ELSE @] IN
  IF s.instance = <<>> THEN found
  ELSE IF \E i \in DOMAIN found : DiSame(found[i], s)
    THEN [i \in DOMAIN found |-> IF DiSame(found[i], s) THEN Join(found[i]) ELSE found[i]]
    ELSE Append(found, s)

\* Its reads in turn, until the context ends or the time is up: a chunk without a
\* packet ("quiet"), one too short or malformed, or a packet's services.
DiBrowse(bound, reads) ==
  LET Services(r) == IF r.is = "packet" /\ ~r.parsed.error THEN SetToSeq(r.parsed.found) ELSE <<>>
      Take[i \in 0..Len(reads)] ==
        IF i = 0 \/ ~bound THEN <<>>
        ELSE IF \E k \in 1..i : reads[k].is = "over" THEN Take[i-1]
        ELSE FoldLeft(DiMerge, Take[i-1], Services(reads[i])) IN
  Take[Len(reads)]

\* Announcer to browser: whoever announced itself with a usable port is found once,
\* by its name as it wrote it or as another wrote it first, at its port and with all
\* its addresses; nothing is found that nobody announced.
DiFoundRight(x) ==
  LET heard == {i \in DOMAIN x.events : x.events[i] \in DOMAIN x.svcs /\ \A j \in 1..i : x.events[j] # "over"}
      Read(e) == IF e \in DOMAIN x.svcs
                 THEN [is |-> "packet", parsed |-> LET a == DiAnnounce(x.svcs[e]) IN
                         IF a.error THEN [error |-> TRUE, found |-> {}] ELSE DiParse(a.rrs)]
                 ELSE [is |-> e]
      got == DiBrowse(TRUE, [i \in DOMAIN x.events |-> Read(x.events[i])])
      Name(s) == DiLower(DiShort(DiWire(DiInstanceFQDN(s)), DiWire(DiServiceFQDN(s))))
      Is(g, s) == DiLower(g.instance) = Name(s) /\ g.port = s.port IN
  /\ \A i \in heard : LET s == x.svcs[x.events[i]] IN
       s.port \in 1..65535 => \E g \in DOMAIN got :
         /\ Is(got[g], s) /\ ToSet(s.ips) \subseteq ToSet(got[g].ips) /\ got[g].host # <<>> /\ got[g].ips # <<>>
         /\ \A k \in DOMAIN got : Is(got[k], s) => k = g
  /\ \A g \in DOMAIN got : \E i \in heard : Is(got[g], x.svcs[x.events[i]])

\* A packet with damaged records: what is left of it is used or none of it is, and a
\* service is reported only under a name that some record bears.
DiParseRight(x) ==
  LET got == DiParse(x.rrs) IN
  /\ got.error => got.found = {}
  /\ \A s \in got.found : \E r \in ToSet(x.rrs) :
       r.typ # "A" /\ r.typ \notin {"bad", "cut"} /\ LET name == IF r.typ = "PTR" THEN r.to ELSE r.name IN
         IsPrefix(DiLower(s.instance), DiLower(name))
  /\ \A s \in got.found : s.port # 0 => \E r \in ToSet(x.rrs) : r.typ = "SRV" /\ r.port = s.port /\ r.to = s.host

-----------------------------------------------------------------------------
DiSvc(i, p, h, ips) == [instance |-> i, service |-> <<>>, domain |-> <<>>, host |-> h, port |-> p, txt |-> [v |-> 1], ips |-> ips]
DiSvcs ==
  {DiSvc(i, p, <<>>, ips) : i \in {<<>>, <<"Desk">>, <<"DESK">>, <<"longer">>, <<"longest">>, <<"my", "phone">>, <<"Desk", "_nimbus", "_tcp", "local">>},
                            p \in {0, 80}, ips \in {<<>>, <<"a">>}}
  \union {DiSvc(<<"Desk">>, p, <<"box", "lan">>, <<"a", "b">>) : p \in {81, 65536}}

DiRecords ==
  LET inst == <<"Desk", "_nimbus", "_tcp", "local">> IN
  {[typ |-> "PTR", name |-> DiService \o DiDomain, to |-> n] : n \in {inst, <<"DESK", "_nimbus", "_tcp", "local">>}}
  \union {[typ |-> "SRV", name |-> inst, to |-> <<"box", "local">>, port |-> p] : p \in {80, 81}}
  \union {[typ |-> "TXT", name |-> inst, txt |-> t] : t \in {[v |-> 1], [u |-> 2]}}
  \union {[typ |-> "A", name |-> <<"box", "local">>, ip |-> "a"], [typ |-> "bad", name |-> inst], [typ |-> "cut", name |-> inst]}

DiCases ==
  {[fn |-> "decode", buf |-> b, off |-> o] : b \in UNION {[1..n -> {0, 1, 2, 97, 192}] : n \in 0..DiBytes}, o \in 0..2}
  \union {[fn |-> "name", labels |-> l, before |-> b, after |-> a] :
            l \in UNION {[1..n -> {<<>>, <<97>>, <<97, 98>>, [i \in 1..64 |-> 97]}] : n \in 0..3}, b \in {<<>>, <<1, 2, 3>>}, a \in {<<>>, <<0, 5>>}}
  \union {[fn |-> "txt", pairs |-> p] : p \in {q \in UNION {[1..n -> [k : {<<>>, <<97>>, <<98>>, <<97, 61>>}, v : {<<>>, <<99>>, <<61>>, [i \in 1..300 |-> 99]}]] : n \in 0..2} :
            \A i, j \in DOMAIN q : i # j => q[i].k # q[j].k}}
  \union {[fn |-> "found", svcs |-> s, events |-> e] : s \in [{"one", "two"} -> DiSvcs],
            e \in {<<"one">>, <<"one", "two">>, <<"malformed", "two", "quiet", "one", "two">>, <<"one", "over", "two">>}}
  \union {[fn |-> "parse", rrs |-> r] : r \in UNION {[1..n -> DiRecords] : n \in 0..3}}
  \union {[fn |-> "local", listed |-> l, ifaces |-> i] : l \in BOOLEAN, i \in UNION {[1..n ->
            [readable : BOOLEAN, addrs : {<<>>} \union {<<[ip |-> "a", v4 |-> v, loopback |-> b]>> : v \in BOOLEAN, b \in BOOLEAN}]] : n \in 0..2}}
  \union [fn : {"advertise"}, port : {0, 80}, route : BOOLEAN, bound : BOOLEAN, stop : {0, 1, 3, 121, 400}]

DiRight(x) ==
  CASE x.fn = "decode" -> DiDecodeRight(x) [] x.fn = "name" -> DiNameRight(x) [] x.fn = "txt" -> DiTxtRight(x)
    [] x.fn = "found" -> DiFoundRight(x) [] x.fn = "parse" -> DiParseRight(x) [] x.fn = "local" -> DiLocalRight(x)
    [] x.fn = "advertise" -> DiAdvertiseRight(x)
=============================================================================
