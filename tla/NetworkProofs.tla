---------------------------- MODULE NetworkProofs ----------------------------
(* Proofs about Network, and about what Status makes of it, for every set  *)
(* of ports, destinations, patterns, credentials and names: a chain's tag  *)
(* as the rule that decides, then what the grants promise, and what a      *)
(* reader of status may conclude.                                          *)
EXTENDS Status, TLAPS

-----------------------------------------------------------------------------
(* The rule that decides *)

\* A rule that matches, and no earlier one, is the first.
LEMMA FirstIs ==
    ASSUME NEW chain, DOMAIN chain \subseteq Nat \ {0},
           NEW k \in DOMAIN chain, chain[k].match, \A j \in 1 .. k - 1 : ~chain[j].match
    PROVE  First(chain) = k
<1> DEFINE Decides(i) == chain[i].match /\ \A j \in 1 .. i - 1 : ~chain[j].match
<1>1. k \in DOMAIN chain /\ Decides(k)
    OBVIOUS
<1>2. ASSUME NEW i \in DOMAIN chain, Decides(i) PROVE i = k
    <2>1. ~(i < k)
        <3>1. i < k => i \in 1 .. k - 1
            OBVIOUS
        <3> QED
            BY <1>2, <3>1
    <2>2. ~(k < i)
        <3>1. k < i => k \in 1 .. i - 1
            OBVIOUS
        <3> QED
            BY <1>2, <3>1
    <2> QED
        BY <2>1, <2>2
<1> HIDE DEF Decides
<1>3. First(chain) = CHOOSE i \in DOMAIN chain : Decides(i)
    BY DEF First, Decides
<1> QED
    BY <1>1, <1>2, <1>3

LEMMA RuleIs ==
    ASSUME NEW m, NEW t PROVE (Rule(m, t).match <=> m) /\ Rule(m, t).tag = t
BY Zenon DEF Rule

\* What a chain says of a packet at a rule that no earlier one shadows.
LEMMA TagIs ==
    ASSUME NEW c, NEW p, DOMAIN Chain(c, p) \subseteq Nat \ {0}, NEW k \in DOMAIN Chain(c, p),
           Chain(c, p)[k].match, \A j \in 1 .. k - 1 : ~Chain(c, p)[j].match
    PROVE  Tag(c, p) = Chain(c, p)[k].tag
BY FirstIs DEF Tag

\* The three chains as the tags they give.
LEMMA OutputTag ==
    ASSUME NEW c, NEW p, p.from = "owner"
    PROVE  Tag(c, p) = IF Known(p) THEN "established"
                       ELSE IF p.proto = "tcp" /\ p.port \in c.inbound THEN "guest"
                       ELSE "guest-blocked"
<1> DEFINE A1 == Known(p)
           A2 == p.proto = "tcp" /\ p.port \in c.inbound
           chain == Chain(c, p)
<1>1. chain = <<Rule(A1, "established"),
                Rule(A2, "guest"),
                Rule(TRUE, "guest-blocked")>>
    BY DEF Chain, Output
<1> HIDE DEF A1, A2, chain
<1>2. DOMAIN chain = 1 .. 3
    BY <1>1
<1>3. /\ chain[1] = Rule(A1, "established")
      /\ chain[2] = Rule(A2, "guest")
      /\ chain[3] = Rule(TRUE, "guest-blocked")
    BY <1>1
<1>4. /\ (chain[1].match <=> A1) /\ chain[1].tag = "established"
      /\ (chain[2].match <=> A2) /\ chain[2].tag = "guest"
      /\ chain[3].match /\ chain[3].tag = "guest-blocked"
    <2>1. (chain[1].match <=> A1) /\ chain[1].tag = "established"
        BY <1>3, RuleIs
    <2>2. (chain[2].match <=> A2) /\ chain[2].tag = "guest"
        BY <1>3, RuleIs
    <2>3. chain[3].match /\ chain[3].tag = "guest-blocked"
        BY <1>3, RuleIs
    <2> QED
        BY <2>1, <2>2, <2>3
<1>5. \A k \in DOMAIN chain :
        chain[k].match /\ (\A j \in 1 .. k - 1 : ~chain[j].match) => Tag(c, p) = chain[k].tag
    BY <1>2, TagIs DEF chain
<1> QED
    BY <1>2, <1>4, <1>5 DEF A1, A2

LEMMA ForwardTag ==
    ASSUME NEW c, NEW p, p.from # "owner", p.peer \in Beyond
    PROVE  Tag(c, p) = IF p.forged THEN "spoof-blocked"
                       ELSE IF p.from = "guest" /\ Full(p) THEN "connections-blocked"
                       ELSE IF p.from = "guest" /\ p.proto = "tcp" /\ <<p.peer, p.port>> \in c.pins THEN "pin"
                       ELSE IF p.from = "guest" /\ DnsEgress(c) /\ p.port = 53 THEN "dns-blocked"
                       ELSE IF p.from = "guest" /\ c.internet /\ p.peer \in Special THEN "private-blocked"
                       ELSE IF p.from = "guest" THEN (IF c.internet THEN "internet" ELSE "blocked")
                       ELSE IF Established(p) THEN "established"
                       ELSE "closed"
<1> DEFINE A1 == p.forged
           A2 == p.from = "guest" /\ Full(p)
           A3 == p.from = "guest" /\ p.proto = "tcp" /\ <<p.peer, p.port>> \in c.pins
           A4 == p.from = "guest" /\ DnsEgress(c) /\ p.port = 53
           A5 == p.from = "guest" /\ c.internet /\ p.peer \in Special
           A6 == p.from = "guest"
           A7 == Established(p)
           chain == Chain(c, p)
<1>1. chain = <<Rule(A1, "spoof-blocked"),
                Rule(A2, "connections-blocked"),
                Rule(A3, "pin"),
                Rule(A4, "dns-blocked"),
                Rule(A5, "private-blocked"),
                Rule(A6, (IF c.internet THEN "internet" ELSE "blocked")),
                Rule(A7, "established"),
                Rule(TRUE, "closed")>>
    BY DEF Chain, Forward
<1> HIDE DEF A1, A2, A3, A4, A5, A6, A7, chain
<1>2. DOMAIN chain = 1 .. 8
    BY <1>1
<1>3. /\ chain[1] = Rule(A1, "spoof-blocked")
      /\ chain[2] = Rule(A2, "connections-blocked")
      /\ chain[3] = Rule(A3, "pin")
      /\ chain[4] = Rule(A4, "dns-blocked")
      /\ chain[5] = Rule(A5, "private-blocked")
      /\ chain[6] = Rule(A6, (IF c.internet THEN "internet" ELSE "blocked"))
      /\ chain[7] = Rule(A7, "established")
      /\ chain[8] = Rule(TRUE, "closed")
    BY <1>1
<1>4. /\ (chain[1].match <=> A1) /\ chain[1].tag = "spoof-blocked"
      /\ (chain[2].match <=> A2) /\ chain[2].tag = "connections-blocked"
      /\ (chain[3].match <=> A3) /\ chain[3].tag = "pin"
      /\ (chain[4].match <=> A4) /\ chain[4].tag = "dns-blocked"
      /\ (chain[5].match <=> A5) /\ chain[5].tag = "private-blocked"
      /\ (chain[6].match <=> A6) /\ chain[6].tag = (IF c.internet THEN "internet" ELSE "blocked")
      /\ (chain[7].match <=> A7) /\ chain[7].tag = "established"
      /\ chain[8].match /\ chain[8].tag = "closed"
    <2>1. (chain[1].match <=> A1) /\ chain[1].tag = "spoof-blocked"
        BY <1>3, RuleIs
    <2>2. (chain[2].match <=> A2) /\ chain[2].tag = "connections-blocked"
        BY <1>3, RuleIs
    <2>3. (chain[3].match <=> A3) /\ chain[3].tag = "pin"
        BY <1>3, RuleIs
    <2>4. (chain[4].match <=> A4) /\ chain[4].tag = "dns-blocked"
        BY <1>3, RuleIs
    <2>5. (chain[5].match <=> A5) /\ chain[5].tag = "private-blocked"
        BY <1>3, RuleIs
    <2>6. (chain[6].match <=> A6) /\ chain[6].tag = (IF c.internet THEN "internet" ELSE "blocked")
        BY <1>3, RuleIs
    <2>7. (chain[7].match <=> A7) /\ chain[7].tag = "established"
        BY <1>3, RuleIs
    <2>8. chain[8].match /\ chain[8].tag = "closed"
        BY <1>3, RuleIs
    <2> QED
        BY <2>1, <2>2, <2>3, <2>4, <2>5, <2>6, <2>7, <2>8
<1>5. \A k \in DOMAIN chain :
        chain[k].match /\ (\A j \in 1 .. k - 1 : ~chain[j].match) => Tag(c, p) = chain[k].tag
    BY <1>2, TagIs DEF chain
<1> QED
    BY <1>2, <1>4, <1>5 DEF A1, A2, A3, A4, A5, A6, A7

LEMMA ConsIs ==
    ASSUME NEW S, NEW x \in S, NEW s \in Seq(S)
    PROVE  /\ DOMAIN (<<x>> \o s) = 1 .. Len(s) + 1 /\ (<<x>> \o s)[1] = x
           /\ \A i \in 1 .. Len(s) : (<<x>> \o s)[i + 1] = s[i]
OBVIOUS

\* A tag of the input chain, behind the rule for replies.
LEMMA InputTag ==
    ASSUME NEW c, NEW p, p.from # "owner", p.peer \notin Beyond
    PROVE  LET port == PortOf(c, p)
               guest == p.from = "guest"
               door(proto) == guest /\ p.peer = "bridge" /\ p.proto = proto
           IN  Tag(c, p) =
                IF Established(p) THEN "reply"
                ELSE IF p.forged THEN "spoof-blocked"
                ELSE IF guest /\ Full(p) THEN "connections-blocked"
                ELSE IF (DnsEgress(c) \/ TlsEgress(c)) /\ ~guest /\ port \in {DnsPort, TlsPort}
                     THEN "local-blocked"
                ELSE IF guest /\ p.proto = "tcp" /\ port \in c.hostPorts THEN "host"
                ELSE IF door("udp") /\ DnsEgress(c) /\ port = DnsPort THEN "dns"
                ELSE IF door("tcp") /\ c.internet /\ port = DnsPort THEN "dns-tcp"
                ELSE IF door("tcp") /\ TlsEgress(c) /\ port = TlsPort THEN "egress-tls"
                ELSE IF guest THEN "host-blocked" ELSE "policy"
<1> DEFINE port == PortOf(c, p)
           guest == p.from = "guest"
           door(proto) == guest /\ p.peer = "bridge" /\ p.proto = proto
           A1 == Established(p)
           A2 == p.forged
           A3 == guest /\ Full(p)
           A4 == (DnsEgress(c) \/ TlsEgress(c)) /\ ~guest /\ port \in {DnsPort, TlsPort}
           A5 == guest /\ p.proto = "tcp" /\ port \in c.hostPorts
           A6 == door("udp") /\ DnsEgress(c) /\ port = DnsPort
           A7 == door("tcp") /\ c.internet /\ port = DnsPort
           A8 == door("tcp") /\ TlsEgress(c) /\ port = TlsPort
           A9 == guest
           chain == Chain(c, p)
           rest == Grants(c, p)
<1>g. rest = <<Rule(A2, "spoof-blocked"),
                  Rule(A3, "connections-blocked"),
                  Rule(A4, "local-blocked"),
                  Rule(A5, "host"),
                  Rule(A6, "dns"),
                  Rule(A7, "dns-tcp"),
                  Rule(A8, "egress-tls"),
                  Rule(A9, "host-blocked"),
                  Rule(TRUE, "policy")>>
    BY DEF Grants
<1>c. chain = <<Rule(A1, "reply")>> \o rest
    BY DEF Chain, Input
<1> HIDE DEF A1, A2, A3, A4, A5, A6, A7, A8, A9, chain, rest
<1>1. /\ Len(rest) = 9
      /\ rest[1] = Rule(A2, "spoof-blocked")
      /\ rest[2] = Rule(A3, "connections-blocked")
      /\ rest[3] = Rule(A4, "local-blocked")
      /\ rest[4] = Rule(A5, "host")
      /\ rest[5] = Rule(A6, "dns")
      /\ rest[6] = Rule(A7, "dns-tcp")
      /\ rest[7] = Rule(A8, "egress-tls")
      /\ rest[8] = Rule(A9, "host-blocked")
      /\ rest[9] = Rule(TRUE, "policy")
    BY <1>g
<1>2. DOMAIN chain = 1 .. 10 /\ chain[1] = Rule(A1, "reply") /\ \A i \in 2 .. 10 : chain[i] = rest[i - 1]
    <2> DEFINE S == {rest[i] : i \in 1 .. 9} \cup {Rule(A1, "reply")}
    <2>1. rest \in Seq(S)
        <3>1. rest = [i \in 1 .. 9 |-> rest[i]]
            BY <1>g
        <3> QED
            BY <3>1
    <2> HIDE DEF S, rest
    <2>2. Rule(A1, "reply") \in S
        BY DEF S
    <2>3. /\ DOMAIN (<<Rule(A1, "reply")>> \o rest) = 1 .. Len(rest) + 1
          /\ (<<Rule(A1, "reply")>> \o rest)[1] = Rule(A1, "reply")
          /\ \A i \in 1 .. Len(rest) : (<<Rule(A1, "reply")>> \o rest)[i + 1] = rest[i]
        BY <2>1, <2>2, ConsIs
    <2>4. Len(rest) = 9
        BY <1>1
    <2>5. /\ DOMAIN chain = 1 .. 10 /\ chain[1] = Rule(A1, "reply")
          /\ \A i \in 1 .. 9 : chain[i + 1] = rest[i]
        BY <1>c, <2>3, <2>4
    <2>6. \A i \in 2 .. 10 : i - 1 \in 1 .. 9 /\ (i - 1) + 1 = i
        OBVIOUS
    <2> QED
        BY <2>5, <2>6
<1>3. /\ chain[1] = Rule(A1, "reply")
      /\ chain[2] = Rule(A2, "spoof-blocked")
      /\ chain[3] = Rule(A3, "connections-blocked")
      /\ chain[4] = Rule(A4, "local-blocked")
      /\ chain[5] = Rule(A5, "host")
      /\ chain[6] = Rule(A6, "dns")
      /\ chain[7] = Rule(A7, "dns-tcp")
      /\ chain[8] = Rule(A8, "egress-tls")
      /\ chain[9] = Rule(A9, "host-blocked")
      /\ chain[10] = Rule(TRUE, "policy")
    <2>1. /\ chain[2] = rest[1]
          /\ chain[3] = rest[2]
          /\ chain[4] = rest[3]
          /\ chain[5] = rest[4]
          /\ chain[6] = rest[5]
          /\ chain[7] = rest[6]
          /\ chain[8] = rest[7]
          /\ chain[9] = rest[8]
          /\ chain[10] = rest[9]
        BY <1>2
    <2> QED
        BY <1>1, <1>2, <2>1
<1>4. /\ (chain[1].match <=> A1) /\ chain[1].tag = "reply"
      /\ (chain[2].match <=> A2) /\ chain[2].tag = "spoof-blocked"
      /\ (chain[3].match <=> A3) /\ chain[3].tag = "connections-blocked"
      /\ (chain[4].match <=> A4) /\ chain[4].tag = "local-blocked"
      /\ (chain[5].match <=> A5) /\ chain[5].tag = "host"
      /\ (chain[6].match <=> A6) /\ chain[6].tag = "dns"
      /\ (chain[7].match <=> A7) /\ chain[7].tag = "dns-tcp"
      /\ (chain[8].match <=> A8) /\ chain[8].tag = "egress-tls"
      /\ (chain[9].match <=> A9) /\ chain[9].tag = "host-blocked"
      /\ chain[10].match /\ chain[10].tag = "policy"
    <2>1. (chain[1].match <=> A1) /\ chain[1].tag = "reply"
        BY <1>3, RuleIs
    <2>2. (chain[2].match <=> A2) /\ chain[2].tag = "spoof-blocked"
        BY <1>3, RuleIs
    <2>3. (chain[3].match <=> A3) /\ chain[3].tag = "connections-blocked"
        BY <1>3, RuleIs
    <2>4. (chain[4].match <=> A4) /\ chain[4].tag = "local-blocked"
        BY <1>3, RuleIs
    <2>5. (chain[5].match <=> A5) /\ chain[5].tag = "host"
        BY <1>3, RuleIs
    <2>6. (chain[6].match <=> A6) /\ chain[6].tag = "dns"
        BY <1>3, RuleIs
    <2>7. (chain[7].match <=> A7) /\ chain[7].tag = "dns-tcp"
        BY <1>3, RuleIs
    <2>8. (chain[8].match <=> A8) /\ chain[8].tag = "egress-tls"
        BY <1>3, RuleIs
    <2>9. (chain[9].match <=> A9) /\ chain[9].tag = "host-blocked"
        BY <1>3, RuleIs
    <2>10. chain[10].match /\ chain[10].tag = "policy"
        BY <1>3, RuleIs
    <2> QED
        BY <2>1, <2>2, <2>3, <2>4, <2>5, <2>6, <2>7, <2>8, <2>9, <2>10
<1>5. \A k \in DOMAIN chain :
        chain[k].match /\ (\A j \in 1 .. k - 1 : ~chain[j].match) => Tag(c, p) = chain[k].tag
    BY <1>2, TagIs DEF chain
<1> QED
    BY <1>2, <1>4, <1>5 DEF A1, A2, A3, A4, A5, A6, A7, A8, A9

-----------------------------------------------------------------------------
(* The invariant: where a connection's port comes from, what a line of the *)
(* kernel log was written about, and which counter a packet left behind    *)

\* A tracked connection is one a packet opened, and goes where some
\* configuration redirected it to; the kernel knows each connection once.
Tracking ==
    /\ \A t \in tracked : /\ t.first \in Opening /\ ~t.first.forged
                          /\ \E c \in Configs : t.port = Redirected(c, t.first)
    /\ \A s, t \in tracked : s.first = t.first => s = t

\* The chain a line's tag belongs to, and that its port is the packet's own
\* but for a redirect.
About(line) ==
    LET p == line.packet
    IN  /\ \E c \in Configs : line.port = Redirected(c, p)
        /\ p.forged => line.tag = "spoof-blocked"
        /\ line.tag = "guest-blocked" => p.from = "owner"
        /\ line.tag \in {"dns-blocked", "private-blocked", "blocked"} =>
            p.from = "guest" /\ p.peer \in Beyond
        /\ line.tag = "host-blocked" => p.from = "guest" /\ p.peer \notin Beyond
Lines == \A line \in kernel : About(line)

Counter(tag, pin) == [tag |-> tag, pin |-> pin]
Pinned(c, p) == p.proto = "tcp" /\ <<p.peer, p.port>> \in c.pins

\* A packet of the guest that passed has its destination's counter, or the
\* grant's it passed by; one without was at a door and will stay there.
CountedAs(p) ==
    /\ p.peer \in Beyond =>
        IF Pinned(cfg, p) THEN Counter("pin", <<p.peer, p.port>>) \in used
                          ELSE Counter("internet", NoPin) \in used
    /\ p.peer \notin Beyond /\ p.proto = "tcp" =>
        \/ Counter("host", NoPin) \in used
        \/ /\ Redirected(cfg, p) \notin cfg.hostPorts
           /\ \A t \in tracked : t.first = p => t.port \notin cfg.hostPorts
Counting == \A p \in passed : p.from = "guest" => CountedAs(p)

NetworkInv == TypeOK /\ egress # "failed" /\ Tracking /\ Lines /\ Counting

-----------------------------------------------------------------------------
(* Packets *)

LEMMA OpeningIs ==
    ASSUME NEW p \in Opening
    PROVE  /\ p.reply = FALSE /\ p.forged \in BOOLEAN /\ p.proto \in {"tcp", "udp"}
           /\ \/ p.from = "guest" /\ p.peer \in {"bridge", "host", "multicast", "public", "private"}
              \/ p.from = "owner" /\ p.peer = "guest" /\ p.proto \in {"tcp", "udp"}
              \/ p.from = "process" /\ p.peer = "bridge" /\ p.proto = "tcp" /\ p.port \in {DnsPort, TlsPort}
           /\ p.forged => p.from = "guest" /\ p.peer = "public"
           /\ ~p.forged => p.port \in Ports \cup HostPorts \cup {DnsPort, TlsPort}
<1>1. CASE p \in Packet("guest", {"bridge", "host"} \cup Beyond, {"tcp", "udp"}, Ports, FALSE)
    BY <1>1 DEF Packet, Beyond
<1>2. CASE p \in Packet("guest", {"multicast"}, {"udp"}, Ports, FALSE)
    BY <1>2 DEF Packet
<1>3. CASE p \in {[q EXCEPT !.forged = TRUE] : q \in Packet("guest", {"public"}, {"tcp"}, {443}, FALSE)}
    <2>1. PICK q \in Packet("guest", {"public"}, {"tcp"}, {443}, FALSE) : p = [q EXCEPT !.forged = TRUE]
        BY <1>3
    <2>2. /\ DOMAIN q = {"from", "peer", "proto", "port", "forged", "reply"}
          /\ q.from = "guest" /\ q.peer = "public" /\ q.proto = "tcp" /\ q.reply = FALSE
        BY DEF Packet
    <2>3. /\ p.from = "guest" /\ p.peer = "public" /\ p.proto = "tcp" /\ p.reply = FALSE
          /\ p.forged /\ p.forged = TRUE
        BY <2>1, <2>2
    <2> QED
        BY <2>3
<1>4. CASE p \in Packet("owner", {"guest"}, {"tcp", "udp"}, HostPorts, FALSE)
    BY <1>4 DEF Packet
<1>5. CASE p \in Packet("process", {"bridge"}, {"tcp"}, {DnsPort, TlsPort}, FALSE)
    BY <1>5 DEF Packet
<1> QED
    BY <1>1, <1>2, <1>3, <1>4, <1>5 DEF Opening

LEMMA RepliesAre ==
    ASSUME NEW p \in Replies
    PROVE  /\ p.reply = TRUE /\ p.forged = FALSE /\ p.proto \in {"tcp", "udp"}
           /\ \/ p.from = "guest" /\ p.peer = "guest"
              \/ p.from = "beyond" /\ p.peer \in Beyond
BY DEF Replies, Packet

LEMMA PortIs ==
    ASSUME NEW c, NEW p
    PROVE  /\ ~Known(p) => PortOf(c, p) = Redirected(c, p)
           /\ Known(p) => \E t \in tracked : t.first = p /\ PortOf(c, p) = t.port
<1> DEFINE Of(t) == t.first = p
<1>1. ASSUME Known(p) PROVE \E t \in tracked : t.first = p /\ PortOf(c, p) = t.port
    <2>1. \E t \in tracked : Of(t)
        BY <1>1 DEF Known
    <2>2. PortOf(c, p) = (CHOOSE t \in tracked : Of(t)).port
        BY <1>1 DEF PortOf
    <2> HIDE DEF Of
    <2>3. Of(CHOOSE t \in tracked : Of(t)) /\ (CHOOSE t \in tracked : Of(t)) \in tracked
        BY <2>1
    <2> QED
        BY <2>2, <2>3 DEF Of
<1> QED
    BY <1>1 DEF PortOf

\* No connection is one a reply opened.
LEMMA KnownOpening ==
    ASSUME Tracking, NEW p, p.reply = TRUE
    PROVE  ~Known(p)
BY OpeningIs DEF Tracking, Known

\* A packet goes where some configuration sent its connection.
LEMMA PortFrom ==
    ASSUME Tracking, NEW c \in Configs, NEW p
    PROVE  \E d \in Configs : PortOf(c, p) = Redirected(d, p)
BY PortIs DEF Tracking

-----------------------------------------------------------------------------
(* Doors *)

LEMMA PassedIs ==
    ASSUME NEW c, NEW proto, NEW port
    PROVE  Door(proto, port) \in Passed(c) <=>
              \/ proto = "udp" /\ port = DnsPort /\ DnsEgress(c)
              \/ proto = "tcp" /\ port = DnsPort /\ c.internet
              \/ proto = "tcp" /\ port = TlsPort /\ TlsEgress(c)
<1>1. \A q, n : Door(proto, port) = Door(q, n) <=> (proto = q /\ port = n)
    BY DEF Door
<1>2. Door(proto, port) \in Passed(c) <=>
        \/ Door(proto, port) = Door("udp", DnsPort) /\ DnsEgress(c)
        \/ Door(proto, port) = Door("tcp", DnsPort) /\ c.internet
        \/ Door(proto, port) = Door("tcp", TlsPort) /\ TlsEgress(c)
    BY DEF Passed, When
<1> QED
    BY <1>1, <1>2

LEMMA TakenIsPassed ==
    ASSUME NEW c PROVE Taken(c) = Passed(c)
BY DEF Taken, Passed, When, DnsEgress, TlsEgress

LEMMA StartedIs ==
    ASSUME NEW c PROVE Started(c) \in {"up", "down"}
<1>1. Starts(c)
    BY TakenIsPassed DEF Starts
<1> QED
    BY <1>1 DEF Started

LEMMA PassedEmpty ==
    ASSUME NEW c \in Configs
    PROVE  Passed(c) = {} <=> ~(DnsEgress(c) \/ TlsEgress(c))
<1>1. c.internet => DnsEgress(c)
    BY DEF DnsEgress
<1> QED
    BY <1>1 DEF Passed, When

-----------------------------------------------------------------------------
(* What the grants in force promise *)

\* The claim of GrantsDecide for one packet under one configuration.
Decides(c, p) ==
    p.forged \/ Tag(c, p) = "connections-blocked" \/ (Passes(c, p) <=> Granted(c, p))

LEMMA OwnerDecides ==
    ASSUME NEW c, NEW p \in Opening, p.from = "owner" PROVE Decides(c, p)
<1>1. p.reply = FALSE
    BY OpeningIs
<1>2. Granted(c, p) <=> Known(p) \/ (p.proto = "tcp" /\ p.port \in c.inbound)
    BY <1>1 DEF Granted
<1> QED
    BY <1>2, OutputTag DEF Decides, Passes, Drops

LEMMA ProcessDecides ==
    ASSUME Tracking, NEW c \in Configs, NEW p \in Opening, p.from = "process" PROVE Decides(c, p)
<1>1. /\ p.reply = FALSE /\ ~p.forged /\ p.peer = "bridge" /\ p.port \in {DnsPort, TlsPort}
    BY OpeningIs
<1>2. PortOf(c, p) = p.port
    <2>1. PICK d \in Configs : PortOf(c, p) = Redirected(d, p)
        BY PortFrom
    <2> QED
        BY <1>1, <2>1 DEF Redirected
<1>3. Granted(c, p) <=> ~(DnsEgress(c) \/ TlsEgress(c))
    BY <1>1, PassedEmpty DEF Granted
<1>4. ~Established(p) /\ p.peer \notin Beyond
    BY <1>1 DEF Established, Beyond
<1>5. Tag(c, p) = IF DnsEgress(c) \/ TlsEgress(c) THEN "local-blocked" ELSE "policy"
    BY <1>1, <1>2, <1>4, InputTag
<1> QED
    BY <1>3, <1>5 DEF Decides, Passes, Drops

LEMMA BeyondDecides ==
    ASSUME NEW c \in Configs, NEW p \in Opening, p.from = "guest", p.peer \in Beyond
    PROVE  Decides(c, p)
<1>1. p.reply = FALSE
    BY OpeningIs
<1>2. c.internet => DnsEgress(c)
    BY DEF DnsEgress
<1>3. Granted(c, p) <=> \/ p.proto = "tcp" /\ <<p.peer, p.port>> \in c.pins
                        \/ c.internet /\ p.peer \notin Special /\ p.port # 53
    BY <1>1 DEF Granted
<1>4. CASE p.forged \/ Full(p)
    BY <1>4, ForwardTag DEF Decides
<1>5. CASE ~p.forged /\ ~Full(p)
    <2>1. Tag(c, p) = IF p.proto = "tcp" /\ <<p.peer, p.port>> \in c.pins THEN "pin"
                      ELSE IF DnsEgress(c) /\ p.port = 53 THEN "dns-blocked"
                      ELSE IF c.internet /\ p.peer \in Special THEN "private-blocked"
                      ELSE IF c.internet THEN "internet" ELSE "blocked"
        BY <1>5, ForwardTag
    <2> QED
        BY <2>1, <1>2, <1>3 DEF Decides, Passes, Drops
<1> QED
    BY <1>4, <1>5

LEMMA ArrivingDecides ==
    ASSUME NEW c \in Configs, NEW p \in Opening, p.from = "guest", p.peer \notin Beyond
    PROVE  Decides(c, p)
<1> DEFINE port == PortOf(c, p)
<1>1. p.reply = FALSE /\ ~Established(p)
    BY OpeningIs DEF Established
<1>2. Granted(c, p) <=> \/ p.proto = "tcp" /\ port \in c.hostPorts
                        \/ p.peer = "bridge" /\ Door(p.proto, port) \in Passed(c)
    BY <1>1 DEF Granted
<1>3. Door(p.proto, port) \in Passed(c) <=>
              \/ p.proto = "udp" /\ port = DnsPort /\ DnsEgress(c)
              \/ p.proto = "tcp" /\ port = DnsPort /\ c.internet
              \/ p.proto = "tcp" /\ port = TlsPort /\ TlsEgress(c)
    BY PassedIs
<1>4. CASE p.forged \/ Full(p)
    BY <1>1, <1>4, InputTag DEF Decides
<1>5. CASE ~p.forged /\ ~Full(p)
    <2>1. Tag(c, p) = IF p.proto = "tcp" /\ port \in c.hostPorts THEN "host"
              ELSE IF p.peer = "bridge" /\ p.proto = "udp" /\ DnsEgress(c) /\ port = DnsPort THEN "dns"
              ELSE IF p.peer = "bridge" /\ p.proto = "tcp" /\ c.internet /\ port = DnsPort THEN "dns-tcp"
              ELSE IF p.peer = "bridge" /\ p.proto = "tcp" /\ TlsEgress(c) /\ port = TlsPort THEN "egress-tls"
              ELSE "host-blocked"
        BY <1>1, <1>5, InputTag
    <2> HIDE DEF port
    <2> QED
        BY <2>1, <1>2, <1>3 DEF Decides, Passes, Drops
<1> QED
    BY <1>4, <1>5

LEMMA ReplyDecides ==
    ASSUME NEW c \in Configs, NEW p \in Replies PROVE Decides(c, p)
<1>1. p.reply = TRUE /\ p.forged = FALSE
    BY RepliesAre
<1>2. Granted(c, p) <=> \/ Established(p)
                        \/ p.from = "guest" /\ p.proto = "tcp" /\ PortOf(c, p) \in c.hostPorts
    <2>1. Established(p) <=> Known(Original(p))
        BY <1>1 DEF Established
    <2>2. Granted(c, p) <=> \/ Known(Original(p))
                            \/ p.from = "guest" /\ p.proto = "tcp" /\ PortOf(c, p) \in c.hostPorts
        BY <1>1, RepliesAre DEF Granted, Beyond
    <2> QED
        BY <2>1, <2>2
<1>3. CASE p.from = "guest" /\ p.peer = "guest"
    <2>1. p.peer \notin Beyond /\ p.peer # "bridge"
        BY <1>3 DEF Beyond
    <2>2. Tag(c, p) = IF Established(p) THEN "reply"
                      ELSE IF Full(p) THEN "connections-blocked"
                      ELSE IF p.proto = "tcp" /\ PortOf(c, p) \in c.hostPorts THEN "host"
                      ELSE "host-blocked"
        BY <1>1, <1>3, <2>1, InputTag
    <2> QED
        BY <1>2, <1>3, <2>2 DEF Decides, Passes, Drops
<1>4. CASE p.from = "beyond" /\ p.peer \in Beyond
    <2>1. Tag(c, p) = IF Established(p) THEN "established" ELSE "closed"
        BY <1>1, <1>4, ForwardTag
    <2> QED
        BY <1>2, <1>4, <2>1 DEF Decides, Passes, Drops
<1> QED
    BY <1>3, <1>4, RepliesAre

LEMMA AllDecide ==
    ASSUME Tracking, cfg \in Configs PROVE GrantsDecide
<1>1. ASSUME NEW p \in Opening PROVE Decides(cfg, p)
    <2>1. p.from \in {"guest", "owner", "process"}
        BY OpeningIs
    <2> QED
        BY <2>1, OwnerDecides, ProcessDecides, BeyondDecides, ArrivingDecides
<1>2. \A p \in Opening \cup Replies : Decides(cfg, p)
    BY <1>1, ReplyDecides
<1> QED
    BY <1>2 DEF GrantsDecide, Decides, Passes

LEMMA AllServed ==
    ASSUME cfg \in Configs, egress # "failed" PROVE DoorsServed
<1> SUFFICES ASSUME NEW p \in Opening, p.from = "guest", p.peer \in Arriving
             PROVE  /\ Tag(cfg, p) \in {"dns", "dns-tcp", "egress-tls"} =>
                        Door(p.proto, PortOf(cfg, p)) \in Passed(cfg)
                    /\ Redirected(cfg, p) # p.port =>
                        Door(p.proto, Redirected(cfg, p)) \in Passed(cfg)
    BY TakenIsPassed DEF DoorsServed
<1>1. p.reply = FALSE /\ ~Established(p) /\ p.peer \notin Beyond /\ p.proto \in {"tcp", "udp"}
    BY OpeningIs DEF Established, Arriving, Beyond
<1>2. ASSUME Tag(cfg, p) \in {"dns", "dns-tcp", "egress-tls"}
      PROVE  Door(p.proto, PortOf(cfg, p)) \in Passed(cfg)
    <2> DEFINE port == PortOf(cfg, p)
    <2>1. \/ p.proto = "udp" /\ DnsEgress(cfg) /\ port = DnsPort
          \/ p.proto = "tcp" /\ cfg.internet /\ port = DnsPort
          \/ p.proto = "tcp" /\ TlsEgress(cfg) /\ port = TlsPort
        BY <1>1, <1>2, InputTag
    <2> QED
        BY <2>1, PassedIs
<1>3. ASSUME Redirected(cfg, p) # p.port
      PROVE  Door(p.proto, Redirected(cfg, p)) \in Passed(cfg)
    <2> DEFINE port == Redirected(cfg, p)
    <2>1. \/ p.proto = "udp" /\ DnsEgress(cfg) /\ port = DnsPort
          \/ p.proto = "tcp" /\ cfg.internet /\ port = DnsPort
          \/ p.proto = "tcp" /\ TlsEgress(cfg) /\ port = TlsPort
        <3>1. \/ port = DnsPort /\ p.port = 53 /\ (IF p.proto = "udp" THEN DnsEgress(cfg) ELSE cfg.internet)
              \/ port = TlsPort /\ p.proto = "tcp" /\ TlsEgress(cfg)
            BY <1>1, <1>3 DEF Redirected
        <3> QED
            BY <1>1, <3>1
    <2> QED
        BY <2>1, PassedIs
<1> QED
    BY <1>2, <1>3

-----------------------------------------------------------------------------
(* Every step keeps the invariant *)

LEMMA ForgedNever ==
    ASSUME NEW c, NEW p \in Opening \cup Replies, p.forged PROVE Tag(c, p) = "spoof-blocked"
<1>1. p \in Opening
    BY RepliesAre
<1>2. p.from = "guest" /\ p.peer = "public"
    BY <1>1, OpeningIs
<1> QED
    BY <1>2, ForwardTag DEF Beyond

LEMMA DropIsAbout ==
    ASSUME Tracking, NEW c \in Configs, NEW p \in Opening \cup Replies
    PROVE  About([tag |-> Tag(c, p), packet |-> p, port |-> PortOf(c, p)])
<1> DEFINE line == [tag |-> Tag(c, p), packet |-> p, port |-> PortOf(c, p)]
<1>1. \E d \in Configs : line.port = Redirected(d, p)
    BY PortFrom
<1>2. p.forged => line.tag = "spoof-blocked"
    BY ForgedNever
<1>3. line.tag = "guest-blocked" => p.from = "owner"
    <2>1. CASE p.peer \in Beyond
        BY <2>1, ForwardTag
    <2>2. CASE p.peer \notin Beyond
        BY <2>2, InputTag
    <2> QED
        BY <2>1, <2>2
<1>4. line.tag \in {"dns-blocked", "private-blocked", "blocked"} => p.from = "guest" /\ p.peer \in Beyond
    <2>1. CASE p.from = "owner"
        BY <2>1, OutputTag
    <2>2. CASE p.from # "owner" /\ p.peer \in Beyond
        BY <2>2, ForwardTag
    <2>3. CASE p.from # "owner" /\ p.peer \notin Beyond
        BY <2>3, InputTag
    <2> QED
        BY <2>1, <2>2, <2>3
<1>5. line.tag = "host-blocked" => p.from = "guest" /\ p.peer \notin Beyond
    <2>1. CASE p.from = "owner"
        BY <2>1, OutputTag
    <2>2. CASE p.from # "owner" /\ p.peer \in Beyond
        BY <2>2, ForwardTag
    <2>3. CASE p.from # "owner" /\ p.peer \notin Beyond
        BY <2>3, InputTag
    <2> QED
        BY <2>1, <2>2, <2>3
<1>6. line.packet = p
    OBVIOUS
<1> HIDE DEF line
<1> QED
    BY <1>1, <1>2, <1>3, <1>4, <1>5, <1>6 DEF About, line

LEMMA CountersAre ==
    ASSUME NEW c, NEW p, Tag(c, p) \notin {"reply", "established", "policy"}
    PROVE  Counter(Tag(c, p), IF Tag(c, p) = "pin" THEN <<p.peer, p.port>> ELSE NoPin) \in Counters(c, p)
BY DEF Counters, When, Counter

\* What a packet that passes leaves in the counters.
LEMMA PassCounts ==
    ASSUME Tracking, cfg \in Configs, NEW p \in Opening, p.from = "guest", Passes(cfg, p)
    PROVE  /\ p.peer \in Beyond =>
                IF Pinned(cfg, p) THEN Counter("pin", <<p.peer, p.port>>) \in Counters(cfg, p)
                                  ELSE Counter("internet", NoPin) \in Counters(cfg, p)
           /\ p.peer \notin Beyond /\ p.proto = "tcp" =>
                \/ Counter("host", NoPin) \in Counters(cfg, p)
                \/ PortOf(cfg, p) \notin cfg.hostPorts /\ Redirected(cfg, p) = PortOf(cfg, p)
<1>1. p.reply = FALSE /\ ~Established(p)
    BY OpeningIs DEF Established
<1>2. CASE p.peer \in Beyond
    <2>1. Tag(cfg, p) = IF Pinned(cfg, p) THEN "pin" ELSE "internet"
        BY <1>2, ForwardTag DEF Passes, Drops, Pinned
    <2> QED
        BY <1>2, <2>1, CountersAre
<1>3. CASE p.peer \notin Beyond /\ p.proto = "tcp"
    <2> DEFINE port == PortOf(cfg, p)
    <2>1. \/ Tag(cfg, p) = "host"
          \/ /\ port \notin cfg.hostPorts /\ p.peer = "bridge"
             /\ (cfg.internet /\ port = DnsPort) \/ (TlsEgress(cfg) /\ port = TlsPort)
        BY <1>1, <1>3, InputTag DEF Passes, Drops
    <2>2. CASE Tag(cfg, p) = "host"
        BY <1>3, <2>2, CountersAre
    <2>3. CASE /\ port \notin cfg.hostPorts /\ p.peer = "bridge"
               /\ (cfg.internet /\ port = DnsPort) \/ (TlsEgress(cfg) /\ port = TlsPort)
        <3>1. PICK d \in Configs : port = Redirected(d, p)
            BY PortFrom
        <3>2. \/ cfg.internet /\ port = DnsPort /\ p.port \in {53, DnsPort}
              \/ TlsEgress(cfg) /\ port = TlsPort /\ p.port \in {443, TlsPort}
            <4>1. \/ port = p.port
                  \/ p.port = 53 /\ port = DnsPort
                  \/ p.port = 443 /\ port = TlsPort
                BY <1>1, <3>1 DEF Redirected
            <4> HIDE DEF port
            <4> QED
                BY <2>3, <4>1 DEF DnsPort, TlsPort
        <3>3. Redirected(cfg, p) = port
            BY <1>1, <1>3, <2>3, <3>2 DEF Redirected, DnsPort, TlsPort
        <3> QED
            BY <1>3, <2>3, <3>3
    <2> QED
        BY <2>1, <2>2, <2>3
<1> QED
    BY <1>2, <1>3

LEMMA EntryIs ==
    ASSUME NEW name \in Hosts
    PROVE  [verb |-> Judged(cfg.credentials, cfg.domains, cfg.denied, name), name |-> name] \in Entries
<1>1. Judged(cfg.credentials, cfg.domains, cfg.denied, name) \in {"allow", "deny", "intercept"}
    BY DEF Judged
<1> QED
    BY <1>1 DEF Entries

LEMMA InitHolds == Init => NetworkInv
<1> SUFFICES ASSUME Init PROVE NetworkInv
    OBVIOUS
<1>1. TypeOK
    BY StartedIs, BoundAssumption DEF Init, TypeOK
<1>2. egress # "failed"
    BY StartedIs DEF Init
<1>3. Tracking /\ Lines /\ Counting
    BY DEF Init, Tracking, Lines, Counting
<1> QED
    BY <1>1, <1>2, <1>3 DEF NetworkInv

LEMMA StepKeeps ==
    ASSUME TypeOK, Step PROVE steps' \in 0 .. MaxSteps
BY BoundAssumption DEF TypeOK, Step

\* A connection a packet opens.
Opened(p) == [first |-> p, port |-> Redirected(cfg, p), counted |-> p.from = "guest"]

LEMMA PassTracks ==
    ASSUME NetworkInv, NEW p \in Opening \cup Replies, Pass(p)
    PROVE  /\ \A t \in tracked' : t \in tracked \/ (t = Opened(p) /\ ~Known(p) /\ p \in Opening)
           /\ tracked \subseteq tracked'
           /\ ~p.forged /\ cfg' = cfg /\ kernel' = kernel /\ journal' = journal /\ egress' = egress
<1>1. ~p.forged
    BY ForgedNever DEF Pass, Passes, Drops
<1>2. p.reply = FALSE => p \in Opening
    BY RepliesAre
<1>3. ~p.reply => p.reply = FALSE
    BY OpeningIs, RepliesAre
<1>4. tracked' = tracked \cup When(~Known(p) /\ ~p.reply, {Opened(p)})
    BY DEF Pass, Opened
<1>5. \A t : t \in When(~Known(p) /\ ~p.reply, {Opened(p)}) => t = Opened(p) /\ ~Known(p) /\ ~p.reply
    BY DEF When
<1> QED
    BY <1>1, <1>2, <1>3, <1>4, <1>5 DEF Pass

LEMMA OpenedIs ==
    ASSUME cfg \in Configs, NEW p \in Opening, ~p.forged
    PROVE  /\ Opened(p) \in [first : Opening, port : Ports \cup HostPorts \cup {DnsPort, TlsPort},
                             counted : BOOLEAN]
           /\ Opened(p).first = p /\ Opened(p).port = Redirected(cfg, p)
<1>1. Redirected(cfg, p) \in Ports \cup HostPorts \cup {DnsPort, TlsPort}
    <2>1. p.port \in Ports \cup HostPorts \cup {DnsPort, TlsPort} /\ p.reply = FALSE
        BY OpeningIs
    <2> QED
        BY <2>1 DEF Redirected
<1> QED
    BY <1>1 DEF Opened

LEMMA PassKeeps ==
    ASSUME NetworkInv, NEW p \in Opening \cup Replies, Pass(p)
    PROVE  NetworkInv'
<1> USE DEF NetworkInv
<1>1. /\ \A t \in tracked' : t \in tracked \/ (t = Opened(p) /\ ~Known(p) /\ p \in Opening)
      /\ tracked \subseteq tracked'
      /\ ~p.forged /\ cfg' = cfg /\ kernel' = kernel /\ journal' = journal /\ egress' = egress
    BY PassTracks
<1>2. cfg \in Configs
    BY DEF TypeOK
<1>3. p \in Opening => /\ Opened(p) \in [first : Opening, counted : BOOLEAN,
                                         port : Ports \cup HostPorts \cup {DnsPort, TlsPort}]
                       /\ Opened(p).first = p /\ Opened(p).port = Redirected(cfg, p)
    BY <1>1, <1>2, OpenedIs
<1>4. passed' = passed \cup When(~p.reply, {p}) /\ used' = used \cup Counters(cfg, p) /\ Passes(cfg, p)
    BY DEF Pass
<1>5. \A q : q \in When(~p.reply, {p}) => q = p /\ p \in Opening
    BY OpeningIs, RepliesAre DEF When
<1>6. TypeOK'
    <2>1. steps' \in 0 .. MaxSteps
        BY StepKeeps DEF Pass
    <2>2. tracked' \subseteq [first : Opening, port : Ports \cup HostPorts \cup {DnsPort, TlsPort},
                              counted : BOOLEAN]
        BY <1>1, <1>3 DEF TypeOK
    <2>3. \A counter \in used' : counter.tag \notin Drops
        <3>1. \A counter \in Counters(cfg, p) : counter.tag = Tag(cfg, p)
            BY DEF Counters, When
        <3> QED
            BY <1>4, <3>1 DEF TypeOK, Passes
    <2>4. passed' \subseteq Opening
        BY <1>4, <1>5 DEF TypeOK
    <2> QED
        BY <1>1, <2>1, <2>2, <2>3, <2>4 DEF TypeOK
<1>7. Tracking'
    <2>1. \A t \in tracked' : /\ t.first \in Opening /\ ~t.first.forged
                              /\ \E c \in Configs : t.port = Redirected(c, t.first)
        BY <1>1, <1>2, <1>3 DEF Tracking
    <2>2. \A s, t \in tracked' : s.first = t.first => s = t
        <3>1. \A t \in tracked : ~Known(p) => t.first # p
            BY DEF Known
        <3> QED
            BY <1>1, <1>3, <3>1 DEF Tracking
    <2> QED
        BY <2>1, <2>2 DEF Tracking
<1>8. Lines'
    BY <1>1 DEF Lines
<1>9. Counting'
    <2> SUFFICES ASSUME NEW q \in passed', q.from = "guest" PROVE CountedAs(q)'
        BY DEF Counting
    <2>1. q \in Opening /\ used \subseteq used'
        BY <1>4, <1>5 DEF TypeOK
    <2>2. CASE q = p
        <3>1. /\ p.peer \in Beyond =>
                IF Pinned(cfg, p) THEN Counter("pin", <<p.peer, p.port>>) \in used'
                                  ELSE Counter("internet", NoPin) \in used'
              /\ p.peer \notin Beyond /\ p.proto = "tcp" =>
                \/ Counter("host", NoPin) \in used'
                \/ PortOf(cfg, p) \notin cfg.hostPorts /\ Redirected(cfg, p) = PortOf(cfg, p)
            BY <1>2, <1>4, <2>1, <2>2, PassCounts
        <3>2. \A t \in tracked : t.first = p => t.port = PortOf(cfg, p)
            <4>1. \A t \in tracked : t.first = p => Known(p)
                BY DEF Known
            <4>2. Known(p) => \E s \in tracked : s.first = p /\ PortOf(cfg, p) = s.port
                BY PortIs
            <4> QED
                BY <4>1, <4>2 DEF Tracking
        <3>3. \A t \in tracked' : t.first = p => t.port \in {PortOf(cfg, p), Redirected(cfg, p)}
            BY <1>1, <1>3, <3>2
        <3> QED
            BY <1>1, <2>2, <3>1, <3>3 DEF CountedAs, Pinned
    <2>3. CASE q # p
        <3>1. q \in passed /\ CountedAs(q)
            BY <1>4, <1>5, <2>3 DEF Counting
        <3>2. \A t \in tracked' : t.first = q => t \in tracked
            BY <1>1, <1>3, <2>3
        <3> QED
            BY <1>1, <2>1, <3>1, <3>2 DEF CountedAs, Pinned
    <2> QED
        BY <2>2, <2>3
<1> QED
    BY <1>1, <1>6, <1>7, <1>8, <1>9

\* Nothing of a packet's history changes while these stay as they are.
LEMMA CountingStays ==
    ASSUME Counting, cfg' = cfg, used' = used, passed' = passed, tracked' \subseteq tracked
    PROVE  Counting'
<1> SUFFICES ASSUME NEW q \in passed, q.from = "guest" PROVE CountedAs(q)'
    BY DEF Counting
<1>1. CountedAs(q)
    BY DEF Counting
<1> QED
    BY <1>1 DEF CountedAs, Pinned

LEMMA DropKeeps ==
    ASSUME NetworkInv, NEW p \in Opening \cup Replies, Drop(p)
    PROVE  NetworkInv'
<1> USE DEF NetworkInv
<1> DEFINE line == [tag |-> Tag(cfg, p), packet |-> p, port |-> PortOf(cfg, p)]
<1>1. /\ kernel' = kernel \cup {line} /\ Tag(cfg, p) \in Drops
      /\ UNCHANGED <<cfg, egress, tracked, journal, used, passed>>
    BY DEF Drop, Passes
<1>2. About(line)
    BY DropIsAbout DEF TypeOK
<1>3. TypeOK'
    <2>1. steps' \in 0 .. MaxSteps
        BY StepKeeps DEF Drop
    <2>2. \A l \in kernel' : l.tag \in Drops /\ l.packet \in Opening \cup Replies
        BY <1>1 DEF TypeOK
    <2> QED
        BY <1>1, <2>1, <2>2 DEF TypeOK
<1>4. Tracking'
    BY <1>1 DEF Tracking
<1>5. Lines'
    BY <1>1, <1>2 DEF Lines
<1>6. Counting'
    BY <1>1, CountingStays
<1> QED
    BY <1>1, <1>3, <1>4, <1>5, <1>6

LEMMA HelloKeeps ==
    ASSUME NetworkInv, NEW name \in Hosts, Hello(name) PROVE NetworkInv'
<1> USE DEF NetworkInv
<1>1. TypeOK'
    <2>1. steps' \in 0 .. MaxSteps
        BY StepKeeps DEF Hello
    <2>2. journal' \in Seq(Entries)
        <3>1. journal \in Seq(Entries)
            BY DEF TypeOK
        <3> QED
            BY <3>1, EntryIs DEF Hello
    <2> QED
        BY <2>1, <2>2 DEF TypeOK, Hello
<1>2. Tracking' /\ Lines' /\ egress' = egress
    BY DEF Tracking, Lines, Hello
<1>3. Counting'
    BY CountingStays DEF Hello
<1> QED
    BY <1>1, <1>2, <1>3

LEMMA LogsKeeps ==
    ASSUME NetworkInv, Logs PROVE NetworkInv'
<1> USE DEF NetworkInv
<1>1. TypeOK'
    <2>1. steps' \in 0 .. MaxSteps
        BY StepKeeps DEF Logs
    <2>2. journal' \in Seq(Entries)
        BY DEF TypeOK, Logs, Entries
    <2> QED
        BY <2>1, <2>2 DEF TypeOK, Logs
<1>2. Tracking' /\ Lines' /\ egress' = egress
    BY DEF Tracking, Lines, Logs
<1>3. Counting'
    BY CountingStays DEF Logs
<1> QED
    BY <1>1, <1>2, <1>3

LEMMA EgressKeeps ==
    ASSUME NetworkInv, EgressStarts \/ EgressStops PROVE NetworkInv'
<1> USE DEF NetworkInv
<1>1. egress' \in {"up", "down"} /\ UNCHANGED <<cfg, tracked, kernel, journal, used, passed>>
    BY StartedIs DEF EgressStarts, EgressStops
<1>2. steps' \in 0 .. MaxSteps
    <2>1. CASE EgressStarts
        BY <2>1 DEF EgressStarts, TypeOK
    <2>2. CASE EgressStops
        BY <2>2, StepKeeps DEF EgressStops
    <2> QED
        BY <2>1, <2>2
<1>3. TypeOK'
    BY <1>1, <1>2 DEF TypeOK
<1>4. Tracking' /\ Lines'
    BY <1>1 DEF Tracking, Lines
<1>5. Counting'
    BY <1>1, CountingStays
<1> QED
    BY <1>1, <1>3, <1>4, <1>5

LEMMA RebuildKeeps ==
    ASSUME NetworkInv, NEW c \in Configs, Rebuild(c) PROVE NetworkInv'
<1> USE DEF NetworkInv
<1>1. /\ cfg' = c /\ egress' = Started(c) /\ kernel' = kernel /\ journal' = journal
      /\ used' = {} /\ passed' = {} /\ tracked' = {[t EXCEPT !.counted = FALSE] : t \in tracked}
    BY DEF Rebuild
<1>2. \A s \in tracked' : \E t \in tracked :
        /\ s = [t EXCEPT !.counted = FALSE] /\ s.first = t.first /\ s.port = t.port
        /\ s \in [first : Opening, port : Ports \cup HostPorts \cup {DnsPort, TlsPort}, counted : BOOLEAN]
    <2> SUFFICES ASSUME NEW t \in tracked, NEW s, s = [t EXCEPT !.counted = FALSE]
                 PROVE  /\ s.first = t.first /\ s.port = t.port
                        /\ s \in [first : Opening, port : Ports \cup HostPorts \cup {DnsPort, TlsPort},
                                  counted : BOOLEAN]
        BY <1>1
    <2>1. t \in [first : Opening, port : Ports \cup HostPorts \cup {DnsPort, TlsPort}, counted : BOOLEAN]
        BY DEF TypeOK
    <2> QED
        BY <2>1
<1>3. TypeOK'
    <2>1. steps' \in 0 .. MaxSteps
        BY StepKeeps DEF Rebuild
    <2>2. tracked' \subseteq [first : Opening, port : Ports \cup HostPorts \cup {DnsPort, TlsPort},
                              counted : BOOLEAN]
        BY <1>2
    <2> QED
        BY <1>1, <2>1, <2>2, StartedIs DEF TypeOK
<1>4. Tracking'
    <2>1. \A s \in tracked' : /\ s.first \in Opening /\ ~s.first.forged
                              /\ \E d \in Configs : s.port = Redirected(d, s.first)
        BY <1>2 DEF Tracking
    <2>2. \A s, t \in tracked' : s.first = t.first => s = t
        <3> SUFFICES ASSUME NEW s \in tracked', NEW t \in tracked', s.first = t.first PROVE s = t
            OBVIOUS
        <3>1. PICK s0 \in tracked : s = [s0 EXCEPT !.counted = FALSE] /\ s.first = s0.first
            BY <1>2
        <3>2. PICK t0 \in tracked : t = [t0 EXCEPT !.counted = FALSE] /\ t.first = t0.first
            BY <1>2
        <3>3. s0 = t0
            BY <3>1, <3>2 DEF Tracking
        <3> QED
            BY <3>1, <3>2, <3>3
    <2> QED
        BY <2>1, <2>2 DEF Tracking
<1>5. Lines'
    BY <1>1 DEF Lines
<1>6. Counting'
    BY <1>1 DEF Counting
<1>7. egress' # "failed"
    BY <1>1, StartedIs
<1> QED
    BY <1>3, <1>4, <1>5, <1>6, <1>7

LEMMA ExpiresKeeps ==
    ASSUME NetworkInv, NEW t \in tracked, Expires(t) PROVE NetworkInv'
<1> USE DEF NetworkInv
<1>1. tracked' \subseteq tracked /\ UNCHANGED <<cfg, egress, kernel, journal, used, passed, steps>>
    BY DEF Expires
<1>2. TypeOK'
    BY <1>1 DEF TypeOK
<1>3. Tracking' /\ Lines'
    BY <1>1 DEF Tracking, Lines
<1>4. Counting'
    BY <1>1, CountingStays
<1> QED
    BY <1>1, <1>2, <1>3, <1>4

LEMMA NextKeeps == NetworkInv /\ [Next]_vars => NetworkInv'
<1> SUFFICES ASSUME NetworkInv, [Next]_vars PROVE NetworkInv'
    OBVIOUS
<1>1. CASE \E p \in Opening \cup Replies : Pass(p) \/ Drop(p)
    BY <1>1, PassKeeps, DropKeeps
<1>2. CASE \E name \in Hosts : Hello(name)
    BY <1>2, HelloKeeps
<1>3. CASE \E c \in Configs : Rebuild(c)
    BY <1>3, RebuildKeeps
<1>4. CASE \E t \in tracked : Expires(t)
    BY <1>4, ExpiresKeeps
<1>5. CASE EgressStarts \/ EgressStops
    BY <1>5, EgressKeeps
<1>6. CASE Logs
    BY <1>6, LogsKeeps
<1>7. CASE UNCHANGED vars
    <2>1. UNCHANGED <<cfg, egress, tracked, kernel, journal, used, passed, steps>>
        BY <1>7 DEF vars
    <2>2. Counting'
        BY <2>1, CountingStays DEF NetworkInv
    <2> QED
        BY <2>1, <2>2 DEF NetworkInv, TypeOK, Tracking, Lines
<1> QED
    BY <1>1, <1>2, <1>3, <1>4, <1>5, <1>7, <1>6 DEF Next

\* Whatever the grants, the packets and the rebuilds, the state keeps its
\* shape: connections the guest, the host or its processes opened, lines of
\* the rules that drop, counters of the rules that pass.
THEOREM TypeCorrect == Spec => []TypeOK
<1>1. NetworkInv => TypeOK
    BY DEF NetworkInv
<1> QED
    BY <1>1, InitHolds, NextKeeps, PTL DEF Spec

\* For every set of options the grants in force decide every packet
\* (firewall.nix:84), whatever was granted when its connection was opened and
\* wherever it was redirected then: no order of rules shadows a grant or
\* keeps alive a connection of the guest that a rebuild no longer grants.
THEOREM GrantsHold == Spec => []GrantsDecide
<1>1. NetworkInv => GrantsDecide
    BY AllDecide DEF NetworkInv, TypeOK
<1> QED
    BY <1>1, InitHolds, NextKeeps, PTL DEF Spec

\* The doors the ruleset passes the guest to are those pid 1 holds and run
\* takes, for every configuration the options accept, and run never refuses
\* its sockets (firewall.nix's doors beside main.go's run).
THEOREM DoorsHold == Spec => []DoorsServed
<1>1. NetworkInv => DoorsServed
    BY AllServed DEF NetworkInv, TypeOK
<1> QED
    BY <1>1, InitHolds, NextKeeps, PTL DEF Spec

-----------------------------------------------------------------------------
(* What a line of status suggests *)

LEMMA ConfigIs ==
    ASSUME NEW c \in Configs
    PROVE  /\ DOMAIN c = {"internet", "hostPorts", "pins", "domains", "denied", "credentials", "inbound"}
           /\ c.internet \in BOOLEAN /\ c.domains \subseteq Patterns /\ Valid(c)
BY DEF Configs

\* A grant of another kind than a name changes nothing of what makes a
\* configuration valid.
LEMMA StaysValid ==
    ASSUME NEW c \in Configs, NEW d, d.domains = c.domains, d.denied = c.denied,
           d.internet => c.internet \/ c.domains = {}
    PROVE  Valid(d)
<1>1. Valid(c)
    BY ConfigIs
<1>2. \A pattern : GrantedExactly(d, pattern) <=> GrantedExactly(c, pattern)
    BY DEF GrantedExactly
<1> QED
    BY <1>1, <1>2 DEF Valid

LEMMA HintIs ==
    ASSUME NEW grant, NEW pin PROVE Hint(grant, pin).grant = grant /\ Hint(grant, pin).pin = pin
BY DEF Hint

\* What following a hint does for a packet: it admits it, or the hint is a
\* wrong one and does nothing for it.
Right(c, hint, p) ==
    /\ (\E d \in Followed(c, hint) : Reaches(d, hint.grant, p.proto)) <=> ~Wrong(c, hint, p.proto)
    /\ \A d \in Followed(c, hint) :
        IF Reaches(d, hint.grant, p.proto) THEN Admits(d, p) ELSE Admits(d, p) => Admits(c, p)

\* A hint that leaves one configuration, and reaches tcp alone.
LEMMA OneIsRight ==
    ASSUME NEW c, NEW grant \in {"inbound", "pin", "host"}, NEW pin, NEW p, NEW d,
           Followed(c, Hint(grant, pin)) = {d}, p.proto \in {"tcp", "udp"},
           grant = "host" => p.proto = "tcp",
           p.proto = "tcp" => Admits(d, p), p.proto = "udp" => (Admits(d, p) => Admits(c, p))
    PROVE  Right(c, Hint(grant, pin), p)
<1>1. Hint(grant, pin).grant = grant
    BY HintIs
<1>2. \A e : Reaches(e, Hint(grant, pin).grant, p.proto) <=> p.proto = "tcp"
    BY <1>1 DEF Reaches
<1>3. ~Wrong(c, Hint(grant, pin), p.proto) <=> p.proto = "tcp"
    BY <1>1 DEF Wrong
<1> QED
    BY <1>2, <1>3 DEF Right

LEMMA InboundRight ==
    ASSUME NEW c \in Configs, NEW p \in Opening, p.from = "owner", ~Known(p), NEW pin, pin[2] = p.port
    PROVE  Right(c, Hint("inbound", pin), p)
<1> DEFINE d == [c EXCEPT !.inbound = @ \cup {pin[2]}]
<1>1. /\ d.inbound = c.inbound \cup {pin[2]}
      /\ d.domains = c.domains /\ d.denied = c.denied /\ d.internet = c.internet
    BY ConfigIs
<1>2. Valid(d)
    BY <1>1, StaysValid
<1>3. Followed(c, Hint("inbound", pin)) = {d}
    <2> DEFINE hint == Hint("inbound", pin)
    <2>1. hint.grant = "inbound" /\ hint.pin = pin
        BY HintIs
    <2> HIDE DEF hint
    <2>2. Followed(c, hint) = {e \in {[c EXCEPT !.inbound = @ \cup {hint.pin[2]}]} : Valid(e)}
        BY <2>1 DEF Followed
    <2> QED
        BY <1>2, <2>1, <2>2 DEF hint
<1>4. p.port \in d.inbound
    BY <1>1
<1> HIDE DEF d
<1>5. p.proto = "tcp" => Tag(d, p) = "guest"
    BY <1>4, OutputTag
<1>6. p.proto = "udp" => Tag(d, p) = "guest-blocked"
    BY OutputTag
<1>7. p.proto \in {"tcp", "udp"}
    BY OpeningIs
<1>8. p.proto = "tcp" => Admits(d, p)
    BY <1>5 DEF Admits, Passes, Drops
<1>9. p.proto = "udp" => ~Admits(d, p)
    BY <1>6 DEF Admits, Passes, Drops
<1> QED
    BY <1>3, <1>7, <1>8, <1>9, OneIsRight

LEMMA PinRight ==
    ASSUME NEW c \in Configs, NEW p \in Opening, p.from = "guest", p.peer \in Beyond, ~p.forged
    PROVE  Right(c, Hint("pin", <<p.peer, p.port>>), p)
<1> DEFINE pin == <<p.peer, p.port>>
           d == [c EXCEPT !.pins = @ \cup {pin}]
<1>1. d.pins = c.pins \cup {pin} /\ d.domains = c.domains /\ d.denied = c.denied /\ d.internet = c.internet
    BY ConfigIs
<1>2. Valid(d)
    BY <1>1, StaysValid
<1>3. Followed(c, Hint("pin", pin)) = {d}
    BY <1>2, HintIs DEF Followed
<1>4. <<p.peer, p.port>> \in d.pins
    BY <1>1
<1>5. DnsEgress(d) <=> DnsEgress(c)
    BY <1>1 DEF DnsEgress
<1>6. d.internet = c.internet
    BY <1>1
<1> HIDE DEF d
<1>7. p.proto \in {"tcp", "udp"}
    BY OpeningIs
<1>8. p.proto = "tcp" => Tag(d, p) \in {"connections-blocked", "pin"}
    BY <1>4, ForwardTag
<1>9. p.proto = "udp" => Tag(d, p) = Tag(c, p)
    BY <1>5, <1>6, ForwardTag
<1>10. p.proto = "tcp" => Admits(d, p)
    BY <1>8 DEF Admits, Passes, Drops
<1>11. p.proto = "udp" => (Admits(d, p) => Admits(c, p))
    BY <1>9 DEF Admits, Passes
<1> QED
    BY <1>3, <1>7, <1>10, <1>11, OneIsRight

\* A port of the host: the guest gets there, or a door of the bridge that
\* passes takes what it sends there.
LEMMA HostRight ==
    ASSUME NEW c \in Configs, NEW p \in Opening, p.from = "guest", p.peer \notin Beyond, p.proto = "tcp",
           ~p.forged, ~Known(p), NEW pin, pin[2] = p.port
    PROVE  Right(c, Hint("host", pin), p)
<1> DEFINE d == [c EXCEPT !.hostPorts = @ \cup {pin[2]}]
<1>1. /\ d.hostPorts = c.hostPorts \cup {pin[2]}
      /\ d.domains = c.domains /\ d.denied = c.denied /\ d.internet = c.internet
    BY ConfigIs
<1>2. Valid(d)
    BY <1>1, StaysValid
<1>3. Followed(c, Hint("host", pin)) = {d}
    <2> DEFINE hint == Hint("host", pin)
    <2>1. hint.grant = "host" /\ hint.pin = pin
        BY HintIs
    <2> HIDE DEF hint
    <2>2. Followed(c, hint) = {e \in {[c EXCEPT !.hostPorts = @ \cup {hint.pin[2]}]} : Valid(e)}
        BY <2>1 DEF Followed
    <2> QED
        BY <1>2, <2>1, <2>2 DEF hint
<1>4. p.port \in d.hostPorts
    BY <1>1
<1> HIDE DEF d
<1>5. p.reply = FALSE /\ ~Established(p)
    BY OpeningIs DEF Established
<1>6. PortOf(d, p) = Redirected(d, p)
    BY PortIs
<1>7. \/ PortOf(d, p) = p.port
      \/ p.peer = "bridge" /\ PortOf(d, p) = DnsPort /\ d.internet
      \/ p.peer = "bridge" /\ PortOf(d, p) = TlsPort /\ TlsEgress(d)
    BY <1>5, <1>6 DEF Redirected
<1>8. Tag(d, p) \in {"connections-blocked", "host", "dns-tcp", "egress-tls"}
    BY <1>4, <1>5, <1>7, InputTag
<1>9. Admits(d, p)
    BY <1>8 DEF Admits, Passes, Drops
<1> QED
    BY <1>3, <1>9, OneIsRight

\* What dns at the bridge meets once the configuration resolves names.
LEMMA NamesAdmit ==
    ASSUME NEW d, NEW p \in Opening, p.from = "guest", p.peer = "bridge", p.port = 53, ~p.forged, ~Known(p),
           DnsEgress(d), p.proto = "tcp" => d.internet
    PROVE  Admits(d, p)
<1>1. p.reply = FALSE /\ ~Established(p) /\ p.proto \in {"tcp", "udp"} /\ p.peer \notin Beyond
    BY OpeningIs DEF Established, Beyond
<1>2. PortOf(d, p) = DnsPort
    <2>1. PortOf(d, p) = Redirected(d, p)
        BY PortIs
    <2> QED
        BY <1>1, <2>1 DEF Redirected
<1>3. Tag(d, p) \in {"connections-blocked", "host", "dns", "dns-tcp"}
    BY <1>1, <1>2, InputTag
<1> QED
    BY <1>3 DEF Admits, Passes, Drops

\* Without an open grant dns over tcp is a packet to a port of the host.
LEMMA StreamIsPort ==
    ASSUME NEW d, NEW p \in Opening, p.from = "guest", p.peer = "bridge", p.port = 53, p.proto = "tcp",
           ~p.forged, ~Known(p), ~d.internet
    PROVE  Admits(d, p) <=> Full(p) \/ 53 \in d.hostPorts
<1>1. p.reply = FALSE /\ ~Established(p) /\ p.peer \notin Beyond
    BY OpeningIs DEF Established, Beyond
<1>2. PortOf(d, p) = 53
    <2>1. PortOf(d, p) = Redirected(d, p)
        BY PortIs
    <2> QED
        BY <1>1, <2>1 DEF Redirected
<1>3. Tag(d, p) = IF Full(p) THEN "connections-blocked"
                  ELSE IF 53 \in d.hostPorts THEN "host" ELSE "host-blocked"
    BY <1>1, <1>2, InputTag DEF DnsPort, TlsPort
<1> QED
    BY <1>3 DEF Admits, Passes, Drops

\* The configurations of the hint for dns: an open grant, or a domain more.
LEMMA ResolverFollowed ==
    ASSUME NEW c \in Configs, NEW pin, NEW d \in Followed(c, Hint("names", pin))
    PROVE  /\ DnsEgress(d) /\ d.hostPorts = c.hostPorts
           /\ d.internet => c.domains = {}
           /\ ~d.internet => ~c.internet
<1>1. /\ Valid(d)
      /\ \/ d = [c EXCEPT !.internet = TRUE]
         \/ \E pattern \in Patterns : d = [c EXCEPT !.domains = @ \cup {pattern}]
    BY HintIs DEF Followed
<1>2. CASE d = [c EXCEPT !.internet = TRUE]
    <2>1. d.internet = TRUE /\ d.domains = c.domains /\ d.hostPorts = c.hostPorts
        BY <1>2, ConfigIs
    <2> QED
        BY <1>1, <2>1 DEF DnsEgress, Valid
<1>3. CASE \E pattern \in Patterns : d = [c EXCEPT !.domains = @ \cup {pattern}]
    <2>1. PICK pattern \in Patterns : d = [c EXCEPT !.domains = @ \cup {pattern}]
        BY <1>3
    <2>2. d.domains = c.domains \cup {pattern} /\ d.hostPorts = c.hostPorts /\ d.internet = c.internet
        BY <2>1, ConfigIs
    <2>3. d.domains # {}
        BY <2>2
    <2>4. ~d.internet
        BY <1>1, <2>3 DEF Valid
    <2> QED
        BY <2>2, <2>3, <2>4 DEF DnsEgress
<1> QED
    BY <1>1, <1>2, <1>3

LEMMA ResolverExists ==
    ASSUME NEW c \in Configs, NEW pin
    PROVE  /\ c.domains = {} => \E d \in Followed(c, Hint("names", pin)) : d.internet
           /\ c.domains # {} => c \in Followed(c, Hint("names", pin))
<1>1. ASSUME c.domains = {} PROVE \E d \in Followed(c, Hint("names", pin)) : d.internet
    <2> DEFINE d == [c EXCEPT !.internet = TRUE]
    <2>1. d.internet = TRUE /\ d.domains = c.domains /\ d.denied = c.denied
        BY ConfigIs
    <2>2. Valid(d)
        BY <1>1, <2>1, StaysValid
    <2>3. d \in Followed(c, Hint("names", pin))
        BY <2>2, HintIs DEF Followed
    <2> QED
        BY <2>1, <2>3
<1>2. ASSUME c.domains # {} PROVE c \in Followed(c, Hint("names", pin))
    <2>1. PICK pattern \in c.domains : TRUE
        BY <1>2
    <2>2. pattern \in Patterns /\ Valid(c)
        BY ConfigIs
    <2>3. c = [c EXCEPT !.domains = @ \cup {pattern}]
        <3>1. c.domains \cup {pattern} = c.domains
            OBVIOUS
        <3>2. c = [f \in DOMAIN c |-> c[f]]
            BY DEF Configs
        <3> QED
            BY <3>1, <3>2
    <2> QED
        BY <2>2, <2>3, HintIs DEF Followed
<1> QED
    BY <1>1, <1>2

LEMMA ResolverRight ==
    ASSUME NEW c \in Configs, NEW p \in Opening, p.from = "guest", p.peer = "bridge", p.port = 53,
           ~p.forged, ~Known(p), NEW pin
    PROVE  Right(c, Hint("names", pin), p)
<1> DEFINE hint == Hint("names", pin)
<1>1. hint.grant = "names"
    BY HintIs
<1> HIDE DEF hint
<1>2. p.proto \in {"tcp", "udp"}
    BY OpeningIs
<1>3. \A d : Reaches(d, hint.grant, p.proto) <=> p.proto = "udp" \/ d.internet
    BY <1>1 DEF Reaches
<1>4. Wrong(c, hint, p.proto) <=> p.proto = "tcp" /\ c.domains # {}
    BY <1>1 DEF Wrong
<1>5. (\E d \in Followed(c, hint) : Reaches(d, hint.grant, p.proto)) <=> ~Wrong(c, hint, p.proto)
    <2>1. /\ c.domains = {} => \E d \in Followed(c, hint) : d.internet
          /\ c.domains # {} => c \in Followed(c, hint)
        BY ResolverExists DEF hint
    <2>2. \A d \in Followed(c, hint) : d.internet => c.domains = {}
        BY ResolverFollowed DEF hint
    <2> QED
        BY <1>2, <1>3, <1>4, <2>1, <2>2
<1>6. ASSUME NEW d \in Followed(c, hint)
      PROVE  IF Reaches(d, hint.grant, p.proto) THEN Admits(d, p) ELSE Admits(d, p) => Admits(c, p)
    <2>1. DnsEgress(d) /\ d.hostPorts = c.hostPorts /\ (~d.internet => ~c.internet)
        BY <1>6, ResolverFollowed DEF hint
    <2>2. CASE p.proto = "udp" \/ d.internet
        <3>1. p.proto = "tcp" => d.internet
            BY <2>2
        <3> QED
            BY <1>3, <2>1, <2>2, <3>1, NamesAdmit
    <2>3. CASE ~(p.proto = "udp" \/ d.internet)
        <3>1. p.proto = "tcp" /\ ~d.internet /\ ~c.internet
            BY <1>2, <2>1, <2>3
        <3>2. Admits(d, p) <=> Full(p) \/ 53 \in d.hostPorts
            BY <3>1, StreamIsPort
        <3>3. Admits(c, p) <=> Full(p) \/ 53 \in c.hostPorts
            BY <3>1, StreamIsPort
        <3> QED
            BY <1>3, <2>1, <2>3, <3>2, <3>3
    <2> QED
        BY <2>2, <2>3
<1> QED
    BY <1>5, <1>6 DEF Right, hint

LEMMA HintOfIs ==
    ASSUME NEW line
    PROVE  LET p == line.packet
               hint == HintOf(line)
           IN  hint.grant # "none" =>
                 /\ hint.pin = <<p.peer, line.port>>
                 /\ \/ hint = Hint("inbound", <<p.peer, line.port>>) /\ line.tag = "guest-blocked"
                    \/ /\ hint = Hint("pin", <<p.peer, line.port>>)
                       /\ line.tag \in {"dns-blocked", "blocked", "private-blocked"}
                    \/ /\ hint = Hint("names", <<p.peer, line.port>>) /\ line.tag = "host-blocked"
                       /\ p.peer = "bridge" /\ line.port = 53
                    \/ /\ hint = Hint("host", <<p.peer, line.port>>) /\ line.tag = "host-blocked"
                       /\ line.port < 32768 /\ p.proto = "tcp"
<1> DEFINE pin == <<line.packet.peer, line.port>>
           tcp == line.packet.proto = "tcp"
           dns == pin = <<"bridge", 53>>
           hint == HintOf(line)
<1>1. HintOf(line) =
        IF line.packet.peer = "multicast" THEN NoHint
        ELSE CASE line.tag = "guest-blocked" -> Hint("inbound", pin)
               [] line.tag = "dns-blocked" -> Hint("pin", pin)
               [] line.tag = "host-blocked" /\ dns -> Hint("names", pin)
               [] line.tag = "host-blocked" /\ ~dns /\ line.port < 32768 /\ tcp -> Hint("host", pin)
               [] line.tag \in {"blocked", "private-blocked"} /\ tcp -> Hint("pin", pin)
               [] OTHER -> NoHint
    BY DEF HintOf
<1>2. dns => line.packet.peer = "bridge" /\ line.port = 53
    OBVIOUS
<1>3. NoHint.grant = "none"
    BY HintIs DEF NoHint
<1> HIDE DEF dns, tcp, pin
<1>4. \/ hint = NoHint
      \/ hint = Hint("inbound", pin) /\ line.tag = "guest-blocked"
      \/ hint = Hint("pin", pin) /\ line.tag \in {"dns-blocked", "blocked", "private-blocked"}
      \/ hint = Hint("names", pin) /\ line.tag = "host-blocked" /\ dns
      \/ hint = Hint("host", pin) /\ line.tag = "host-blocked" /\ line.port < 32768 /\ tcp
    BY <1>1
<1> HIDE DEF hint
<1>5. hint.grant # "none" => hint.pin = pin
    BY <1>3, <1>4, HintIs
<1>6. hint.grant # "none" =>
         \/ hint = Hint("inbound", pin) /\ line.tag = "guest-blocked"
         \/ hint = Hint("pin", pin) /\ line.tag \in {"dns-blocked", "blocked", "private-blocked"}
         \/ hint = Hint("names", pin) /\ line.tag = "host-blocked" /\ dns
         \/ hint = Hint("host", pin) /\ line.tag = "host-blocked" /\ line.port < 32768 /\ tcp
    BY <1>3, <1>4
<1> QED
    BY <1>2, <1>5, <1>6 DEF hint, pin, tcp

\* A packet goes to its own port, unless that is a door's or a reply's.
LEMMA ReplyPort ==
    ASSUME NEW c, NEW p \in Replies
    PROVE  /\ Redirected(c, p) = Ephemeral /\ p.from # "owner"
           /\ p.from = "guest" => p.peer \notin Beyond
<1>1. p.reply = TRUE
    BY RepliesAre
<1>2. (p.from = "guest" /\ p.peer = "guest") \/ p.from = "beyond"
    BY RepliesAre
<1> QED
    BY <1>1, <1>2 DEF Redirected, Beyond

LEMMA OpeningPort ==
    ASSUME NEW c, NEW p \in Opening
    PROVE  \/ Redirected(c, p) = p.port
           \/ p.peer = "bridge" /\ p.from = "guest" /\ Redirected(c, p) \in {DnsPort, TlsPort}
<1>1. p.reply = FALSE
    BY OpeningIs
<1> QED
    BY <1>1 DEF Redirected

LEMMA LinePort ==
    ASSUME NEW line, About(line), NEW p \in Opening \cup Replies, p = line.packet,
           p.from \in {"guest", "owner"},
           p.from = "owner" \/ p.peer \in Beyond \/ line.port < 32768
    PROVE  p \in Opening /\ line.port = p.port
<1>1. PICK c \in Configs : line.port = Redirected(c, p)
    BY DEF About
<1>2. CASE p \in Replies
    <2>1. line.port = Ephemeral /\ p.from # "owner" /\ (p.from = "guest" => p.peer \notin Beyond)
        BY <1>1, <1>2, ReplyPort
    <2> QED
        BY <2>1 DEF Ephemeral
<1>3. CASE p \in Opening
    <2>1. \/ line.port = p.port
          \/ p.peer = "bridge" /\ p.from = "guest" /\ line.port \in {DnsPort, TlsPort}
        BY <1>1, <1>3, OpeningPort
    <2> QED
        BY <1>3, <2>1 DEF Beyond, DnsPort, TlsPort
<1> QED
    BY <1>2, <1>3

LEMMA LineRight ==
    ASSUME NetworkInv, NEW line \in kernel, NEW p, p = line.packet, HintOf(line).grant # "none", ~Known(p)
    PROVE  Right(cfg, HintOf(line), p)
<1> DEFINE pin == <<p.peer, line.port>>
           hint == HintOf(line)
<1>1. cfg \in Configs /\ About(line) /\ p \in Opening \cup Replies
    BY DEF NetworkInv, TypeOK, Lines
<1>2. \/ hint = Hint("inbound", pin) /\ line.tag = "guest-blocked"
      \/ hint = Hint("pin", pin) /\ line.tag \in {"dns-blocked", "blocked", "private-blocked"}
      \/ hint = Hint("names", pin) /\ line.tag = "host-blocked" /\ p.peer = "bridge" /\ line.port = 53
      \/ hint = Hint("host", pin) /\ line.tag = "host-blocked" /\ line.port < 32768 /\ p.proto = "tcp"
    BY HintOfIs
<1>3. pin[2] = line.port
    OBVIOUS
<1>4. /\ p.forged => line.tag = "spoof-blocked"
      /\ line.tag = "guest-blocked" => p.from = "owner"
      /\ line.tag \in {"dns-blocked", "private-blocked", "blocked"} => p.from = "guest" /\ p.peer \in Beyond
      /\ line.tag = "host-blocked" => p.from = "guest" /\ p.peer \notin Beyond
    BY <1>1 DEF About
<1> HIDE DEF hint, pin
<1>5. CASE hint = Hint("inbound", pin) /\ line.tag = "guest-blocked"
    <2>1. p.from = "owner"
        BY <1>4, <1>5
    <2>2. p \in Opening /\ line.port = p.port
        BY <1>1, <2>1, LinePort
    <2>3. Right(cfg, Hint("inbound", pin), p)
        BY <1>1, <1>3, <2>1, <2>2, InboundRight
    <2> QED
        BY <1>5, <2>3 DEF hint
<1>6. CASE hint = Hint("pin", pin) /\ line.tag \in {"dns-blocked", "blocked", "private-blocked"}
    <2>1. p.from = "guest" /\ p.peer \in Beyond
        BY <1>4, <1>6
    <2>2. p \in Opening /\ line.port = p.port
        BY <1>1, <2>1, LinePort
    <2>3. ~p.forged
        <3>1. p.forged \in BOOLEAN /\ line.tag # "spoof-blocked"
            BY <1>6, <2>2, OpeningIs
        <3> QED
            BY <1>4, <3>1
    <2>4. pin = <<p.peer, p.port>>
        BY <2>2 DEF pin
    <2>5. Right(cfg, Hint("pin", pin), p)
        BY <1>1, <2>1, <2>2, <2>3, <2>4, PinRight
    <2> QED
        BY <1>6, <2>5 DEF hint
<1>7. CASE hint = Hint("names", pin) /\ line.tag = "host-blocked" /\ p.peer = "bridge" /\ line.port = 53
    <2>1. p.from = "guest" /\ ~p.forged
        BY <1>4, <1>7
    <2>2. p \in Opening /\ line.port = p.port
        BY <1>1, <1>7, <2>1, LinePort
    <2>3. Right(cfg, Hint("names", pin), p)
        BY <1>1, <1>7, <2>1, <2>2, ResolverRight
    <2> QED
        BY <1>7, <2>3 DEF hint
<1>8. CASE hint = Hint("host", pin) /\ line.tag = "host-blocked" /\ line.port < 32768 /\ p.proto = "tcp"
    <2>1. p.from = "guest" /\ p.peer \notin Beyond /\ ~p.forged
        BY <1>4, <1>8
    <2>2. p \in Opening /\ line.port = p.port
        BY <1>1, <1>8, <2>1, LinePort
    <2>3. Right(cfg, Hint("host", pin), p)
        BY <1>1, <1>3, <1>8, <2>1, <2>2, HostRight
    <2> QED
        BY <1>8, <2>3 DEF hint
<1>9. \/ hint = Hint("inbound", pin) /\ line.tag = "guest-blocked"
      \/ hint = Hint("pin", pin) /\ line.tag \in {"dns-blocked", "blocked", "private-blocked"}
      \/ hint = Hint("names", pin) /\ line.tag = "host-blocked" /\ p.peer = "bridge" /\ line.port = 53
      \/ hint = Hint("host", pin) /\ line.tag = "host-blocked" /\ line.port < 32768 /\ p.proto = "tcp"
    BY <1>2 DEF hint, pin
<1> QED
    BY <1>5, <1>6, <1>7, <1>8, <1>9

\* A refused name that becomes a grant of its own is admitted, unless an
\* entry denies it.
LEMMA NameAdmits ==
    ASSUME NEW c \in Configs, NEW name
    PROVE  LET d == Names(c, name)
           IN  Judged(d.credentials, d.domains, d.denied, name) = "deny" <=>
                  /\ NameHint(c, name) = "denied" /\ ToLower(name) \notin c.credentials
<1> DEFINE d == Names(c, name)
           pattern == [wild |-> FALSE, name |-> name]
<1>1. d.credentials = c.credentials /\ d.denied = c.denied /\ d.domains = c.domains \cup {pattern}
    BY ConfigIs DEF Names
<1>2. Covers(pattern, name)
    BY DEF Covers
<1>3. MatchesAny(d.domains, name)
    BY <1>1, <1>2 DEF MatchesAny
<1> HIDE DEF d, pattern
<1>4. Judged(d.credentials, d.domains, d.denied, name) =
        IF ToLower(name) \in c.credentials THEN "intercept"
        ELSE IF MatchesAny(c.denied, name) THEN "deny" ELSE "allow"
    BY <1>1, <1>3 DEF Judged, AllowedName
<1> QED
    BY <1>4 DEF NameHint, d

\* The options refuse the grant of a name that no entry denies where the open
\* grant is in force or the name has one label.
LEMMA NameIsValid ==
    ASSUME NEW c \in Configs, NEW name, NameHint(c, name) # "denied"
    PROVE  Valid(Names(c, name)) <=> ~c.internet /\ Len(name.labels) >= 2
<1> DEFINE d == Names(c, name)
           pattern == [wild |-> FALSE, name |-> name]
<1>1. d.denied = c.denied /\ d.domains = c.domains \cup {pattern} /\ d.internet = c.internet
    BY ConfigIs DEF Names
<1>2. /\ c.internet \in BOOLEAN
      /\ \A e \in c.domains \cup c.denied : Len(e.name.labels) >= 2
      /\ \A e \in c.denied : ~GrantedExactly(c, e) /\ MatchesAny(c.domains, e.name)
    BY ConfigIs DEF Valid
<1>3. \A e \in c.denied : ~Covers(e, name)
    BY DEF NameHint, MatchesAny
<1>4. pattern.name = name /\ pattern.wild = FALSE
    OBVIOUS
<1> HIDE DEF d, pattern
<1>5. \A e \in d.denied : MatchesAny(d.domains, e.name)
    BY <1>1, <1>2 DEF MatchesAny
<1>6. ASSUME NEW e \in d.denied PROVE ~GrantedExactly(d, e)
    <2>1. ~GrantedExactly(c, e) /\ ~Covers(e, name)
        BY <1>1, <1>2, <1>3
    <2>2. SUFFICES ASSUME pattern.wild = e.wild, ToLower(pattern.name) = ToLower(e.name) PROVE Covers(e, name)
        BY <1>1, <2>1 DEF GrantedExactly
    <2> QED
        BY <1>4, <2>2 DEF Covers
<1>7. (\A e \in d.domains \cup d.denied : Len(e.name.labels) >= 2) <=> Len(name.labels) >= 2
    BY <1>1, <1>2, <1>4
<1>8. d.domains # {}
    BY <1>1
<1>9. Valid(d) <=> ~c.internet /\ Len(name.labels) >= 2
    BY <1>1, <1>5, <1>6, <1>7, <1>8 DEF Valid
<1> QED
    BY <1>9 DEF d

LEMMA AllAdmit ==
    ASSUME NetworkInv PROVE HintAdmits
<1>1. cfg \in Configs
    BY DEF NetworkInv, TypeOK
<1>2. ASSUME NEW line \in kernel, HintOf(line).grant # "none", ~Known(line.packet)
      PROVE  Right(cfg, HintOf(line), line.packet)
    BY <1>2, LineRight
<1>3. ASSUME NEW line \in Read
      PROVE  LET c == Names(cfg, line.name)
                 verdict == Judged(c.credentials, c.domains, c.denied, line.name)
             IN  IF NameHint(cfg, line.name) = "denied"
                 THEN verdict = "deny" \/ ToLower(line.name) \in cfg.credentials
                 ELSE /\ verdict # "deny"
                      /\ Valid(c) <=> ~cfg.internet /\ Len(line.name.labels) >= 2
    BY <1>1, NameAdmits, NameIsValid
<1> QED
    BY <1>2, <1>3 DEF HintAdmits, Right

\* For every table of grants and every line, written under earlier grants
\* too: whoever follows the hint beside a refusal (cli.go:385) gets a new
\* connection like the refused one through, but for the hints no configuration
\* can make good, of which there are two kinds and which change nothing.  The
\* grant of a refused name admits it unless an entry denies it, and is one
\* the options accept unless the open grant is in force or it has one label.
THEOREM HintsAdmit == Spec => []HintAdmits
<1> QED
    BY AllAdmit, InitHolds, NextKeeps, PTL DEF Spec

-----------------------------------------------------------------------------
(* A grant that shows as unused can go *)

\* What a grant's removal leaves: no grant is added, and only one kind loses.
LEMMA GrantIs ==
    ASSUME NEW c \in Configs, NEW grant \in GrantLines(c)
    PROVE  \/ grant.kind \in {"guest", "internet", "host"} /\ grant.pin = NoPin
           \/ grant.kind = "pin"
           \/ grant.kind \in {"domain", "denied"}
           \/ grant.kind = "credential" /\ grant.pattern.wild = FALSE
BY DEF GrantLines, Counted, Grant, When

Lesser(d, c) ==
    /\ d.internet => c.internet
    /\ DnsEgress(d) => DnsEgress(c)
    /\ TlsEgress(d) => TlsEgress(c)

LEMMA WithoutIs ==
    ASSUME NEW c \in Configs, NEW grant \in GrantLines(c)
    PROVE  LET d == Without(c, grant)
           IN  /\ d.internet = IF grant.kind = "internet" THEN FALSE ELSE c.internet
               /\ d.hostPorts = IF grant.kind = "host" THEN {} ELSE c.hostPorts
               /\ d.pins = IF grant.kind = "pin" THEN c.pins \ {grant.pin} ELSE c.pins
               /\ d.domains = IF grant.kind = "domain" THEN c.domains \ {grant.pattern} ELSE c.domains
               /\ d.denied = IF grant.kind = "denied" THEN c.denied \ {grant.pattern} ELSE c.denied
               /\ d.credentials = IF grant.kind = "credential" THEN c.credentials \ {grant.pattern.name}
                                  ELSE c.credentials
<1>1. grant.kind \in {"guest", "internet", "host", "pin", "domain", "denied", "credential"}
    BY GrantIs
<1>2. DOMAIN c = {"internet", "hostPorts", "pins", "domains", "denied", "credentials", "inbound"}
    BY ConfigIs
<1>3. CASE grant.kind = "guest"
    BY <1>2, <1>3 DEF Without
<1>4. CASE grant.kind = "internet"
    BY <1>2, <1>4 DEF Without
<1>5. CASE grant.kind = "host"
    BY <1>2, <1>5 DEF Without
<1>6. CASE grant.kind = "pin"
    BY <1>2, <1>6 DEF Without
<1>7. CASE grant.kind = "domain"
    BY <1>2, <1>7 DEF Without
<1>8. CASE grant.kind = "denied"
    BY <1>2, <1>8 DEF Without
<1>9. CASE grant.kind = "credential"
    BY <1>2, <1>9 DEF Without
<1> QED
    BY <1>1, <1>3, <1>4, <1>5, <1>6, <1>7, <1>8, <1>9

LEMMA WithoutIsLesser ==
    ASSUME NEW c \in Configs, NEW grant \in GrantLines(c)
    PROVE  Lesser(Without(c, grant), c)
<1> DEFINE d == Without(c, grant)
<1>1. (d.internet => c.internet) /\ d.domains \subseteq c.domains /\ d.credentials \subseteq c.credentials
    BY WithoutIs
<1> HIDE DEF d
<1>2. Lesser(d, c)
    BY <1>1 DEF Lesser, DnsEgress, TlsEgress
<1> QED
    BY <1>2 DEF d

\* A counter at zero.
LEMMA UnusedIs ==
    ASSUME NEW grant, Unused(grant)
    PROVE  /\ grant.kind \in {"guest", "internet", "host", "pin"} =>
                Counter(grant.kind, grant.pin) \notin used
           /\ grant.kind = "domain" =>
                \A line \in Read : line.verb = "allow" => ~Covers(grant.pattern, line.name)
           /\ grant.kind = "denied" =>
                \A line \in Read : line.verb = "deny" => ~Covers(grant.pattern, line.name)
           /\ grant.kind = "credential" =>
                \A line \in Read : line.verb = "intercept" => ~Covers(grant.pattern, line.name)
<1>1. DOMAIN Verb = {"domain", "denied", "credential"}
    BY DEF Verb
<1>2. Verb["domain"] = "allow" /\ Verb["denied"] = "deny" /\ Verb["credential"] = "intercept"
    BY DEF Verb
<1>3. CASE grant.kind \in {"guest", "internet", "host", "pin"}
    <2>1. Packets(grant.kind, grant.pin) = {}
        BY <1>1, <1>3 DEF Unused
    <2> QED
        BY <1>3, <2>1 DEF Packets, Counter
<1>4. CASE grant.kind \in {"domain", "denied", "credential"}
    <2>1. Connections(Verb[grant.kind], grant.pattern) = {}
        BY <1>1, <1>4 DEF Unused
    <2> QED
        BY <1>2, <1>4, <2>1 DEF Connections
<1> QED
    BY <1>3, <1>4

\* Beyond the host, a packet that has its destination's counter or the open
\* grant's needs no other grant.
LEMMA BeyondIsSafe ==
    ASSUME NetworkInv, NEW grant \in GrantLines(cfg), Unused(grant),
           NEW p \in passed, p.from = "guest", p.peer \in Beyond, Passes(cfg, p)
    PROVE  Passes(Without(cfg, grant), p)
<1> DEFINE d == Without(cfg, grant)
<1>1. cfg \in Configs /\ CountedAs(p)
    BY DEF NetworkInv, TypeOK, Counting
<1>2. /\ ~p.forged /\ ~Full(p)
      /\ \/ Pinned(cfg, p)
         \/ cfg.internet /\ p.peer \notin Special /\ ~(DnsEgress(cfg) /\ p.port = 53)
    BY ForwardTag DEF Passes, Drops, Pinned
<1>3. CASE Pinned(cfg, p)
    <2>1. Counter("pin", <<p.peer, p.port>>) \in used
        BY <1>1, <1>3 DEF CountedAs
    <2>2. grant.kind = "pin" => <<p.peer, p.port>> # grant.pin
        BY <2>1, UnusedIs
    <2>3. d.pins = IF grant.kind = "pin" THEN cfg.pins \ {grant.pin} ELSE cfg.pins
        BY <1>1, WithoutIs
    <2>4. p.proto = "tcp" /\ <<p.peer, p.port>> \in d.pins
        BY <1>3, <2>2, <2>3 DEF Pinned
    <2> HIDE DEF d
    <2>5. Tag(d, p) = "pin"
        BY <1>2, <2>4, ForwardTag
    <2> QED
        BY <2>5 DEF Passes, Drops, d
<1>4. CASE ~Pinned(cfg, p)
    <2>1. Counter("internet", NoPin) \in used
        BY <1>1, <1>4 DEF CountedAs
    <2>2. grant.kind # "internet"
        BY <1>1, <2>1, UnusedIs, GrantIs
    <2>3. d.internet = cfg.internet
        BY <1>1, <2>2, WithoutIs
    <2>4. DnsEgress(d) => DnsEgress(cfg)
        BY <1>1, WithoutIsLesser DEF Lesser
    <2> HIDE DEF d
    <2>5. Tag(d, p) \in {"pin", "internet"}
        BY <1>2, <1>4, <2>3, <2>4, ForwardTag
    <2> QED
        BY <2>5 DEF Passes, Drops, d
<1> QED
    BY <1>3, <1>4

\* At the host, a packet no door takes passes by its port, which every other
\* grant leaves where it is.
LEMMA ArrivingIsSafe ==
    ASSUME NetworkInv, NEW grant \in GrantLines(cfg), Unused(grant),
           NEW p \in passed, p.from = "guest", p.peer \notin Beyond, ~AtDoor(p), Passes(cfg, p)
    PROVE  Passes(Without(cfg, grant), p)
<1> DEFINE d == Without(cfg, grant)
<1>1. cfg \in Configs /\ CountedAs(p) /\ p \in Opening
    BY DEF NetworkInv, TypeOK, Counting
<1>2. p.reply = FALSE /\ ~Established(p)
    BY <1>1, OpeningIs DEF Established
<1>3. ~(p.peer = "bridge" /\ Door(p.proto, PortOf(cfg, p)) \in Passed(cfg))
    BY DEF AtDoor
<1>4. ~(/\ p.peer = "bridge"
        /\ \/ p.proto = "udp" /\ PortOf(cfg, p) = DnsPort /\ DnsEgress(cfg)
           \/ p.proto = "tcp" /\ PortOf(cfg, p) = DnsPort /\ cfg.internet
           \/ p.proto = "tcp" /\ PortOf(cfg, p) = TlsPort /\ TlsEgress(cfg))
    BY <1>3, PassedIs
<1>5. ~p.forged /\ ~Full(p) /\ p.proto = "tcp" /\ PortOf(cfg, p) \in cfg.hostPorts
    BY <1>2, <1>4, InputTag DEF Passes, Drops
<1>6. Counter("host", NoPin) \in used
    <2>1. PortOf(cfg, p) = Redirected(cfg, p) \/ \E t \in tracked : t.first = p /\ PortOf(cfg, p) = t.port
        BY PortIs
    <2> QED
        BY <1>1, <1>5, <2>1 DEF CountedAs
<1>7. grant.kind # "host"
    BY <1>1, <1>6, UnusedIs, GrantIs
<1>8. d.hostPorts = cfg.hostPorts
    BY <1>1, <1>7, WithoutIs
<1>9. (d.internet => cfg.internet) /\ (TlsEgress(d) => TlsEgress(cfg))
    BY <1>1, WithoutIsLesser DEF Lesser
<1> HIDE DEF d
<1>10. PortOf(d, p) = PortOf(cfg, p)
    <2>1. CASE Known(p)
        BY <2>1 DEF PortOf
    <2>2. CASE ~Known(p)
        <3>1. PortOf(cfg, p) = Redirected(cfg, p) /\ PortOf(d, p) = Redirected(d, p)
            BY <2>2, PortIs
        <3>2. ~(/\ p.peer = "bridge"
                /\ \/ p.port = 53 /\ cfg.internet
                   \/ p.port = 443 /\ TlsEgress(cfg))
            BY <1>2, <1>4, <1>5, <3>1 DEF Redirected
        <3>3. Redirected(cfg, p) = p.port /\ Redirected(d, p) = p.port
            BY <1>2, <1>5, <1>9, <3>2 DEF Redirected
        <3> QED
            BY <3>1, <3>3
    <2> QED
        BY <2>1, <2>2
<1>11. Tag(d, p) = "host"
    BY <1>2, <1>5, <1>8, <1>10, InputTag
<1> QED
    BY <1>11 DEF Passes, Drops, d

\* A name meets the verdict it met without a grant no line of its verb was
\* covered by.
LEMMA VerdictIsSafe ==
    ASSUME NEW c \in Configs, NEW grant \in GrantLines(c), Unused(grant), NEW line \in Read,
           line.verb = Judged(c.credentials, c.domains, c.denied, line.name)
    PROVE  LET d == Without(c, grant)
           IN  line.verb = Judged(d.credentials, d.domains, d.denied, line.name)
<1> DEFINE d == Without(c, grant)
           name == line.name
           verdict(e) == Judged(e.credentials, e.domains, e.denied, name)
<1>1. \A e : verdict(e) = IF ToLower(name) \in e.credentials THEN "intercept"
                          ELSE IF ~MatchesAny(e.denied, name) /\ MatchesAny(e.domains, name)
                               THEN "allow" ELSE "deny"
    BY DEF Judged, AllowedName
<1>2. /\ d.domains = IF grant.kind = "domain" THEN c.domains \ {grant.pattern} ELSE c.domains
      /\ d.denied = IF grant.kind = "denied" THEN c.denied \ {grant.pattern} ELSE c.denied
      /\ d.credentials = IF grant.kind = "credential" THEN c.credentials \ {grant.pattern.name}
                         ELSE c.credentials
    BY WithoutIs
<1>3. line.verb = verdict(c)
    OBVIOUS
<1> HIDE DEF d, verdict
<1>4. CASE grant.kind = "domain"
    <2>1. d.denied = c.denied /\ d.credentials = c.credentials /\ d.domains = c.domains \ {grant.pattern}
        BY <1>2, <1>4
    <2>2. verdict(c) = "allow" => ~Covers(grant.pattern, name)
        BY <1>3, <1>4, UnusedIs
    <2>3. /\ MatchesAny(d.domains, name) => MatchesAny(c.domains, name)
          /\ verdict(c) = "allow" => (MatchesAny(d.domains, name) <=> MatchesAny(c.domains, name))
        BY <2>1, <2>2 DEF MatchesAny
    <2>4. verdict(c) = verdict(d)
        <3>1. verdict(c) = IF ToLower(name) \in c.credentials THEN "intercept"
                           ELSE IF ~MatchesAny(c.denied, name) /\ MatchesAny(c.domains, name)
                                THEN "allow" ELSE "deny"
            BY <1>1
        <3>2. verdict(d) = IF ToLower(name) \in c.credentials THEN "intercept"
                           ELSE IF ~MatchesAny(c.denied, name) /\ MatchesAny(d.domains, name)
                                THEN "allow" ELSE "deny"
            BY <1>1, <2>1
        <3> QED
            BY <2>3, <3>1, <3>2
    <2> QED
        BY <1>3, <2>4 DEF d, verdict
<1>5. CASE grant.kind = "denied"
    <2>1. d.domains = c.domains /\ d.credentials = c.credentials /\ d.denied = c.denied \ {grant.pattern}
        BY <1>2, <1>5
    <2>2. verdict(c) = "deny" => ~Covers(grant.pattern, name)
        BY <1>3, <1>5, UnusedIs
    <2>3. /\ MatchesAny(d.denied, name) => MatchesAny(c.denied, name)
          /\ verdict(c) = "deny" => (MatchesAny(d.denied, name) <=> MatchesAny(c.denied, name))
        BY <2>1, <2>2 DEF MatchesAny
    <2>4. verdict(c) = verdict(d)
        <3>1. verdict(c) = IF ToLower(name) \in c.credentials THEN "intercept"
                           ELSE IF ~MatchesAny(c.denied, name) /\ MatchesAny(c.domains, name)
                                THEN "allow" ELSE "deny"
            BY <1>1
        <3>2. verdict(d) = IF ToLower(name) \in c.credentials THEN "intercept"
                           ELSE IF ~MatchesAny(d.denied, name) /\ MatchesAny(c.domains, name)
                                THEN "allow" ELSE "deny"
            BY <1>1, <2>1
        <3> QED
            BY <2>3, <3>1, <3>2
    <2> QED
        BY <1>3, <2>4 DEF d, verdict
<1>6. CASE grant.kind = "credential"
    <2>1. d.domains = c.domains /\ d.denied = c.denied /\ d.credentials = c.credentials \ {grant.pattern.name}
        BY <1>2, <1>6
    <2>2. verdict(c) = "intercept" => ToLower(name) # grant.pattern.name
        <3>1. SUFFICES ASSUME ToLower(name) = grant.pattern.name PROVE Covers(grant.pattern, name)
            BY <1>3, <1>6, UnusedIs
        <3>2. ToLower(ToLower(name)) = ToLower(name)
            BY DEF ToLower, Name
        <3>3. grant.pattern.wild = FALSE
            BY <1>6, GrantIs
        <3> QED
            BY <3>1, <3>2, <3>3 DEF Covers
    <2>3. ToLower(name) \in d.credentials <=> ToLower(name) \in c.credentials
        <3>1. ToLower(name) \in c.credentials => verdict(c) = "intercept"
            BY <1>1
        <3> QED
            BY <2>1, <2>2, <3>1
    <2>4. verdict(c) = verdict(d)
        <3>1. verdict(c) = IF ToLower(name) \in c.credentials THEN "intercept"
                           ELSE IF ~MatchesAny(c.denied, name) /\ MatchesAny(c.domains, name)
                                THEN "allow" ELSE "deny"
            BY <1>1
        <3>2. verdict(d) = IF ToLower(name) \in d.credentials THEN "intercept"
                           ELSE IF ~MatchesAny(c.denied, name) /\ MatchesAny(c.domains, name)
                                THEN "allow" ELSE "deny"
            BY <1>1, <2>1
        <3> QED
            BY <2>3, <3>1, <3>2
    <2> QED
        BY <1>3, <2>4 DEF d, verdict
<1>7. CASE grant.kind \notin {"domain", "denied", "credential"}
    <2>1. d.domains = c.domains /\ d.denied = c.denied /\ d.credentials = c.credentials
        BY <1>2, <1>7
    <2> QED
        BY <1>3, <2>1 DEF d, verdict
<1> QED
    BY <1>4, <1>5, <1>6, <1>7

LEMMA AllSafe ==
    ASSUME NetworkInv PROVE UnusedIsSafe
<1> SUFFICES ASSUME NEW grant \in GrantLines(cfg), Unused(grant)
             PROVE  /\ \A p \in passed :
                        (p.from = "guest" /\ ~AtDoor(p) /\ Passes(cfg, p)) => Passes(Without(cfg, grant), p)
                    /\ \A line \in Read :
                        line.verb = Judged(cfg.credentials, cfg.domains, cfg.denied, line.name) =>
                            LET c == Without(cfg, grant)
                            IN  line.verb = Judged(c.credentials, c.domains, c.denied, line.name)
    BY DEF UnusedIsSafe
<1>1. cfg \in Configs
    BY DEF NetworkInv, TypeOK
<1>2. ASSUME NEW p \in passed, p.from = "guest", ~AtDoor(p), Passes(cfg, p)
      PROVE  Passes(Without(cfg, grant), p)
    <2>1. CASE p.peer \in Beyond
        BY <1>2, <2>1, BeyondIsSafe
    <2>2. CASE p.peer \notin Beyond
        BY <1>2, <2>2, ArrivingIsSafe
    <2> QED
        BY <2>1, <2>2
<1>3. ASSUME NEW line \in Read,
             line.verb = Judged(cfg.credentials, cfg.domains, cfg.denied, line.name)
      PROVE  LET c == Without(cfg, grant)
             IN  line.verb = Judged(c.credentials, c.domains, c.denied, line.name)
    BY <1>1, <1>3, VerdictIsSafe
<1> QED
    BY <1>2, <1>3

\* For every table of grants and every history: a grant that status shows as
\* unused (cli.go:336) can be taken away, and every packet of the guest seen
\* since the ruleset was loaded that passes and is no door's still passes,
\* and every name in the lines status read (cli.go:246) still meets its
\* verdict.
THEOREM UnusedCanGo == Spec => []UnusedIsSafe
<1> QED
    BY AllSafe, InitHolds, NextKeeps, PTL DEF Spec
=============================================================================
