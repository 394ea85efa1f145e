------------------------------- MODULE Network -------------------------------
(***************************************************************************)
(* What a sandbox may reach: the grants of its options as instance.nix     *)
(* resolves them, the nftables chains firewall.nix renders from them, the  *)
(* doors the egress socket unit holds and main.go's run serves, and the    *)
(* connections the kernel tracks while an operator rebuilds the host with  *)
(* other grants.                                                           *)
(*                                                                         *)
(* A packet names its peer ("bridge" and "host" are addresses of the host, *)
(* "public" and "private" lie beyond it); a tracked connection is the      *)
(* first packet of it, the port it really goes to, and whether the loaded  *)
(* ruleset has counted it.  The host's replies to the guest pass the       *)
(* output chain on state alone and are left out.                           *)
(***************************************************************************)
EXTENDS Integers, FiniteSets, DomainNames

CONSTANTS
    HostPorts,        \* ports of host:<port> grants and of inbound
    Pins,             \* destinations <<address, port>>
    Patterns,         \* domain patterns granted and denied
    Credentials,      \* domains of the credentials, lower case
    Hosts,            \* server names guests ask for
    Ports,            \* ports packets go to
    MaxConnections,   \* maxConnections
    MaxLines,         \* bound: firewall lines in the kernel log
    MaxSteps          \* bound: packets, lines, restarts and rebuilds

ASSUME BoundAssumption == MaxConnections \in Nat /\ MaxLines \in Nat /\ MaxSteps \in Nat

DnsPort == 33053      \* egressDnsPort
TlsPort == 33443      \* egressTlsPort

Ephemeral == 40000    \* a port a connection of the host comes from

Arriving == {"bridge", "host", "multicast"}   \* peers the input chain sees
Beyond == {"public", "private"}
Special == {"private"}                        \* specialUseNetworks.v4

-----------------------------------------------------------------------------
(* resolveInstance *)

DnsEgress(c) == c.domains # {} \/ c.internet

\* Mutant: an open grant needs the tls door as well.
TlsEgressAll(c) == c.domains # {} \/ c.credentials # {} \/ c.internet

TlsEgress(c) == c.domains # {} \/ c.credentials # {}

\* The errors that refuse a configuration: grants that do not combine, a
\* pattern without a dot, and a deny of nothing or of the whole of a grant.
GrantedExactly(c, pattern) ==
    \E d \in c.domains : d.wild = pattern.wild /\ ToLower(d.name) = ToLower(pattern.name)
Valid(c) ==
    /\ ~(c.domains # {} /\ c.internet)
    /\ \A pattern \in c.domains \cup c.denied : Len(pattern.name.labels) >= 2
    /\ \A pattern \in c.denied :
        ~GrantedExactly(c, pattern) /\ MatchesAny(c.domains, pattern.name)

Configs ==
    {c \in [internet : BOOLEAN, hostPorts : SUBSET HostPorts, pins : SUBSET Pins,
            domains : SUBSET Patterns, denied : SUBSET Patterns,
            credentials : SUBSET Credentials, inbound : SUBSET HostPorts] : Valid(c)}

-----------------------------------------------------------------------------
(* The doors: what the socket unit passes, and what run takes *)

Door(proto, port) == [proto |-> proto, port |-> port]
When(condition, set) == IF condition THEN set ELSE {}

Passed(c) ==
    When(DnsEgress(c), {Door("udp", DnsPort)}) \cup When(c.internet, {Door("tcp", DnsPort)})
        \cup When(TlsEgress(c), {Door("tcp", TlsPort)})

\* egressConfig gives a resolver exactly with an open grant; the packet and
\* stream sockets run asks for, and the tls door unless there is no name to
\* judge.  The socket a configuration does not serve is an error as well.
Taken(c) ==
    LET resolver == c.internet
    IN  When(c.domains # {} \/ resolver,
             {Door("udp", DnsPort)} \cup When(resolver, {Door("tcp", DnsPort)}))
        \cup When(~(c.domains = {} /\ c.credentials = {}), {Door("tcp", TlsPort)})
Starts(c) == Taken(c) \subseteq Passed(c) /\ Passed(c) \ Taken(c) = {}

\* The egress unit once it was started, if the configuration has one.
Started(c) ==
    CASE ~DnsEgress(c) /\ ~TlsEgress(c) -> "down"
      [] (DnsEgress(c) \/ TlsEgress(c)) /\ Starts(c) -> "up"
      [] OTHER -> "failed"

-----------------------------------------------------------------------------
(* firewallOf *)

VARIABLES
    cfg,       \* the configuration the host runs
    egress,    \* the egress unit: "up", "down", "failed"
    tracked,   \* connections the kernel knows: [first, port, counted]
    kernel,    \* the firewall's lines in the kernel log: [tag, packet, port]
    journal,   \* the lines of the egress unit, in order: [verb, name]
    used,      \* the counters of the ruleset that are not zero
    passed,    \* history: packets passed since the ruleset was loaded
    steps      \* bounded counter

vars == <<cfg, egress, tracked, kernel, journal, used, passed, steps>>

\* A packet of the guest, of a process of the host to the sandbox's door, of
\* the host to the guest ("owner"), or from beyond.  It names the peer and
\* the port its connection was opened to; a reply goes the other way.
Packet(from, peers, protos, ports, reply) ==
    [from : {from}, peer : peers, proto : protos, port : ports, forged : {FALSE}, reply : {reply}]
Opening ==
    Packet("guest", {"bridge", "host"} \cup Beyond, {"tcp", "udp"}, Ports, FALSE)
        \cup Packet("guest", {"multicast"}, {"udp"}, Ports, FALSE)
        \cup {[p EXCEPT !.forged = TRUE] : p \in Packet("guest", {"public"}, {"tcp"}, {443}, FALSE)}
        \cup Packet("owner", {"guest"}, {"tcp", "udp"}, HostPorts, FALSE)
        \cup Packet("process", {"bridge"}, {"tcp"}, {DnsPort, TlsPort}, FALSE)
Replies ==
    Packet("guest", {"guest"}, {"tcp", "udp"}, HostPorts, TRUE)
        \cup Packet("beyond", Beyond, {"tcp"}, Ports, TRUE)
Original(p) ==
    [p EXCEPT !.reply = FALSE, !.from = IF p.from = "guest" THEN "owner" ELSE "guest"]

Known(p) == \E t \in tracked : t.first = p
Established(p) == p.reply /\ Known(Original(p))

\* prerouting: the connection keeps what its first packet was given.  A reply
\* goes to the port the host's connection came from.
Redirected(c, p) ==
    LET dns == p.port = 53 /\ (IF p.proto = "udp" THEN DnsEgress(c) ELSE c.internet)
        tls == p.port = 443 /\ p.proto = "tcp" /\ TlsEgress(c)
    IN  IF p.reply THEN Ephemeral
        ELSE IF p.peer # "bridge" \/ p.from # "guest" THEN p.port
        ELSE IF dns THEN DnsPort ELSE IF tls THEN TlsPort ELSE p.port
PortOf(c, p) == IF Known(p) THEN (CHOOSE t \in tracked : t.first = p).port ELSE Redirected(c, p)

Drops == {"spoof-blocked", "connections-blocked", "dns-blocked", "private-blocked", "blocked",
          "local-blocked", "host-blocked", "guest-blocked", "closed"}

\* ct count: each chain counts the connections it let through since it was
\* loaded.
Full(p) ==
    /\ ~Known(p)
    /\ Cardinality({t \in tracked : t.counted /\ (t.first.peer \in Beyond) = (p.peer \in Beyond)})
            >= MaxConnections

Rule(match, tag) == [match |-> match, tag |-> tag]

\* forwardRules: packets of the guest, and those to it.
Forward(c, p) ==
    LET guest == p.from = "guest"
    IN  <<Rule(p.forged, "spoof-blocked"), Rule(guest /\ Full(p), "connections-blocked"),
          Rule(guest /\ p.proto = "tcp" /\ <<p.peer, p.port>> \in c.pins, "pin"),
          Rule(guest /\ DnsEgress(c) /\ p.port = 53, "dns-blocked"),
          Rule(guest /\ c.internet /\ p.peer \in Special, "private-blocked"),
          Rule(guest, IF c.internet THEN "internet" ELSE "blocked"),
          Rule(Established(p), "established"), Rule(TRUE, "closed")>>

\* inputRules, behind the rule for replies.
Grants(c, p) ==
    LET port == PortOf(c, p)
        guest == p.from = "guest"
        door(proto) == guest /\ p.peer = "bridge" /\ p.proto = proto
    IN  <<Rule(p.forged, "spoof-blocked"), Rule(guest /\ Full(p), "connections-blocked"),
          Rule((DnsEgress(c) \/ TlsEgress(c)) /\ ~guest /\ port \in {DnsPort, TlsPort}, "local-blocked"),
          Rule(guest /\ p.proto = "tcp" /\ port \in c.hostPorts, "host"),
          Rule(door("udp") /\ DnsEgress(c) /\ port = DnsPort, "dns"),
          Rule(door("tcp") /\ c.internet /\ port = DnsPort, "dns-tcp"),
          Rule(door("tcp") /\ TlsEgress(c) /\ port = TlsPort, "egress-tls"),
          Rule(guest, "host-blocked"), Rule(TRUE, "policy")>>

\* Mutant: established packets pass in either direction.
InputEstablished(c, p) == <<Rule(Established(p) \/ Known(p), "reply")>> \o Grants(c, p)

Input(c, p) == <<Rule(Established(p), "reply")>> \o Grants(c, p)

Output(c, p) ==
    <<Rule(Known(p), "established"),
      Rule(p.proto = "tcp" /\ p.port \in c.inbound, "guest"), Rule(TRUE, "guest-blocked")>>

Chain(c, p) ==
    IF p.from = "owner" THEN Output(c, p)
    ELSE IF p.peer \in Beyond THEN Forward(c, p) ELSE Input(c, p)

\* The first rule that matches decides.
First(chain) == CHOOSE i \in DOMAIN chain : chain[i].match /\ \A j \in 1 .. i - 1 : ~chain[j].match
Tag(c, p) == Chain(c, p)[First(Chain(c, p))].tag
Passes(c, p) == Tag(c, p) \notin Drops

\* The counter of the rule, if it has one: one per destination grant.
NoPin == <<"any", 0>>
Counters(c, p) ==
    LET tag == Tag(c, p)
    IN  When(tag \notin {"reply", "established", "policy"},
             {[tag |-> tag, pin |-> IF tag = "pin" THEN <<p.peer, p.port>> ELSE NoPin]})

-----------------------------------------------------------------------------
(* The egress unit's journal *)

\* Every other line: a hello that could not be read ("deny: ..."), the record
\* of a credential request, a query that was dropped or refused.
Other == [verb |-> "other", name |-> Name(<<>>)]
Entries == [verb : {"allow", "deny", "intercept"}, name : Hosts] \cup {Other}

-----------------------------------------------------------------------------
TypeOK ==
    /\ cfg \in Configs /\ egress \in {"up", "down", "failed"}
    /\ tracked \subseteq [first : Opening, port : Ports \cup HostPorts \cup {DnsPort, TlsPort},
                          counted : BOOLEAN]
    /\ \A line \in kernel : line.tag \in Drops /\ line.packet \in Opening \cup Replies
    /\ journal \in Seq(Entries)
    /\ passed \subseteq Opening
    /\ \A counter \in used : counter.tag \notin Drops
    /\ steps \in 0 .. MaxSteps

Init ==
    /\ cfg \in Configs
    /\ egress = Started(cfg) /\ tracked = {} /\ kernel = {} /\ journal = <<>> /\ used = {} /\ passed = {}
    /\ steps = 0

Step == steps < MaxSteps /\ steps' = steps + 1

\* A packet of a new or a tracked connection meets its chain.
Pass(p) ==
    /\ Step /\ Passes(cfg, p)
    /\ tracked' = tracked \cup
         When(~Known(p) /\ ~p.reply,
              {[first |-> p, port |-> Redirected(cfg, p), counted |-> p.from = "guest"]})
    /\ used' = used \cup Counters(cfg, p)
    /\ passed' = passed \cup When(~p.reply, {p})
    /\ UNCHANGED <<cfg, egress, kernel, journal>>

\* The log rule beside the drop is limited in rate: a drop need not show.
Drop(p) ==
    /\ Step /\ ~Passes(cfg, p) /\ Tag(cfg, p) # "closed" /\ Cardinality(kernel) < MaxLines
    /\ kernel' = kernel \cup {[tag |-> Tag(cfg, p), packet |-> p, port |-> PortOf(cfg, p)]}
    /\ UNCHANGED <<cfg, egress, tracked, journal, used, passed>>

\* A connection at the tls door is judged by the name in its hello.
Hello(name) ==
    /\ Step /\ egress = "up"
    /\ \E t \in tracked : t.first.from = "guest" /\ Tag(cfg, t.first) = "egress-tls"
    /\ journal' = Append(journal,
         [verb |-> Judged(cfg.credentials, cfg.domains, cfg.denied, name), name |-> name])
    /\ UNCHANGED <<cfg, egress, tracked, kernel, used, passed>>

Logs ==
    /\ Step /\ egress = "up"
    /\ journal' = Append(journal, Other)
    /\ UNCHANGED <<cfg, egress, tracked, kernel, used, passed>>

EgressStarts ==
    /\ egress = "down" /\ Started(cfg) # "down"
    /\ egress' = Started(cfg)
    /\ UNCHANGED <<cfg, tracked, kernel, journal, used, passed, steps>>

EgressStops ==
    /\ Step /\ egress = "up"
    /\ egress' = "down"
    /\ UNCHANGED <<cfg, tracked, kernel, journal, used, passed>>

\* The operator switches to other grants: a new ruleset with counters at
\* zero, new sockets, the egress unit started on them; connections stay tracked.
\* One of the options changes at a time: outbound, credentials or inbound.
Outbound(c) == [c EXCEPT !.credentials = {}, !.inbound = {}]
Changed(c) ==
    {option \in {"outbound", "credentials", "inbound"} :
        IF option = "outbound" THEN Outbound(c) # Outbound(cfg) ELSE c[option] # cfg[option]}
Rebuild(c) ==
    /\ Step /\ Cardinality(Changed(c)) = 1
    /\ cfg' = c /\ egress' = Started(c)
    /\ tracked' = {[t EXCEPT !.counted = FALSE] : t \in tracked}
    /\ used' = {} /\ passed' = {}
    /\ UNCHANGED <<kernel, journal>>

Expires(t) ==
    /\ tracked' = tracked \ {t}
    /\ UNCHANGED <<cfg, egress, kernel, journal, used, passed, steps>>

Next ==
    \/ \E p \in Opening \cup Replies : Pass(p) \/ Drop(p)
    \/ \E name \in Hosts : Hello(name)
    \/ \E c \in Configs : Rebuild(c)
    \/ \E t \in tracked : Expires(t)
    \/ Logs \/ EgressStarts \/ EgressStops

Spec == Init /\ [][Next]_vars

-----------------------------------------------------------------------------
(* Properties *)

\* What the options promise, rule by rule and without an order of rules.
Granted(c, p) ==
    LET port == PortOf(c, p)
    IN  CASE p.reply ->
                \/ Known(Original(p))
                \/ p.from = "guest" /\ p.proto = "tcp" /\ port \in c.hostPorts
          [] p.from = "owner" -> Known(p) \/ (p.proto = "tcp" /\ p.port \in c.inbound)
          [] p.from = "process" -> Passed(c) = {}
          [] p.from = "guest" /\ p.peer \in Beyond ->
                \/ p.proto = "tcp" /\ <<p.peer, p.port>> \in c.pins
                \/ c.internet /\ p.peer \notin Special /\ p.port # 53
          [] OTHER -> \/ p.proto = "tcp" /\ port \in c.hostPorts
                      \/ p.peer = "bridge" /\ Door(p.proto, port) \in Passed(c)

\* The grants in force decide every packet, whatever was granted when its
\* connection was opened and however it was redirected then: a grant a rebuild
\* removes also ends the guest's connections under it (firewall.nix:84), no
\* rule shadows a grant, and nobody opens a connection to the guest but the
\* host on an inbound port.
GrantsDecide ==
    \A p \in Opening \cup Replies :
        LET tag == Tag(cfg, p)
        IN  p.forged \/ tag = "connections-blocked" \/ (tag \notin Drops <=> Granted(cfg, p))

\* Every door the firewall lets the guest or a redirect through to is one pid
\* 1 holds and the egress unit serves: no configuration the options accept
\* makes run refuse its sockets or leaves one to whoever binds it.
DoorsServed ==
    /\ egress # "failed"
    /\ \A p \in {q \in Opening : q.from = "guest" /\ q.peer \in Arriving} :
        /\ Tag(cfg, p) \in {"dns", "dns-tcp", "egress-tls"} =>
            Door(p.proto, PortOf(cfg, p)) \in Passed(cfg) \cap Taken(cfg)
        /\ Redirected(cfg, p) # p.port => Door(p.proto, Redirected(cfg, p)) \in Passed(cfg)
=============================================================================
