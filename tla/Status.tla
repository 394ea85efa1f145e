------------------------------- MODULE Status -------------------------------
(***************************************************************************)
(* What `fencr status` makes of the counters and the two journals          *)
(* (cli.go, grantLines and blocked; the rows are cli/default.nix's): every *)
(* grant as used or unused, and what was refused with the grant that would *)
(* admit it.  It reads at any moment, with the table of the configuration  *)
(* in force and lines written under earlier ones, the last of them only.   *)
(***************************************************************************)
EXTENDS Network

CONSTANT JournalLines     \* lines of a journal status reads: 400
ASSUME JournalAssumption == JournalLines \in Nat

-----------------------------------------------------------------------------
(* grantLines *)

NoPattern == Exact(<<"none">>)
Grant(kind, pin, pattern) == [kind |-> kind, pin |-> pin, pattern |-> pattern]
Counted(kind) == Grant(kind, NoPin, NoPattern)

GrantLines(c) ==
    When(c.inbound # {}, {Counted("guest")}) \cup When(c.internet, {Counted("internet")})
        \cup When(c.hostPorts # {}, {Counted("host")})
        \cup {Grant("pin", pin, NoPattern) : pin \in c.pins}
        \cup {Grant("domain", NoPin, pattern) : pattern \in c.domains}
        \cup {Grant("denied", NoPin, pattern) : pattern \in c.denied}
        \cup {Grant("credential", NoPin, [wild |-> FALSE, name |-> name]) : name \in c.credentials}

Verb == [domain |-> "allow", denied |-> "deny", credential |-> "intercept"]

\* egressLog: the last lines of the egress unit, whatever they are.
Read == {journal[i] : i \in {j \in DOMAIN journal : j > Len(journal) - JournalLines}}

\* The packets of the firewall's rules with a tag, the lines read of a verb
\* whose name a pattern covers.
Packets(tag, pin) == {counter \in used : counter = [tag |-> tag, pin |-> pin]}
Connections(verb, pattern) ==
    {line \in Read : line.verb = verb /\ Covers(pattern, line.name)}

\* Mutant: the journal's name is compared as it is written.
UnusedExact(grant) ==
    IF grant.kind \in DOMAIN Verb
    THEN \A line \in Read : line.verb = Verb[grant.kind] => ~CoversCased(grant.pattern, line.name)
    ELSE Packets(grant.kind, grant.pin) = {}

Unused(grant) ==
    IF grant.kind \in DOMAIN Verb THEN Connections(Verb[grant.kind], grant.pattern) = {}
                                  ELSE Packets(grant.kind, grant.pin) = {}

-----------------------------------------------------------------------------
(* blocked *)

Hint(grant, pin) == [grant |-> grant, pin |-> pin]
NoHint == Hint("none", NoPin)

\* Mutant: a high port is a port like any other.
HintOfAnyPort(line) ==
    LET pin == <<line.packet.peer, line.port>>
        host == line.tag = "host-blocked" /\ pin # <<"bridge", 53>> /\ line.packet.proto = "tcp"
    IN  IF line.packet.peer # "multicast" /\ host THEN Hint("host", pin) ELSE NoHint

\* The grant the line suggests; texts that suggest none are all NoHint.
HintOf(line) ==
    LET pin == <<line.packet.peer, line.port>>
        tcp == line.packet.proto = "tcp"
        dns == pin = <<"bridge", 53>>
    IN  IF line.packet.peer = "multicast" THEN NoHint
        ELSE CASE line.tag = "guest-blocked" -> Hint("inbound", pin)
               [] line.tag = "dns-blocked" -> Hint("pin", pin)
               [] line.tag = "host-blocked" /\ dns -> Hint("names", pin)
               [] line.tag = "host-blocked" /\ ~dns /\ line.port < 32768 /\ tcp -> Hint("host", pin)
               [] line.tag \in {"blocked", "private-blocked"} /\ tcp -> Hint("pin", pin)
               [] OTHER -> NoHint

\* A refused name is one to grant unless an entry denies it.
NameHint(c, name) == IF MatchesAny(c.denied, name) THEN "denied" ELSE "domain"

-----------------------------------------------------------------------------
(* Properties *)

\* The configurations an operator who follows the hint can write.
Names(c, name) == [c EXCEPT !.domains = @ \cup {[wild |-> FALSE, name |-> name]}]
Followed(c, hint) ==
    {d \in CASE hint.grant = "inbound" -> {[c EXCEPT !.inbound = @ \cup {hint.pin[2]}]}
             [] hint.grant = "pin" -> {[c EXCEPT !.pins = @ \cup {hint.pin}]}
             [] hint.grant = "host" -> {[c EXCEPT !.hostPorts = @ \cup {hint.pin[2]}]}
             [] hint.grant = "names" ->
                  {[c EXCEPT !.internet = TRUE]} \cup
                  {[c EXCEPT !.domains = @ \cup {pattern}] : pattern \in Patterns}
             [] OTHER -> {} : Valid(d)}

\* A new connection like the packet is not turned away for want of a grant.
Admits(c, p) == Passes(c, p) \/ Tag(c, p) = "connections-blocked"

\* What a grant can do for a packet of a protocol: ports and destinations are
\* granted for tcp alone, and dns over tcp comes only with an open grant.
Reaches(c, grant, proto) == IF grant = "names" THEN proto = "udp" \/ c.internet ELSE proto = "tcp"

\* The hints no configuration can make good: inbound "port" and "address:53"
\* for udp, a domain for dns over tcp where domains rule out the open grant.
Wrong(c, hint, proto) ==
    \/ hint.grant \in {"inbound", "pin"} /\ proto = "udp"
    \/ hint.grant = "names" /\ proto = "tcp" /\ c.domains # {}

\* The grant beside a refusal is the one that would admit it (cli.go:385),
\* also when the configuration has changed since: whoever follows the hint
\* gets the connection through, but for the wrong hints, and those change
\* nothing.  The grant of a refused name admits it unless an entry denies
\* it; the options refuse it exactly where the open grant is in force
\* (instance.nix:272) or the name has one label.
HintAdmits ==
    /\ \A line \in kernel :
        LET hint == HintOf(line)
            p == line.packet
            followed == Followed(cfg, hint)
        IN  (hint.grant # "none" /\ ~Known(p)) =>
                /\ (\E c \in followed : Reaches(c, hint.grant, p.proto)) <=> ~Wrong(cfg, hint, p.proto)
                /\ \A c \in followed :
                     IF Reaches(c, hint.grant, p.proto) THEN Admits(c, p)
                                                        ELSE Admits(c, p) => Admits(cfg, p)
    /\ \A line \in {l \in Read : l.verb = "deny"} :
        LET c == Names(cfg, line.name)
            verdict == Judged(c.credentials, c.domains, c.denied, line.name)
        IN  IF NameHint(cfg, line.name) = "denied"
            THEN verdict = "deny" \/ ToLower(line.name) \in cfg.credentials
            ELSE /\ verdict # "deny"
                 /\ Valid(c) <=> ~cfg.internet /\ Len(line.name.labels) >= 2

Without(c, grant) ==
    CASE grant.kind = "guest" -> [c EXCEPT !.inbound = {}]
      [] grant.kind = "internet" -> [c EXCEPT !.internet = FALSE]
      [] grant.kind = "host" -> [c EXCEPT !.hostPorts = {}]
      [] grant.kind = "pin" -> [c EXCEPT !.pins = @ \ {grant.pin}]
      [] grant.kind = "domain" -> [c EXCEPT !.domains = @ \ {grant.pattern}]
      [] grant.kind = "denied" -> [c EXCEPT !.denied = @ \ {grant.pattern}]
      [] grant.kind = "credential" -> [c EXCEPT !.credentials = @ \ {grant.pattern.name}]

\* The doors of the egress unit, whose packets count for no grant of their own.
AtDoor(p) == p.peer = "bridge" /\ Door(p.proto, PortOf(cfg, p)) \in Passed(cfg)

\* A grant status shows as unused can go: a packet of the guest that passed
\* since the ruleset was loaded, on a connection opened before it too, passes
\* without the grant if it passes with it, and every name status has read of
\* meets the verdict it met.  Left out are packets at a door, the host's own,
\* which pass uncounted once they are tracked, and the names of older lines.
UnusedIsSafe ==
    \A grant \in GrantLines(cfg) : Unused(grant) =>
        LET c == Without(cfg, grant)
        IN  /\ \A p \in passed :
                    (p.from = "guest" /\ ~AtDoor(p) /\ Passes(cfg, p)) => Passes(c, p)
            /\ \A line \in Read :
                    line.verb = Judged(cfg.credentials, cfg.domains, cfg.denied, line.name) =>
                        line.verb = Judged(c.credentials, c.domains, c.denied, line.name)
=============================================================================
