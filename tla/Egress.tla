------------------------------- MODULE Egress -------------------------------
(***************************************************************************)
(* One connection at the egress unit's tls door (main.go: route, splice,   *)
(* dialPublic, copyStream; sni.go): its client hello is gathered from tls  *)
(* records, judged by the server name in it, and the connection is handed  *)
(* to the credential proxy, refused, or spliced to the real host.          *)
(* Connections share nothing but the configuration.                        *)
(*                                                                         *)
(* Bytes are counted in units: a record is [tls, units], its header counts *)
(* one, and the four bytes that carry the hello's length are Prefix units.   *)
(***************************************************************************)
EXTENDS Integers, DomainNames

CONSTANTS
    Domains, Denied,   \* the patterns of the configuration
    Intercepted,       \* the lower-case domains of the credentials
    HostTLS,           \* the sandbox holds host:443
    Hellos,            \* client hellos: [client, extensions, size]
    Units,             \* the lengths a record may have
    Prefix,            \* units until the length of the hello is known
    MaxHello,          \* units after which a hello is given up: 65536 bytes
    MaxAddresses,      \* bound: addresses a name resolves to
    MaxRecords,        \* bound: records the guest sends
    MaxAnswers         \* bound: records the upstream sends

ASSUME UnitsAssumption == Units \subseteq Nat /\ Prefix \in Nat \ {0} /\ MaxHello \in Nat
ASSUME BoundAssumption == MaxAddresses \in Nat /\ MaxRecords \in Nat /\ MaxAnswers \in Nat
ASSUME FlagAssumption == HostTLS \in BOOLEAN
ASSUME HelloAssumption ==
    \A h \in Hellos :
        /\ h.size \in Nat /\ h.size >= Prefix
        /\ h.extensions \in Seq([type : STRING, name : [labels : Seq(STRING), capitals : BOOLEAN]])

\* domainPatternError (instance.nix:184): a pattern has a label.
ASSUME PatternAssumption ==
    /\ Domains \cup Denied \subseteq
         [wild : BOOLEAN, name : [labels : Seq(STRING) \ {<<>>}, capitals : BOOLEAN]]
    /\ \A domain \in Intercepted : domain = Name(domain.labels)

Sides == {"guest", "upstream"}
Other(side) == IF side = "guest" THEN "upstream" ELSE "guest"

\* The records a hello is looked for in: handshake records of any length, and
\* another one.  Nothing looks into the records of a connection once judged.
Opaque == [tls |-> FALSE, units |-> 0]
Records == [tls : {TRUE}, units : Units] \cup {Opaque}

\* What a name may resolve to: an address on the internet, one of the lan,
\* loopback, 0.0.0.0/8, the sandbox's own subnet, and one the host holds.
Addresses == {"public", "lan", "loopback", "zero", "subnet", "host"}
Nowhere == "nowhere"

VARIABLES
    hello,        \* the hello the guest's handshake records carry
    pc,           \* where the goroutine of the connection is
    verdict,      \* the line in the journal
    raw,          \* records read off the guest's socket for the replay
    replay,       \* those of them the replaying reader has still to give
    sent,         \* per side, the records its peer sent
    taken,        \* per side, how many of them were read off the socket
    got,          \* per side, positions in the other's stream, as delivered
    fin, rst,     \* per side: the peer ended its direction; broke the connection
    eof, closed,  \* per side: we ended our direction to it; closed our socket
    copying,      \* sides whose copy to the other runs
    todo, at      \* addresses still to dial, and the one connected to

peerVars == <<sent, fin, rst>>
dialVars == <<todo, at>>
vars == <<hello, pc, verdict, raw, replay, peerVars, taken, got, eof, closed, copying, dialVars>>

PCs == {"reading", "handover", "terminated", "resolving", "dialling", "spliced", "over"}

TypeOK ==
    /\ hello \in Hellos /\ pc \in PCs
    /\ verdict \in {"none", "unreadable", "deny", "intercept", "allow"}
    /\ raw \in Nat /\ replay \in 0 .. raw
    /\ \A s \in Sides : \A i \in DOMAIN sent[s] : sent[s][i] \in Records
    /\ \A s \in Sides : taken[s] \in 0 .. Len(sent[s])
    /\ \A s \in Sides : \A i \in DOMAIN got[s] : got[s][i] \in 1 .. Len(sent[Other(s)])
    /\ \A f \in {fin, rst, eof, closed} : f \in [Sides -> BOOLEAN]
    /\ copying \subseteq Sides
    /\ \A i \in DOMAIN todo : todo[i] \in Addresses
    /\ at \in Addresses \cup {Nowhere}

Init ==
    /\ hello \in Hellos
    /\ pc = "reading" /\ verdict = "none"
    /\ raw = 0 /\ replay = 0
    /\ sent = [s \in Sides |-> <<>>] /\ taken = [s \in Sides |-> 0] /\ got = [s \in Sides |-> <<>>]
    /\ fin = [s \in Sides |-> FALSE] /\ rst = [s \in Sides |-> FALSE]
    /\ eof = [s \in Sides |-> FALSE] /\ closed = [s \in Sides |-> FALSE]
    /\ copying = {} /\ todo = <<>> /\ at = Nowhere

Close == closed' = [s \in Sides |-> TRUE]

-----------------------------------------------------------------------------
(* readClientHello, serverName *)

NoName == Name(<<>>)

\* The first extension that is a server name, or that does not fit in the
\* hello, decides; what is no host name is an error like no name at all.
ServerName(h) ==
    LET first == SelectInSeq(h.extensions, LAMBDA e : e.type \in {"server_name", "short"})
    IN  IF h.client /\ first # 0 /\ h.extensions[first].type = "server_name"
        THEN h.extensions[first].name ELSE NoName

\* Handshake bytes in the first n records, and bytes in all of them.
Handshake(records) == FoldLeft(LAMBDA sum, r : sum + r.units, 0, records)
Gathered(n) == Handshake(SubSeq(sent["guest"], 1, n))
Size(n) == Gathered(n) + n

\* Mutant: one record is taken for the whole hello.
HelloDoneFirst(n) == Gathered(n) >= Prefix

HelloDone(n) == Gathered(n) >= Prefix /\ Gathered(n) >= hello.size

\* A record is there to be read off a side's socket.
Readable(side) == ~rst[side] /\ ~closed[side] /\ taken[side] < Len(sent[side])

Refuse(line) == verdict' = line /\ pc' = "over" /\ Close

\* One whole record, then the checks of the loop in their order.
ReadRecord ==
    LET n == raw + 1
        record == sent["guest"][n]
        name == ServerName(hello)
        judged == Judged(Intercepted, Domains, Denied, name)
    IN  /\ pc = "reading" /\ Readable("guest")
        /\ taken' = [taken EXCEPT !["guest"] = n]
        /\ raw' = n /\ replay' = n
        /\ CASE ~record.tls -> Refuse("unreadable")
             [] record.tls /\ HelloDone(n) /\ name = NoName -> Refuse("unreadable")
             [] record.tls /\ HelloDone(n) /\ name # NoName ->
                    /\ verdict' = judged
                    /\ IF judged = "deny" THEN pc' = "over" /\ Close
                       ELSE /\ pc' = IF judged = "intercept" THEN "handover" ELSE "resolving"
                            /\ UNCHANGED closed
             [] record.tls /\ ~HelloDone(n) /\ Size(n) > MaxHello -> Refuse("unreadable")
             [] OTHER -> UNCHANGED <<verdict, pc, closed>>
        /\ UNCHANGED <<hello, peerVars, got, eof, copying, dialVars>>

\* The guest hung up, or the deadline of ten seconds passed.
HelloFails ==
    /\ pc = "reading"
    /\ Refuse("unreadable")
    /\ UNCHANGED <<hello, raw, replay, peerVars, taken, got, eof, copying, dialVars>>

-----------------------------------------------------------------------------
(* The prefixed connection: what was read for the hello comes first *)

\* Mutant: the reader starts behind the records the hello was read from.
NextOfSocket(side) == taken[side] + 1

\* The position the next read of a side's stream gives.
NextOf(side) ==
    IF side = "guest" /\ replay > 0 THEN raw - replay + 1 ELSE taken[side] + 1
Available(side) == (side = "guest" /\ replay > 0) \/ Readable(side)

Advance(side) ==
    IF side = "guest" /\ replay > 0
    THEN replay' = replay - 1 /\ UNCHANGED taken
    ELSE taken' = [taken EXCEPT ![side] = @ + 1] /\ UNCHANGED replay

Deliver(side) ==
    /\ Advance(side)
    /\ got' = [got EXCEPT ![Other(side)] = Append(@, NextOf(side))]

\* The accept loop of the credential proxy's server takes the connection ...
Accept ==
    /\ pc = "handover"
    /\ pc' = "terminated"
    /\ UNCHANGED <<hello, verdict, raw, replay, peerVars, taken, got, eof, closed, copying, dialVars>>

\* ... which reads the same stream the upstream would have got ...
TerminatorReads ==
    /\ pc = "terminated" /\ Available("guest")
    /\ Deliver("guest")
    /\ UNCHANGED <<hello, pc, verdict, raw, peerVars, eof, closed, copying, dialVars>>

\* ... and closes it in the end: idle, answered, or broken.
TerminatorCloses ==
    /\ pc = "terminated"
    /\ pc' = "over" /\ Close
    /\ UNCHANGED <<hello, verdict, raw, replay, peerVars, taken, got, eof, copying, dialVars>>

-----------------------------------------------------------------------------
(* splice: dialPublic *)

\* Mutant: an address the host holds passes.
PublicHost(address) == address \notin {"loopback", "zero", "subnet"}

Public(address) ==
    /\ address \notin {"loopback", "zero", "subnet"}
    /\ address = "host" => HostTLS

\* What the filter can leave of a lookup's answer.
PublicAddresses == BoundedSeq({address \in Addresses : Public(address)}, MaxAddresses)

GivesUp == pc' = "over" /\ Close

\* The lookup's answer; an error and an empty answer end alike.
Resolve ==
    /\ pc = "resolving"
    /\ todo' \in PublicAddresses
    /\ IF todo' = <<>> THEN GivesUp ELSE pc' = "dialling" /\ UNCHANGED closed
    /\ UNCHANGED <<hello, verdict, raw, replay, peerVars, taken, got, eof, copying, at>>

\* The unit's IPAddressDeny drops what goes to the lan.
Connects ==
    /\ pc = "dialling" /\ Head(todo) # "lan"
    /\ at' = todo[1] /\ todo' = <<>>
    /\ pc' = "spliced" /\ copying' = Sides
    /\ UNCHANGED <<hello, verdict, raw, replay, peerVars, taken, got, eof, closed>>

DialFails ==
    /\ pc = "dialling"
    /\ todo' = Tail(todo)
    /\ IF todo' = <<>> THEN GivesUp ELSE UNCHANGED <<pc, closed>>
    /\ UNCHANGED <<hello, verdict, raw, replay, peerVars, taken, got, eof, copying, at>>

-----------------------------------------------------------------------------
(* splice: copyStream in both directions *)

\* The stream of a side is at its end: read empty, and its peer said so.
AtEnd(side) ==
    /\ fin[side] /\ ~rst[side] /\ ~closed[side] /\ taken[side] = Len(sent[side])
    /\ side = "guest" => replay = 0

Writable(side) == ~rst[side] /\ ~closed[side]

Copy(side) ==
    /\ side \in copying /\ Available(side) /\ Writable(Other(side))
    /\ Deliver(side)
    /\ UNCHANGED <<hello, pc, verdict, raw, peerVars, eof, closed, copying, dialVars>>

\* Mutants: the wrapper around the guest's connection has no CloseWrite; an
\* end closes both connections.
CopyEndsOneWay(side) ==
    /\ side \in copying /\ AtEnd(side) /\ Writable(Other(side))
    /\ eof' = [eof EXCEPT !["upstream"] = @ \/ side = "guest"]
    /\ copying' = copying \ {side}
    /\ UNCHANGED <<hello, pc, verdict, raw, replay, peerVars, taken, got, closed, dialVars>>
CopyEndsBoth(side) ==
    /\ side \in copying /\ AtEnd(side) /\ Writable(Other(side))
    /\ copying' = copying \ {side} /\ Close
    /\ UNCHANGED <<hello, pc, verdict, raw, replay, peerVars, taken, got, eof, dialVars>>

\* A direction that ends is passed on by CloseWrite; the other goes on.
CopyEnds(side) ==
    /\ side \in copying /\ AtEnd(side) /\ Writable(Other(side))
    /\ eof' = [eof EXCEPT ![Other(side)] = TRUE]
    /\ copying' = copying \ {side}
    /\ UNCHANGED <<hello, pc, verdict, raw, replay, peerVars, taken, got, closed, dialVars>>

\* A read, a write or the CloseWrite fails: both connections are closed,
\* which ends the other copy as well.
CopyBreaks(side) ==
    /\ side \in copying
    /\ \/ ~Available(side) /\ (rst[side] \/ closed[side])
       \/ (Available(side) \/ AtEnd(side)) /\ ~Writable(Other(side))
    /\ copying' = copying \ {side} /\ Close
    /\ UNCHANGED <<hello, pc, verdict, raw, replay, peerVars, taken, got, eof, dialVars>>

\* Both copies are done; the deferred closes run.
SpliceReturns ==
    /\ pc = "spliced" /\ copying = {}
    /\ pc' = "over" /\ Close
    /\ UNCHANGED <<hello, verdict, raw, replay, peerVars, taken, got, eof, copying, dialVars>>

-----------------------------------------------------------------------------
(* The peers *)

\* What a peer does once our socket is closed reaches nobody.
Connected(side) == (side = "guest" \/ at # Nowhere) /\ ~closed[side]

Sends(side, record) ==
    /\ Connected(side) /\ ~fin[side] /\ ~rst[side]
    /\ pc # "reading" => record = Opaque
    /\ Len(sent[side]) < IF side = "guest" THEN MaxRecords ELSE MaxAnswers
    /\ sent' = [sent EXCEPT ![side] = Append(@, record)]
    /\ UNCHANGED <<hello, pc, verdict, raw, replay, fin, rst, taken, got, eof, closed, copying, dialVars>>

HalfCloses(side) ==
    /\ Connected(side) /\ ~fin[side] /\ ~rst[side]
    /\ fin' = [fin EXCEPT ![side] = TRUE]
    /\ UNCHANGED <<hello, pc, verdict, raw, replay, sent, rst, taken, got, eof, closed, copying, dialVars>>

Breaks(side) ==
    /\ Connected(side) /\ ~rst[side]
    /\ rst' = [rst EXCEPT ![side] = TRUE]
    /\ UNCHANGED <<hello, pc, verdict, raw, replay, sent, fin, taken, got, eof, closed, copying, dialVars>>

-----------------------------------------------------------------------------
CopyStep(side) == Copy(side) \/ CopyEnds(side) \/ CopyBreaks(side)

Route ==
    \/ ReadRecord \/ HelloFails \/ Accept \/ TerminatorReads \/ TerminatorCloses
    \/ Resolve \/ Connects \/ DialFails \/ SpliceReturns

Next ==
    \/ Route
    \/ \E side \in Sides :
        \/ CopyStep(side) \/ HalfCloses(side) \/ Breaks(side)
        \/ \E record \in Records : Sends(side, record)

Spec == Init /\ [][Next]_vars

\* Goroutines run on, deadlines pass, and a peer that reads the end of our
\* direction ends its own or breaks.  No peer has to end a connection first.
Fairness ==
    /\ WF_vars(Route)
    /\ \A side \in Sides : WF_vars(CopyStep(side))
    /\ \A side \in Sides : WF_vars(eof[side] /\ (HalfCloses(side) \/ Breaks(side)))

FairSpec == Spec /\ Fairness

-----------------------------------------------------------------------------
(* Properties *)

\* The name below which a wildcard admits, written with an explicit label.
Below(name, base) ==
    \E k \in 1 .. Len(name.labels) - 1 :
        SubSeq(name.labels, k + 1, Len(name.labels)) = base.labels
Fits(pattern, name) ==
    IF pattern.wild THEN Below(name, pattern.name) ELSE name.labels = pattern.name.labels

\* However a hello is cut into records and however its name is spelt, the
\* connection goes where the whole hello's server name says: to the proxy
\* exactly for a credential's domain, to the internet exactly for a granted
\* name nothing denies; without a name nowhere.
RoutedByName ==
    LET name == ServerName(hello)
        credential == \E domain \in Intercepted : domain.labels = name.labels
        granted == /\ \E pattern \in Domains : Fits(pattern, name)
                   /\ ~\E pattern \in Denied : Fits(pattern, name)
    IN  verdict \in {"intercept", "allow", "deny"} =>
            /\ name # NoName /\ Gathered(raw) >= hello.size
            /\ verdict = "intercept" <=> credential
            /\ verdict = "allow" <=> (granted /\ ~credential)

\* Whoever serves the connection, the upstream or the proxy, sees the guest's
\* stream from its first byte, each record once and in order, the ones read
\* for the hello included; and the guest sees the upstream's.
InOrder == \A side \in Sides : \A i \in DOMAIN got[side] : got[side][i] = i

\* A splice neither peer broke ends only when all that either side sent has
\* reached the other: a side that is done sending still gets its answer.
EndIsComplete ==
    (pc = "over" /\ at # Nowhere /\ ~rst["guest"] /\ ~rst["upstream"]) =>
        \A side \in Sides : Len(got[Other(side)]) = Len(sent[side])

\* Nothing is spliced to the sandbox's own subnet, to loopback, to 0.0.0.0/8
\* or to the lan, nor to the host without host:443, wherever in the answer
\* for a granted name such an address stands and whichever dials fail.
NeverInside ==
    /\ at \in {"public", Nowhere} \cup IF HostTLS THEN {"host"} ELSE {}
    /\ at # Nowhere => verdict = "allow"

\* main.go:400: a direction that ends reaches the other side, so that no peer
\* that says nothing holds both connections open; and a hello that never
\* comes does not hold one.
ConnectionsEnd ==
    /\ <>(pc # "reading")
    /\ \A side \in Sides : (pc = "spliced" /\ (fin[side] \/ rst[side])) ~> pc = "over"
=============================================================================
