------------------------------ MODULE DnsRelay ------------------------------
(***************************************************************************)
(* The egress unit's DNS relay for a sandbox with an open grant (dns.go):  *)
(* the udp loop of forwardDNS with one goroutine per query, the tcp road   *)
(* of forwardDNSStream with one per connection, the token bucket they      *)
(* share, and the host's resolver behind them.                             *)
(*                                                                         *)
(* A query is a model value with a class; an address is the class of       *)
(* address it is to the screen.  bucket.take holds a mutex, so it is one   *)
(* step; tokens are whole and the clock ticks in seconds.                  *)
(***************************************************************************)
EXTENDS Integers, Sequences, FiniteSets

CONSTANTS
    Queries,      \* messages the guest sends, each once, over udp or tcp
    ClassOf,      \* what a query asks for
    Says,         \* the sets of addresses the resolver may answer with
    Streams,      \* tcp connections the guest makes
    HostGrant,    \* the sandbox has a host:<port> grant
    Burst,        \* queryBurst
    Rate,         \* queryRate
    MaxQueries,   \* maxQueries
    MaxStreams,   \* maxStreams
    MaxTime       \* bound: seconds the clock runs

\* "malformed": no question can be read from it; "bareReverse": the name of a
\* private reverse zone can, and the message ends there.
Classes == {"name", "AAAA", "privateReverse", "bareReverse", "malformed"}

ASSUME BucketAssumption == Burst \in Nat \ {0} /\ Rate \in Nat \ {0}
ASSUME QueryAssumption == ClassOf \in [Queries -> Classes] /\ HostGrant \in BOOLEAN
ASSUME BoundAssumption == MaxQueries \in Nat /\ MaxStreams \in Nat /\ MaxTime \in Nat

\* Addresses as rules.private, rules.reachable and hostOwns tell them apart.
\* "unreadable" stands for a message answerAddresses cannot parse.
Addresses == {"public", "granted", "host", "loopback", "private", "unreadable"}
ASSUME SaysAssumption == Says \subseteq SUBSET Addresses

\* screen.allows
Allows(address) ==
    address \in {"public", "granted"} \/ (HostGrant /\ address = "host")

NoAnswer == [kind |-> "none"]
Refused == [kind |-> "refused"]
Empty == [kind |-> "empty"]
\* The resolver's answer to query q.
Reply(q, set) == [kind |-> "reply", to |-> q, names |-> set]

VARIABLES
    now,             \* the monotonic clock
    tokens, last,    \* bucket
    taken,           \* history: tokens spent so far
    since, before,   \* history: a moment chosen to measure from, and taken then
    udp,             \* where a query sent over udp is
    slots,           \* tokens in forwardDNS's channel of slots
    stream,          \* where the goroutine of a connection is
    streamSlots,     \* tokens in forwardDNSStream's channel
    current,         \* the query a stream works on
    asking,          \* per stream: what the resolver has not answered yet
    inbox,           \* per stream: the resolver's answers not read yet
    answer,          \* history: what the guest was told of a query
    asked            \* history: the queries that reached the resolver

bucketVars == <<tokens, last, taken>>
udpVars == <<udp, slots>>
streamVars == <<stream, streamSlots, current, asking, inbox>>
mark == <<since, before>>
vars == <<now, bucketVars, mark, udpVars, streamVars, answer, asked>>

UdpStates == {"unsent", "judge", "wait", "over", "tcp"}
StreamStates == {"new", "read", "ask", "wait", "closed"}
Answers == {NoAnswer, Refused, Empty} \cup
    {Reply(q, set) : q \in Queries, set \in SUBSET Addresses}

TypeOK ==
    /\ now \in Nat /\ tokens \in 0 .. Burst /\ last \in 0 .. now /\ taken \in Nat
    /\ since \in 0 .. now /\ before \in Nat
    /\ udp \in [Queries -> UdpStates] /\ slots \in Nat
    /\ stream \in [Streams -> StreamStates] /\ streamSlots \in Nat
    /\ \A s \in Streams :
         /\ current[s] \in Queries \cup {"none"}
         /\ asking[s] \in Seq(Queries)
         /\ \A i \in DOMAIN inbox[s] : inbox[s][i] \in Answers
    /\ \A q \in Queries : answer[q] \in Answers
    /\ asked \subseteq Queries

Init ==
    /\ now = 0 /\ tokens = Burst /\ last = 0 /\ taken = 0
    /\ since = 0 /\ before = 0
    /\ udp = [q \in Queries |-> "unsent"] /\ slots = 0
    /\ stream = [s \in Streams |-> "new"] /\ streamSlots = 0
    /\ current = [s \in Streams |-> "none"]
    /\ asking = [s \in Streams |-> <<>>] /\ inbox = [s \in Streams |-> <<>>]
    /\ answer = [q \in Queries |-> NoAnswer]
    /\ asked = {}

-----------------------------------------------------------------------------
(* bucket.take *)

\* Mutant: the refill is not capped at the burst.
RefilledUncapped == tokens + (now - last) * Rate

\* What the bucket holds now: the refill since last, capped at the burst.
Refilled ==
    LET full == tokens + (now - last) * Rate IN IF full < Burst THEN full ELSE Burst

\* Mutant: last is set only when the take fails.
TakeKeepsLast ==
    /\ Refilled >= 1
    /\ tokens' = Refilled - 1 /\ taken' = taken + 1
    /\ UNCHANGED last

Take ==
    /\ Refilled >= 1
    /\ tokens' = Refilled - 1 /\ last' = now /\ taken' = taken + 1

TakeFails ==
    /\ Refilled < 1
    /\ tokens' = Refilled /\ last' = now /\ UNCHANGED taken

-----------------------------------------------------------------------------
(* screened, refusal, noAddress *)

\* A query without a whole question has no refusal.
Refusal(q) == IF ClassOf[q] \in {"malformed", "bareReverse"} THEN NoAnswer ELSE Refused

Screened(q, reply) ==
    IF \A address \in reply.names : Allows(address)
    THEN reply ELSE Refusal(q)

\* What is answered without the resolver, and how.
Local(q) == ClassOf[q] \in {"AAAA", "privateReverse", "bareReverse"}
LocalAnswer(q) == IF ClassOf[q] = "AAAA" THEN Empty ELSE Refusal(q)

Tell(q, what) == answer' = [answer EXCEPT ![q] = what]

-----------------------------------------------------------------------------
(* forwardDNS and relayQuery *)

\* The token is spent before the slot is asked for.
UdpQuery(q) ==
    /\ udp[q] = "unsent"
    /\ Take
    /\ IF slots < MaxQueries
       THEN slots' = slots + 1 /\ udp' = [udp EXCEPT ![q] = "judge"]
       ELSE UNCHANGED slots /\ udp' = [udp EXCEPT ![q] = "over"]
    /\ UNCHANGED <<now, mark, streamVars, answer, asked>>

UdpOverRate(q) ==
    /\ udp[q] = "unsent"
    /\ TakeFails
    /\ udp' = [udp EXCEPT ![q] = "over"]
    /\ UNCHANGED <<now, mark, slots, streamVars, answer, asked>>

\* The goroutine returns and gives its slot back.
UdpReturns(q) == udp' = [udp EXCEPT ![q] = "over"] /\ slots' = slots - 1

UdpLocal(q) ==
    /\ udp[q] = "judge" /\ Local(q)
    /\ Tell(q, LocalAnswer(q))
    /\ UdpReturns(q)
    /\ UNCHANGED <<now, bucketVars, mark, streamVars, asked>>

UdpAsk(q) ==
    /\ udp[q] = "judge" /\ ~Local(q)
    /\ udp' = [udp EXCEPT ![q] = "wait"]
    /\ asked' = asked \cup {q}
    /\ UNCHANGED <<now, bucketVars, mark, slots, streamVars, answer>>

\* The resolver's answer comes on a socket of the query's own.
UdpReply(q, reply) ==
    /\ udp[q] = "wait"
    /\ Tell(q, Screened(q, reply))
    /\ UdpReturns(q)
    /\ UNCHANGED <<now, bucketVars, mark, streamVars, asked>>

\* Mutant: an early return without the slot.
UdpGivesUpLeaks(q) ==
    /\ udp[q] \in {"judge", "wait"} /\ ~Local(q)
    /\ udp' = [udp EXCEPT ![q] = "over"]
    /\ UNCHANGED <<now, bucketVars, mark, slots, streamVars, answer, asked>>

\* dial or write fails, or the 5 seconds are over; the guest hears nothing.
UdpGivesUp(q) ==
    /\ udp[q] \in {"judge", "wait"} /\ ~Local(q)
    /\ UdpReturns(q)
    /\ UNCHANGED <<now, bucketVars, mark, streamVars, answer, asked>>

-----------------------------------------------------------------------------
(* forwardDNSStream and relayStream *)

Accept(s) ==
    /\ stream[s] = "new"
    /\ IF streamSlots < MaxStreams
       THEN streamSlots' = streamSlots + 1 /\ stream' = [stream EXCEPT ![s] = "read"]
       ELSE UNCHANGED streamSlots /\ stream' = [stream EXCEPT ![s] = "closed"]
    /\ UNCHANGED <<now, bucketVars, mark, udpVars, current, asking, inbox, answer, asked>>

\* relayStream returns: both connections are closed and what the resolver
\* still sends on its one goes nowhere.
Close(s) ==
    /\ stream' = [stream EXCEPT ![s] = "closed"]
    /\ streamSlots' = streamSlots - 1
    /\ current' = [current EXCEPT ![s] = "none"]
    /\ asking' = [asking EXCEPT ![s] = <<>>]
    /\ inbox' = [inbox EXCEPT ![s] = <<>>]

\* The goroutine answers from what it has and reads on; it returns when there
\* is no answer to write.
Answer(s, q, what, rest) ==
    /\ Tell(q, what)
    /\ IF what = NoAnswer
       THEN Close(s)
       ELSE /\ stream' = [stream EXCEPT ![s] = "read"]
            /\ current' = [current EXCEPT ![s] = "none"]
            /\ inbox' = [inbox EXCEPT ![s] = rest]
            /\ UNCHANGED <<streamSlots, asking>>

\* A message over the rate is refused and the stream goes on.
StreamOverRate(s, q) ==
    /\ stream[s] = "read" /\ udp[q] = "unsent"
    /\ TakeFails
    /\ udp' = [udp EXCEPT ![q] = "tcp"]
    /\ Answer(s, q, Refusal(q), inbox[s])
    /\ UNCHANGED <<now, mark, slots, asked>>

StreamLocal(s, q) ==
    /\ stream[s] = "read" /\ udp[q] = "unsent" /\ Local(q)
    /\ Take
    /\ udp' = [udp EXCEPT ![q] = "tcp"]
    /\ Answer(s, q, LocalAnswer(q), inbox[s])
    /\ UNCHANGED <<now, mark, slots, asked>>

\* Mutant: the tcp road does not draw from the bucket.
StreamQueryFree(s, q) ==
    /\ stream[s] = "read" /\ udp[q] = "unsent" /\ ~Local(q)
    /\ udp' = [udp EXCEPT ![q] = "tcp"]
    /\ stream' = [stream EXCEPT ![s] = "ask"]
    /\ current' = [current EXCEPT ![s] = q]
    /\ UNCHANGED <<now, bucketVars, mark, slots, streamSlots, asking, inbox, answer, asked>>

StreamQuery(s, q) ==
    /\ stream[s] = "read" /\ udp[q] = "unsent" /\ ~Local(q)
    /\ Take
    /\ udp' = [udp EXCEPT ![q] = "tcp"]
    /\ stream' = [stream EXCEPT ![s] = "ask"]
    /\ current' = [current EXCEPT ![s] = q]
    /\ UNCHANGED <<now, mark, slots, streamSlots, asking, inbox, answer, asked>>

\* The resolver is dialled for the first query and asked one at a time.
StreamAsk(s) ==
    /\ stream[s] = "ask"
    /\ stream' = [stream EXCEPT ![s] = "wait"]
    /\ asking' = [asking EXCEPT ![s] = Append(@, current[s])]
    /\ asked' = asked \cup {current[s]}
    /\ UNCHANGED <<now, bucketVars, mark, udpVars, streamSlots, current, inbox, answer>>

\* The resolver answers a connection in the order it was asked.
ResolverAnswers(s, names) ==
    /\ asking[s] # <<>>
    /\ asking' = [asking EXCEPT ![s] = Tail(@)]
    /\ inbox' = [inbox EXCEPT ![s] = Append(@, Reply(Head(asking[s]), names))]
    /\ UNCHANGED <<now, bucketVars, mark, udpVars, stream, streamSlots, current, answer, asked>>

StreamReply(s) ==
    /\ stream[s] = "wait" /\ inbox[s] # <<>>
    /\ Answer(s, current[s], Screened(current[s], Head(inbox[s])), Tail(inbox[s]))
    /\ UNCHANGED <<now, bucketVars, mark, udpVars, asked>>

\* Mutant: no deadline on the guest's side of a stream.
GuestGoneNever(s) == FALSE

\* The guest is silent for 30 seconds or closes ...
GuestGone(s) ==
    /\ stream[s] = "read"
    /\ Close(s)
    /\ UNCHANGED <<now, bucketVars, mark, udpVars, answer, asked>>

\* Mutant: a timeout of the resolver leaves the stream open.
ResolverGoneReadsOn(s) ==
    /\ stream[s] \in {"ask", "wait"}
    /\ stream' = [stream EXCEPT ![s] = "read"]
    /\ current' = [current EXCEPT ![s] = "none"]
    /\ UNCHANGED <<now, bucketVars, mark, udpVars, streamSlots, asking, inbox, answer, asked>>

\* ... or the resolver cannot be dialled, or is silent that long.
ResolverGone(s) ==
    /\ stream[s] \in {"ask", "wait"}
    /\ Close(s)
    /\ UNCHANGED <<now, bucketVars, mark, udpVars, answer, asked>>

-----------------------------------------------------------------------------
Tick ==
    /\ now < MaxTime
    /\ now' = now + 1
    /\ UNCHANGED <<bucketVars, mark, udpVars, streamVars, answer, asked>>

\* History only: start measuring the rate from here.
Measure ==
    /\ since' = now /\ before' = taken
    /\ UNCHANGED <<now, bucketVars, udpVars, streamVars, answer, asked>>

QueryStep(q) ==
    \/ UdpLocal(q) \/ UdpAsk(q) \/ UdpGivesUp(q)
    \/ \E set \in Says : UdpReply(q, Reply(q, set))

StreamStep(s) ==
    \/ StreamAsk(s) \/ StreamReply(s) \/ GuestGone(s) \/ ResolverGone(s)

Next ==
    \/ \E q \in Queries : UdpQuery(q) \/ UdpOverRate(q) \/ QueryStep(q)
    \/ \E s \in Streams :
        \/ Accept(s) \/ StreamStep(s)
        \/ \E q \in Queries : StreamQuery(s, q) \/ StreamLocal(s, q) \/ StreamOverRate(s, q)
        \/ \E set \in Says : ResolverAnswers(s, set)
    \/ Tick \/ Measure

Spec == Init /\ [][Next]_vars

\* Deadlines end every wait: 2 s for a dial, 5 s for a udp answer, 30 s for
\* every read and write of a stream.
Fairness ==
    /\ \A q \in Queries : WF_vars(QueryStep(q))
    /\ \A s \in Streams : WF_vars(StreamStep(s))

FairSpec == Spec /\ Fairness

-----------------------------------------------------------------------------
(* Properties *)

\* Over any stretch of time, both roads together spend at most the burst and
\* the steady rate (dns.go:15): no order of takes, drops and idle seconds
\* gets a guest more of the resolver.
WithinRate == taken - before =< Burst + Rate * (now - since)

\* Every query that reached the resolver was paid for, and none of those the
\* unit answers itself did.
AskedIsPaid ==
    /\ Cardinality(asked) =< taken
    /\ \A q \in asked : ClassOf[q] \in {"name", "malformed"}

\* Slots are neither leaked nor given back twice: they count the goroutines
\* that run, on every path a goroutine returns by.
SlotsCounted ==
    /\ slots = Cardinality({q \in Queries : udp[q] \in {"judge", "wait"}})
    /\ streamSlots = Cardinality({s \in Streams : stream[s] \notin {"new", "closed"}})

\* What the guest is told of a query is the answer to that query, also when
\* an earlier one on the same stream was answered late, and it names no
\* address the screen does not allow.
AnswersFit ==
    \A q \in Queries : answer[q].kind = "reply" =>
        /\ answer[q].to = q
        /\ \A address \in answer[q].names : Allows(address)

\* Every goroutine returns: a query and a stream give their slot back.
SlotsReturn ==
    /\ \A q \in Queries : udp[q] \in {"judge", "wait"} ~> udp[q] = "over"
    /\ \A s \in Streams : stream[s] = "read" ~> stream[s] = "closed"
=============================================================================
