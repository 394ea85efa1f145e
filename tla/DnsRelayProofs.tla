--------------------------- MODULE DnsRelayProofs ---------------------------
(* Proofs about DnsRelay, for every value of its constants. *)
EXTENDS DnsRelay, FiniteSetTheorems, TLAPS

-----------------------------------------------------------------------------
(* The bucket *)

\* The numbers WithinRate is about.
RateType ==
    /\ now \in Nat /\ tokens \in Nat /\ last \in Nat /\ taken \in Nat
    /\ since \in Nat /\ before \in Nat
    /\ tokens =< Burst /\ last =< now /\ since =< now

\* What the bucket still holds counts against the rate as if it were spent:
\* since the chosen moment, spent and held tokens together are at most the
\* burst and the refill up to the last take.  Before the first take after
\* that moment nothing is spent.
RateInv ==
    /\ RateType
    /\ last >= since => (taken - before) + tokens =< Burst + Rate * (last - since)
    /\ last < since => taken = before

\* All that a step of the relay can do to the bucket, the clock and the moment
\* the rate is measured from.
RateStep ==
    \/ Take /\ UNCHANGED <<now, since, before>>
    \/ TakeFails /\ UNCHANGED <<now, since, before>>
    \/ now' = now + 1 /\ UNCHANGED <<tokens, last, taken, since, before>>
    \/ since' = now /\ before' = taken /\ UNCHANGED <<now, tokens, last, taken>>
    \/ UNCHANGED <<now, tokens, last, taken, since, before>>

LEMMA StepIsRateStep == [Next]_vars => RateStep
<1> SUFFICES ASSUME [Next]_vars PROVE RateStep
    OBVIOUS
<1> USE DEF RateStep, bucketVars, mark
<1>1. ASSUME NEW q \in Queries, UdpQuery(q) \/ UdpOverRate(q) PROVE RateStep
    BY <1>1 DEF UdpQuery, UdpOverRate
<1>2. ASSUME NEW q \in Queries, QueryStep(q) PROVE RateStep
    BY <1>2 DEF QueryStep, UdpLocal, UdpAsk, UdpGivesUp, UdpReply
<1>3. ASSUME NEW s \in Streams, Accept(s) \/ StreamStep(s) PROVE RateStep
    BY <1>3 DEF Accept, StreamStep, StreamAsk, StreamReply, GuestGone, ResolverGone
<1>4. ASSUME NEW s \in Streams, NEW q \in Queries,
             StreamQuery(s, q) \/ StreamLocal(s, q) \/ StreamOverRate(s, q)
      PROVE  RateStep
    BY <1>4 DEF StreamQuery, StreamLocal, StreamOverRate
<1>5. ASSUME NEW s \in Streams, NEW set \in Says, ResolverAnswers(s, set) PROVE RateStep
    BY <1>5 DEF ResolverAnswers
<1>6. CASE Tick
    BY <1>6 DEF Tick
<1>7. CASE Measure
    BY <1>7 DEF Measure
<1>8. CASE UNCHANGED vars
    BY <1>8 DEF vars
<1> QED
    BY <1>1, <1>2, <1>3, <1>4, <1>5, <1>6, <1>7, <1>8 DEF Next

\* The refill of a stretch of time is a number of tokens, and that of two
\* stretches is that of both.
LEMMA RefillNat ==
    ASSUME NEW a \in Nat, NEW b \in Nat, a =< b
    PROVE  Rate * (b - a) \in Nat /\ (b - a) * Rate = Rate * (b - a)
<1>1. PICK x \in Nat : x = b - a
    OBVIOUS
<1>2. Rate * x \in Nat /\ x * Rate = Rate * x
    BY BucketAssumption
<1> QED
    BY <1>1, <1>2

LEMMA RefillAdds ==
    ASSUME NEW a \in Nat, NEW b \in Nat, NEW c \in Nat, a =< b, b =< c
    PROVE  /\ Rate * (b - a) \in Nat /\ Rate * (c - b) \in Nat /\ Rate * (c - a) \in Nat
           /\ Rate * (b - a) + Rate * (c - b) = Rate * (c - a)
<1>1. PICK x \in Nat : x = b - a
    OBVIOUS
<1>2. PICK y \in Nat : y = c - b
    OBVIOUS
<1>3. c - a = x + y /\ Rate \in Nat
    BY <1>1, <1>2, BucketAssumption
<1>4. Rate * x \in Nat /\ Rate * y \in Nat /\ Rate * (x + y) = Rate * x + Rate * y
    BY <1>3
<1> QED
    BY <1>1, <1>2, <1>3, <1>4

\* take never leaves more than the burst, and refills by the time that passed.
LEMMA RefilledBounds ==
    ASSUME RateType
    PROVE  /\ Refilled \in Nat /\ Refilled =< Burst
           /\ Refilled =< tokens + Rate * (now - last)
<1>1. Rate * (now - last) \in Nat /\ (now - last) * Rate = Rate * (now - last)
    BY RefillNat DEF RateType
<1> QED
    BY <1>1, BucketAssumption DEF Refilled, RateType

LEMMA RateInit == Init => RateInv
<1> SUFFICES ASSUME Init PROVE RateInv
    OBVIOUS
<1>1. Rate * (last - since) \in Nat
    <2>1. last \in Nat /\ since \in Nat /\ since =< last
        BY DEF Init
    <2> QED
        BY <2>1, RefillNat
<1> QED
    BY <1>1, BucketAssumption DEF Init, RateInv, RateType

LEMMA RateNext == RateInv /\ [Next]_vars => RateInv'
<1> SUFFICES ASSUME RateInv, RateStep PROVE RateInv'
    BY StepIsRateStep
<1>t. RateType
    BY DEF RateInv
<1>b. /\ Refilled \in Nat /\ Refilled =< Burst
      /\ Refilled =< tokens + Rate * (now - last)
    BY <1>t, RefilledBounds
<1>n. Burst \in Nat /\ Rate \in Nat
    BY BucketAssumption
\* What was spent and is held after any take fits the refill up to now.
<1>s. (taken - before) + Refilled =< Burst + Rate * (now - since)
    <2>1. CASE last >= since
        <3>1. /\ Rate * (last - since) + Rate * (now - last) = Rate * (now - since)
              /\ Rate * (last - since) \in Nat /\ Rate * (now - last) \in Nat
              /\ Rate * (now - since) \in Nat
            BY <1>t, <2>1, RefillAdds DEF RateType
        <3>2. (taken - before) + tokens =< Burst + Rate * (last - since)
            BY <2>1 DEF RateInv
        <3> QED
            BY <1>t, <1>b, <1>n, <3>1, <3>2 DEF RateType
    <2>2. CASE last < since
        <3>1. Rate * (now - since) \in Nat
            BY <1>t, RefillNat DEF RateType
        <3>2. taken = before
            BY <2>2 DEF RateInv
        <3> QED
            BY <1>t, <1>b, <1>n, <3>1, <3>2 DEF RateType
    <2> QED
        BY <1>t, <2>1, <2>2 DEF RateType
<1>1. CASE Take /\ UNCHANGED <<now, since, before>>
    <2>1. /\ tokens' = Refilled - 1 /\ Refilled >= 1 /\ last' = now /\ taken' = taken + 1
          /\ now' = now /\ since' = since /\ before' = before
        BY <1>1 DEF Take
    <2>2. RateType'
        BY <1>t, <1>b, <1>n, <2>1 DEF RateType
    <2>3. Rate * (now - since) \in Nat
        BY <1>t, RefillNat DEF RateType
    <2>4. (taken' - before') + tokens' =< Burst + Rate * (last' - since')
        BY <1>t, <1>b, <1>s, <1>n, <2>1, <2>3 DEF RateType
    <2> QED
        BY <1>t, <2>1, <2>2, <2>4 DEF RateInv, RateType
<1>2. CASE TakeFails /\ UNCHANGED <<now, since, before>>
    <2>1. /\ tokens' = Refilled /\ last' = now /\ taken' = taken
          /\ now' = now /\ since' = since /\ before' = before
        BY <1>2 DEF TakeFails
    <2>2. RateType'
        BY <1>t, <1>b, <1>n, <2>1 DEF RateType
    <2> QED
        BY <1>t, <1>s, <2>1, <2>2 DEF RateInv, RateType
<1>3. CASE now' = now + 1 /\ UNCHANGED <<tokens, last, taken, since, before>>
    BY <1>3 DEF RateInv, RateType
<1>4. CASE since' = now /\ before' = taken /\ UNCHANGED <<now, tokens, last, taken>>
    <2>1. Rate * (now - now) \in Nat
        BY <1>t, RefillNat DEF RateType
    <2>2. last >= now => last = now
        BY <1>t DEF RateType
    <2> QED
        BY <1>4, <1>n, <2>1, <2>2 DEF RateInv, RateType
<1>5. CASE UNCHANGED <<now, tokens, last, taken, since, before>>
    BY <1>5 DEF RateInv, RateType
<1> QED
    BY <1>1, <1>2, <1>3, <1>4, <1>5 DEF RateStep

\* Over any stretch of time the two roads together spend at most the burst and
\* the steady rate of bucket.take, for every burst and rate and however many
\* queries, streams and drops are interleaved.
THEOREM RateBound == Spec => []WithinRate
<1>1. RateInv => WithinRate
    <2> SUFFICES ASSUME RateInv PROVE WithinRate
        OBVIOUS
    <2>t. RateType
        BY DEF RateInv
    <2>n. Burst \in Nat /\ Rate * (now - since) \in Nat
        BY <2>t, BucketAssumption, RefillNat DEF RateType
    <2>1. CASE last >= since
        <3>1. /\ Rate * (last - since) + Rate * (now - last) = Rate * (now - since)
              /\ Rate * (last - since) \in Nat /\ Rate * (now - last) \in Nat
            BY <2>t, <2>1, RefillAdds DEF RateType
        <3>2. (taken - before) + tokens =< Burst + Rate * (last - since)
            BY <2>1 DEF RateInv
        <3> QED
            BY <2>t, <2>n, <3>1, <3>2 DEF RateType, WithinRate
    <2>2. CASE last < since
        <3>1. taken = before
            BY <2>2 DEF RateInv
        <3> QED
            BY <2>t, <2>n, <3>1 DEF RateType, WithinRate
    <2> QED
        BY <2>t, <2>1, <2>2 DEF RateType
<1> QED
    BY <1>1, RateInit, RateNext, PTL DEF Spec

-----------------------------------------------------------------------------
(* Answers *)

AnswerType ==
    /\ stream \in [Streams -> StreamStates]
    /\ DOMAIN current = Streams /\ DOMAIN asking = Streams /\ DOMAIN inbox = Streams
    /\ DOMAIN answer = Queries

\* A stream is at its one query while it asks or waits; the resolver owes it
\* the answer to that query, or it has arrived; at any other time nothing is
\* under way between them.
OneUnderWay(s) ==
    /\ stream[s] \in {"ask", "wait"} => current[s] \in Queries
    /\ stream[s] = "wait" =>
         \/ asking[s] = <<current[s]>> /\ inbox[s] = <<>>
         \/ asking[s] = <<>> /\ \E set \in Says : inbox[s] = <<Reply(current[s], set)>>
    /\ stream[s] # "wait" => asking[s] = <<>> /\ inbox[s] = <<>>

FitInv == AnswerType /\ (\A s \in Streams : OneUnderWay(s)) /\ AnswersFit

\* What may be told of query q.
Fits(q, what) ==
    what.kind = "reply" => what.to = q /\ \A address \in what.names : Allows(address)

LEMMA ScreenedFits ==
    ASSUME NEW q \in Queries, NEW set
    PROVE  Fits(q, Screened(q, Reply(q, set)))
<1>1. CASE \A address \in set : Allows(address)
    BY <1>1 DEF Fits, Screened, Reply
<1>2. CASE ~\A address \in set : Allows(address)
    BY <1>2 DEF Fits, Screened, Reply, Refusal, NoAnswer, Refused
<1> QED
    BY <1>1, <1>2

LEMMA OwnAnswersFit ==
    ASSUME NEW q \in Queries
    PROVE  Fits(q, LocalAnswer(q)) /\ Fits(q, Refusal(q))
BY DEF Fits, LocalAnswer, Refusal, NoAnswer, Refused, Empty

LEMMA TellKeeps ==
    ASSUME FitInv, NEW q \in Queries, NEW what, Tell(q, what), Fits(q, what)
    PROVE  DOMAIN answer' = Queries /\ AnswersFit'
BY DEF FitInv, AnswerType, AnswersFit, Tell, Fits

\* A stream that closes, or that reads on after an answer, has nothing under
\* way; the other streams are left alone.
LEMMA CloseKeeps ==
    ASSUME FitInv, NEW s \in Streams, Close(s), DOMAIN answer' = Queries, AnswersFit'
    PROVE  FitInv'
<1>1. AnswerType'
    BY DEF FitInv, AnswerType, Close, StreamStates
<1>2. \A t \in Streams : OneUnderWay(t)'
    BY DEF FitInv, AnswerType, OneUnderWay, Close
<1> QED
    BY <1>1, <1>2 DEF FitInv

LEMMA AnswerKeeps ==
    ASSUME FitInv, NEW s \in Streams, NEW q \in Queries, NEW what,
           Answer(s, q, what, <<>>), Fits(q, what), asking[s] = <<>>
    PROVE  FitInv'
<1>1. DOMAIN answer' = Queries /\ AnswersFit'
    BY TellKeeps DEF Answer
<1>2. CASE what = NoAnswer
    BY <1>1, <1>2, CloseKeeps DEF Answer
<1>3. CASE what # NoAnswer
    <2>1. AnswerType'
        BY <1>1, <1>3 DEF FitInv, AnswerType, Answer, StreamStates
    <2>2. \A t \in Streams : OneUnderWay(t)'
        BY <1>3 DEF FitInv, AnswerType, OneUnderWay, Answer
    <2> QED
        BY <1>1, <2>1, <2>2 DEF FitInv
<1> QED
    BY <1>2, <1>3

LEMMA FitInit == Init => FitInv
BY DEF Init, FitInv, AnswerType, OneUnderWay, AnswersFit, StreamStates, NoAnswer

LEMMA FitNext == FitInv /\ [Next]_vars => FitInv'
<1> SUFFICES ASSUME FitInv, [Next]_vars PROVE FitInv'
    OBVIOUS
<1>same. UNCHANGED <<streamVars, answer>> => FitInv'
    BY DEF FitInv, AnswerType, OneUnderWay, AnswersFit, streamVars
<1>told. ASSUME NEW q \in Queries, NEW what, Tell(q, what), Fits(q, what), UNCHANGED streamVars
         PROVE  FitInv'
    <2>1. DOMAIN answer' = Queries /\ AnswersFit'
        BY <1>told, TellKeeps
    <2> QED
        BY <1>told, <2>1 DEF FitInv, AnswerType, OneUnderWay, streamVars
<1>1. ASSUME NEW q \in Queries, UdpQuery(q) \/ UdpOverRate(q) PROVE FitInv'
    BY <1>1, <1>same DEF UdpQuery, UdpOverRate
<1>2. ASSUME NEW q \in Queries, UdpLocal(q) PROVE FitInv'
    BY <1>2, <1>told, OwnAnswersFit DEF UdpLocal
<1>3. ASSUME NEW q \in Queries, UdpAsk(q) \/ UdpGivesUp(q) PROVE FitInv'
    BY <1>3, <1>same DEF UdpAsk, UdpGivesUp
<1>4. ASSUME NEW q \in Queries, NEW set \in Says, UdpReply(q, Reply(q, set)) PROVE FitInv'
    BY <1>4, <1>told, ScreenedFits DEF UdpReply
<1>5. ASSUME NEW s \in Streams, Accept(s) PROVE FitInv'
    <2>1. AnswerType'
        BY <1>5 DEF FitInv, AnswerType, Accept, StreamStates
    <2>2. \A t \in Streams : OneUnderWay(t)'
        BY <1>5 DEF FitInv, AnswerType, OneUnderWay, Accept
    <2>3. AnswersFit'
        BY <1>5 DEF FitInv, AnswersFit, Accept
    <2> QED
        BY <2>1, <2>2, <2>3 DEF FitInv
<1>6. ASSUME NEW s \in Streams, NEW q \in Queries, StreamOverRate(s, q) \/ StreamLocal(s, q)
      PROVE  FitInv'
    <2>1. asking[s] = <<>> /\ inbox[s] = <<>>
        BY <1>6 DEF FitInv, OneUnderWay, StreamOverRate, StreamLocal
    <2>2. Answer(s, q, Refusal(q), <<>>) \/ Answer(s, q, LocalAnswer(q), <<>>)
        BY <1>6, <2>1 DEF StreamOverRate, StreamLocal
    <2> QED
        BY <2>1, <2>2, OwnAnswersFit, AnswerKeeps
<1>7. ASSUME NEW s \in Streams, NEW q \in Queries, StreamQuery(s, q) PROVE FitInv'
    <2>1. AnswerType'
        BY <1>7 DEF FitInv, AnswerType, StreamQuery, StreamStates
    <2>2. \A t \in Streams : OneUnderWay(t)'
        BY <1>7 DEF FitInv, AnswerType, OneUnderWay, StreamQuery
    <2>3. AnswersFit'
        BY <1>7 DEF FitInv, AnswersFit, StreamQuery
    <2> QED
        BY <2>1, <2>2, <2>3 DEF FitInv
<1>8. ASSUME NEW s \in Streams, StreamAsk(s) PROVE FitInv'
    <2>1. AnswerType'
        BY <1>8 DEF FitInv, AnswerType, StreamAsk, StreamStates
    <2>2. current[s] \in Queries /\ asking[s] = <<>> /\ inbox[s] = <<>>
        BY <1>8 DEF FitInv, OneUnderWay, StreamAsk
    <2>3. Append(asking[s], current[s]) = <<current[s]>>
        BY <2>2
    <2>4. \A t \in Streams : OneUnderWay(t)'
        BY <1>8, <2>2, <2>3 DEF FitInv, AnswerType, OneUnderWay, StreamAsk
    <2>5. AnswersFit'
        BY <1>8 DEF FitInv, AnswersFit, StreamAsk
    <2> QED
        BY <2>1, <2>4, <2>5 DEF FitInv
<1>9. ASSUME NEW s \in Streams, NEW set \in Says, ResolverAnswers(s, set) PROVE FitInv'
    <2>1. AnswerType'
        BY <1>9 DEF FitInv, AnswerType, ResolverAnswers
    <2>2. stream[s] = "wait" /\ asking[s] = <<current[s]>> /\ inbox[s] = <<>>
        BY <1>9 DEF FitInv, OneUnderWay, ResolverAnswers
    <2>3. /\ Tail(asking[s]) = <<>> /\ Head(asking[s]) = current[s]
          /\ Append(inbox[s], Reply(current[s], set)) = <<Reply(current[s], set)>>
        BY <2>2
    <2>4. \A t \in Streams : OneUnderWay(t)'
        BY <1>9, <2>2, <2>3 DEF FitInv, AnswerType, OneUnderWay, ResolverAnswers
    <2>5. AnswersFit'
        BY <1>9 DEF FitInv, AnswersFit, ResolverAnswers
    <2> QED
        BY <2>1, <2>4, <2>5 DEF FitInv
<1>10. ASSUME NEW s \in Streams, StreamReply(s) PROVE FitInv'
    <2>1. current[s] \in Queries /\ asking[s] = <<>>
        BY <1>10 DEF FitInv, OneUnderWay, StreamReply
    <2>2. PICK set \in Says : inbox[s] = <<Reply(current[s], set)>>
        BY <1>10 DEF FitInv, OneUnderWay, StreamReply
    <2>3. Head(inbox[s]) = Reply(current[s], set) /\ Tail(inbox[s]) = <<>>
        BY <2>2
    <2>4. Answer(s, current[s], Screened(current[s], Reply(current[s], set)), <<>>)
        BY <1>10, <2>3 DEF StreamReply
    <2> QED
        BY <2>1, <2>4, ScreenedFits, AnswerKeeps
<1>11. ASSUME NEW s \in Streams, GuestGone(s) \/ ResolverGone(s) PROVE FitInv'
    <2>1. DOMAIN answer' = Queries /\ AnswersFit'
        BY <1>11 DEF GuestGone, ResolverGone, FitInv, AnswerType, AnswersFit
    <2> QED
        BY <1>11, <2>1, CloseKeeps DEF GuestGone, ResolverGone
<1>12. CASE Tick \/ Measure \/ UNCHANGED vars
    BY <1>12, <1>same DEF Tick, Measure, vars
<1> QED
    BY <1>1, <1>2, <1>3, <1>4, <1>5, <1>6, <1>7, <1>8, <1>9, <1>10, <1>11, <1>12
       DEF Next, QueryStep, StreamStep

\* Whatever is late, refused or given up, what a guest is told of a query is
\* the answer to that query and passes the screen: relayStream closes a stream
\* rather than read on past an answer it did not wait for.
THEOREM AnswersBelong == Spec => []AnswersFit
<1>1. FitInv => AnswersFit
    BY DEF FitInv
<1> QED
    BY <1>1, FitInit, FitNext, PTL DEF Spec

-----------------------------------------------------------------------------
(* Slots *)

\* The goroutines that hold a slot.
Asking == {q \in Queries : udp[q] \in {"judge", "wait"}}
Serving == {s \in Streams : stream[s] \notin {"new", "closed"}}

Counts(n, set) == IsFiniteSet(set) /\ n = Cardinality(set)

SlotInv ==
    /\ udp \in [Queries -> UdpStates] /\ stream \in [Streams -> StreamStates]
    /\ Counts(slots, Asking) /\ Counts(streamSlots, Serving)
    /\ slots =< MaxQueries /\ streamSlots =< MaxStreams

\* One goroutine starts below the limit and takes a slot, or one returns and
\* gives it back, or neither.
OneMoves(n, m, set, new, max) ==
    \/ new = set /\ m = n
    \/ n < max /\ m = n + 1 /\ \E x \in new : x \notin set /\ new = set \cup {x}
    \/ m = n - 1 /\ \E x \in set : new = set \ {x}

LEMMA CountMoves ==
    ASSUME NEW n, NEW m, NEW set, NEW new, NEW max \in Nat,
           Counts(n, set), n =< max, OneMoves(n, m, set, new, max)
    PROVE  Counts(m, new) /\ m =< max
<1>n. n \in Nat
    BY FS_CardinalityType DEF Counts
<1>1. CASE new = set /\ m = n
    BY <1>1
<1>2. CASE n < max /\ m = n + 1 /\ \E x \in new : x \notin set /\ new = set \cup {x}
    <2>1. IsFiniteSet(new) /\ Cardinality(new) = n + 1
        BY <1>2, FS_AddElement DEF Counts
    <2> QED
        BY <1>n, <1>2, <2>1 DEF Counts
<1>3. CASE m = n - 1 /\ \E x \in set : new = set \ {x}
    <2>1. IsFiniteSet(new) /\ Cardinality(new) = n - 1
        BY <1>3, FS_RemoveElement DEF Counts
    <2> QED
        BY <1>n, <1>3, <2>1 DEF Counts
<1> QED
    BY <1>1, <1>2, <1>3 DEF OneMoves

\* Each step is one of these for the queries and for the streams.
SlotStep ==
    /\ udp' \in [Queries -> UdpStates] /\ stream' \in [Streams -> StreamStates]
    /\ OneMoves(slots, slots', Asking, Asking', MaxQueries)
    /\ OneMoves(streamSlots, streamSlots', Serving, Serving', MaxStreams)

LEMMA StepIsSlotStep ==
    ASSUME SlotInv, [Next]_vars
    PROVE  SlotStep
<1>t. udp \in [Queries -> UdpStates] /\ stream \in [Streams -> StreamStates]
    BY DEF SlotInv
\* The stream that closes, or that reads on, was serving.
<1>closes. ASSUME NEW s \in Streams, stream[s] \in {"read", "ask", "wait"},
                  Close(s) \/ (stream' = [stream EXCEPT ![s] = "read"] /\ UNCHANGED streamSlots)
           PROVE  /\ stream' \in [Streams -> StreamStates]
                  /\ OneMoves(streamSlots, streamSlots', Serving, Serving', MaxStreams)
    <2>1. CASE Close(s)
        <3>1. s \in Serving /\ Serving' = Serving \ {s}
            BY <1>t, <1>closes, <2>1 DEF Close, Serving
        <3> QED
            BY <1>t, <2>1, <3>1 DEF Close, OneMoves, StreamStates
    <2>2. CASE stream' = [stream EXCEPT ![s] = "read"] /\ UNCHANGED streamSlots
        <3>1. Serving' = Serving
            BY <1>t, <1>closes, <2>2 DEF Serving
        <3> QED
            BY <1>t, <2>2, <3>1 DEF OneMoves, StreamStates
    <2> QED
        BY <1>closes, <2>1, <2>2
\* A stream step leaves the slots of the udp road alone.
<1>sent. ASSUME NEW q \in Queries, udp[q] = "unsent",
                NEW where \in {"tcp", "over"}, udp' = [udp EXCEPT ![q] = where], UNCHANGED slots
         PROVE  /\ udp' \in [Queries -> UdpStates]
                /\ OneMoves(slots, slots', Asking, Asking', MaxQueries)
    <2>1. Asking' = Asking
        BY <1>t, <1>sent DEF Asking
    <2> QED
        BY <1>t, <1>sent, <2>1 DEF OneMoves, UdpStates
<1>u. UNCHANGED udpVars => /\ udp' \in [Queries -> UdpStates]
                           /\ OneMoves(slots, slots', Asking, Asking', MaxQueries)
    BY <1>t DEF udpVars, OneMoves, Asking
<1>v. UNCHANGED <<stream, streamSlots>> =>
        /\ stream' \in [Streams -> StreamStates]
        /\ OneMoves(streamSlots, streamSlots', Serving, Serving', MaxStreams)
    BY <1>t DEF OneMoves, Serving
<1>1. ASSUME NEW q \in Queries, UdpQuery(q) PROVE SlotStep
    <2>1. CASE slots < MaxQueries
        <3>1. slots' = slots + 1 /\ udp' = [udp EXCEPT ![q] = "judge"] /\ udp[q] = "unsent"
            BY <1>1, <2>1 DEF UdpQuery
        <3>2. q \in Asking' /\ q \notin Asking /\ Asking' = Asking \cup {q}
            BY <1>t, <3>1 DEF Asking
        <3> QED
            BY <1>1, <1>t, <1>v, <2>1, <3>1, <3>2
            DEF UdpQuery, streamVars, SlotStep, OneMoves, UdpStates
    <2>2. CASE ~(slots < MaxQueries)
        BY <1>1, <1>sent, <1>v, <2>2 DEF UdpQuery, streamVars, SlotStep
    <2> QED
        BY <2>1, <2>2
<1>2. ASSUME NEW q \in Queries, UdpOverRate(q) PROVE SlotStep
    BY <1>2, <1>sent, <1>v DEF UdpOverRate, streamVars, SlotStep
<1>3. ASSUME NEW q \in Queries, UdpAsk(q) PROVE SlotStep
    <2>1. Asking' = Asking
        BY <1>t, <1>3 DEF UdpAsk, Asking
    <2> QED
        BY <1>t, <1>v, <1>3, <2>1 DEF UdpAsk, streamVars, SlotStep, OneMoves, UdpStates
<1>4. ASSUME NEW q \in Queries,
             UdpLocal(q) \/ UdpGivesUp(q) \/ \E set \in Says : UdpReply(q, Reply(q, set))
      PROVE  SlotStep
    <2>1. q \in Asking /\ UdpReturns(q) /\ UNCHANGED streamVars
        BY <1>4 DEF UdpLocal, UdpGivesUp, UdpReply, Asking
    <2>2. Asking' = Asking \ {q}
        BY <1>t, <2>1 DEF UdpReturns, Asking
    <2> QED
        BY <1>t, <1>v, <2>1, <2>2 DEF UdpReturns, streamVars, SlotStep, OneMoves, UdpStates
<1>5. ASSUME NEW s \in Streams, Accept(s) PROVE SlotStep
    <2>1. CASE streamSlots < MaxStreams
        <3>1. /\ streamSlots' = streamSlots + 1 /\ stream' = [stream EXCEPT ![s] = "read"]
              /\ stream[s] = "new"
            BY <1>5, <2>1 DEF Accept
        <3>2. s \in Serving' /\ s \notin Serving /\ Serving' = Serving \cup {s}
            BY <1>t, <3>1 DEF Serving
        <3> QED
            BY <1>5, <1>t, <1>u, <2>1, <3>1, <3>2 DEF Accept, SlotStep, OneMoves, StreamStates
    <2>2. CASE ~(streamSlots < MaxStreams)
        <3>1. UNCHANGED streamSlots /\ stream' = [stream EXCEPT ![s] = "closed"] /\ stream[s] = "new"
            BY <1>5, <2>2 DEF Accept
        <3>2. Serving' = Serving
            BY <1>t, <3>1 DEF Serving
        <3> QED
            BY <1>5, <1>t, <1>u, <3>1, <3>2 DEF Accept, SlotStep, OneMoves, StreamStates
    <2> QED
        BY <2>1, <2>2
<1>6. ASSUME NEW s \in Streams, NEW q \in Queries, StreamOverRate(s, q) \/ StreamLocal(s, q)
      PROVE  SlotStep
    <2>1. /\ stream[s] = "read" /\ udp[q] = "unsent"
          /\ udp' = [udp EXCEPT ![q] = "tcp"] /\ UNCHANGED slots
          /\ Close(s) \/ (stream' = [stream EXCEPT ![s] = "read"] /\ UNCHANGED streamSlots)
        BY <1>6 DEF StreamOverRate, StreamLocal, Answer
    <2> QED
        BY <1>sent, <1>closes, <2>1 DEF SlotStep
<1>7. ASSUME NEW s \in Streams, NEW q \in Queries, StreamQuery(s, q) PROVE SlotStep
    <2>1. Serving' = Serving
        BY <1>t, <1>7 DEF StreamQuery, Serving
    <2> QED
        BY <1>t, <1>7, <1>sent, <2>1 DEF StreamQuery, SlotStep, OneMoves, StreamStates
<1>8. ASSUME NEW s \in Streams, StreamAsk(s) PROVE SlotStep
    <2>1. Serving' = Serving
        BY <1>t, <1>8 DEF StreamAsk, Serving
    <2> QED
        BY <1>t, <1>8, <1>u, <2>1 DEF StreamAsk, SlotStep, OneMoves, StreamStates
<1>9. ASSUME NEW s \in Streams, StreamReply(s) \/ GuestGone(s) \/ ResolverGone(s) PROVE SlotStep
    <2>1. /\ stream[s] \in {"read", "ask", "wait"} /\ UNCHANGED udpVars
          /\ Close(s) \/ (stream' = [stream EXCEPT ![s] = "read"] /\ UNCHANGED streamSlots)
        BY <1>9 DEF StreamReply, GuestGone, ResolverGone, Answer
    <2> QED
        BY <1>u, <1>closes, <2>1 DEF SlotStep
<1>10. ASSUME NEW s \in Streams, NEW set \in Says, ResolverAnswers(s, set) PROVE SlotStep
    BY <1>10, <1>u, <1>v DEF ResolverAnswers, SlotStep
<1>11. CASE Tick \/ Measure \/ UNCHANGED vars
    BY <1>11, <1>u, <1>v DEF Tick, Measure, vars, udpVars, streamVars, SlotStep
<1> QED
    BY <1>1, <1>2, <1>3, <1>4, <1>5, <1>6, <1>7, <1>8, <1>9, <1>10, <1>11
    DEF Next, QueryStep, StreamStep

LEMMA SlotInit == Init => SlotInv
<1> SUFFICES ASSUME Init PROVE SlotInv
    OBVIOUS
<1>1. Asking = {} /\ Serving = {}
    BY DEF Init, Asking, Serving
<1> QED
    BY <1>1, FS_EmptySet, BoundAssumption DEF Init, SlotInv, Counts, UdpStates, StreamStates

LEMMA SlotNext == SlotInv /\ [Next]_vars => SlotInv'
<1> SUFFICES ASSUME SlotInv, SlotStep PROVE SlotInv'
    BY StepIsSlotStep
<1>1. Counts(slots', Asking') /\ slots' =< MaxQueries
    BY CountMoves, BoundAssumption DEF SlotInv, SlotStep
<1>2. Counts(streamSlots', Serving') /\ streamSlots' =< MaxStreams
    BY CountMoves, BoundAssumption DEF SlotInv, SlotStep
<1> QED
    BY <1>1, <1>2 DEF SlotInv, SlotStep, Counts

\* The channels of slots count the goroutines that run, on every path one
\* returns by, so no more run than maxQueries and maxStreams (forwardDNS,
\* forwardDNSStream).
THEOREM SlotsHold ==
    /\ Spec => []SlotsCounted
    /\ Spec => [](/\ Cardinality({q \in Queries : udp[q] \in {"judge", "wait"}}) =< MaxQueries
                  /\ Cardinality({s \in Streams : stream[s] \notin {"new", "closed"}}) =< MaxStreams)
<1>1. SlotInv => /\ SlotsCounted
                 /\ Cardinality({q \in Queries : udp[q] \in {"judge", "wait"}}) =< MaxQueries
                 /\ Cardinality({s \in Streams : stream[s] \notin {"new", "closed"}}) =< MaxStreams
    BY DEF SlotInv, SlotsCounted, Counts, Asking, Serving
<1> QED
    BY <1>1, SlotInit, SlotNext, PTL DEF Spec

-----------------------------------------------------------------------------
(* Payment *)

\* A query that reached the resolver was paid for, and so was one that is
\* about to.
Due == asked \cup {q \in Queries : udp[q] = "judge"} \cup
       {q \in Queries : \E s \in Streams : stream[s] = "ask" /\ current[s] = q}

PaidInv ==
    /\ udp \in [Queries -> UdpStates] /\ taken \in Nat
    /\ stream \in [Streams -> StreamStates] /\ DOMAIN current = Streams
    /\ IsFiniteSet(Due) /\ Cardinality(Due) =< taken
    /\ asked \subseteq {q \in Queries : ~Local(q)}
    /\ \A s \in Streams : stream[s] = "ask" => current[s] \in {q \in Queries : ~Local(q)}

LEMMA PaidInit == Init => PaidInv
<1> SUFFICES ASSUME Init PROVE PaidInv
    OBVIOUS
<1>1. Due = {}
    BY DEF Init, Due
<1> QED
    BY <1>1, FS_EmptySet DEF Init, PaidInv, UdpStates, StreamStates

\* What a step may do: no query more is due, or one more and a token is spent.
LEMMA PaidMoves ==
    ASSUME PaidInv,
           \/ Due' \subseteq Due /\ taken' \in {taken, taken + 1}
           \/ taken' = taken + 1 /\ \E q \in Queries : Due' \subseteq Due \cup {q}
    PROVE  IsFiniteSet(Due') /\ Cardinality(Due') =< taken' /\ taken' \in Nat
<1>t. /\ taken \in Nat /\ IsFiniteSet(Due) /\ Cardinality(Due) =< taken
      /\ Cardinality(Due) \in Nat
    BY FS_CardinalityType DEF PaidInv
<1>1. CASE Due' \subseteq Due /\ taken' \in {taken, taken + 1}
    <2>1. IsFiniteSet(Due') /\ Cardinality(Due') =< Cardinality(Due) /\ Cardinality(Due') \in Nat
        BY <1>t, <1>1, FS_Subset, FS_CardinalityType
    <2> QED
        BY <1>t, <1>1, <2>1
<1>2. ASSUME NEW q \in Queries, Due' \subseteq Due \cup {q}, taken' = taken + 1
      PROVE  IsFiniteSet(Due') /\ Cardinality(Due') =< taken' /\ taken' \in Nat
    <2>1. /\ IsFiniteSet(Due \cup {q}) /\ Cardinality(Due \cup {q}) =< Cardinality(Due) + 1
          /\ Cardinality(Due \cup {q}) \in Nat
        <3>1. IsFiniteSet(Due \cup {q})
              /\ Cardinality(Due \cup {q}) = IF q \in Due THEN Cardinality(Due) ELSE Cardinality(Due) + 1
            BY <1>t, FS_AddElement
        <3> QED
            BY <1>t, <3>1
    <2>2. IsFiniteSet(Due') /\ Cardinality(Due') =< Cardinality(Due \cup {q}) /\ Cardinality(Due') \in Nat
        BY <1>2, <2>1, FS_Subset, FS_CardinalityType
    <2> QED
        BY <1>t, <1>2, <2>1, <2>2
<1> QED
    BY <1>1, <1>2

LEMMA PaidNext == PaidInv /\ [Next]_vars => PaidInv'
<1> SUFFICES ASSUME PaidInv, [Next]_vars PROVE PaidInv'
    OBVIOUS
<1>t. /\ udp \in [Queries -> UdpStates] /\ taken \in Nat
      /\ stream \in [Streams -> StreamStates] /\ DOMAIN current = Streams
      /\ asked \subseteq {q \in Queries : ~Local(q)}
      /\ \A s \in Streams : stream[s] = "ask" => current[s] \in {q \in Queries : ~Local(q)}
    BY DEF PaidInv
<1> DEFINE Others ==
      /\ udp' \in [Queries -> UdpStates]
      /\ stream' \in [Streams -> StreamStates] /\ DOMAIN current' = Streams
      /\ asked' \subseteq {q \in Queries : ~Local(q)}
      /\ \A s \in Streams : stream'[s] = "ask" => current'[s] \in {q \in Queries : ~Local(q)}
\* It is enough that a step keeps the types and has no query more due unpaid.
<1>free. ASSUME Others, Due' \subseteq Due, taken' \in {taken, taken + 1} PROVE PaidInv'
    <2>1. IsFiniteSet(Due') /\ Cardinality(Due') =< taken' /\ taken' \in Nat
        BY <1>free, PaidMoves
    <2> QED
        BY <1>free, <2>1 DEF PaidInv, Local
<1>paid. ASSUME Others, NEW q \in Queries, Due' \subseteq Due \cup {q}, taken' = taken + 1 PROVE PaidInv'
    <2>1. IsFiniteSet(Due') /\ Cardinality(Due') =< taken' /\ taken' \in Nat
        BY <1>paid, PaidMoves
    <2> QED
        BY <1>paid, <2>1 DEF PaidInv, Local
<1>1. ASSUME NEW q \in Queries, UdpQuery(q) PROVE PaidInv'
    <2>1. Others /\ taken' = taken + 1
        BY <1>t, <1>1 DEF UdpQuery, Take, streamVars, UdpStates
    <2>2. Due' \subseteq Due \cup {q}
        BY <1>t, <1>1 DEF UdpQuery, streamVars, Due
    <2> QED
        BY <1>paid, <2>1, <2>2
<1>2. ASSUME NEW q \in Queries, UdpOverRate(q) PROVE PaidInv'
    <2>1. Others /\ taken' = taken
        BY <1>t, <1>2 DEF UdpOverRate, TakeFails, streamVars, UdpStates
    <2>2. Due' \subseteq Due
        BY <1>t, <1>2 DEF UdpOverRate, streamVars, Due
    <2> QED
        BY <1>free, <2>1, <2>2
<1>3. ASSUME NEW q \in Queries, UdpAsk(q) PROVE PaidInv'
    <2>1. Others /\ taken' = taken
        BY <1>t, <1>3 DEF UdpAsk, streamVars, bucketVars, UdpStates
    <2>2. Due' \subseteq Due
        BY <1>t, <1>3 DEF UdpAsk, streamVars, Due
    <2> QED
        BY <1>free, <2>1, <2>2
<1>4. ASSUME NEW q \in Queries,
             UdpLocal(q) \/ UdpGivesUp(q) \/ \E set \in Says : UdpReply(q, Reply(q, set))
      PROVE  PaidInv'
    <2>0. UdpReturns(q) /\ UNCHANGED <<bucketVars, streamVars, asked>>
        BY <1>4 DEF UdpLocal, UdpGivesUp, UdpReply
    <2>1. Others /\ taken' = taken
        BY <1>t, <2>0 DEF UdpReturns, streamVars, bucketVars, UdpStates
    <2>2. Due' \subseteq Due
        BY <1>t, <2>0 DEF UdpReturns, streamVars, Due
    <2> QED
        BY <1>free, <2>1, <2>2
<1>5. ASSUME NEW s \in Streams, Accept(s) PROVE PaidInv'
    <2>1. Others /\ taken' = taken
        BY <1>t, <1>5 DEF Accept, bucketVars, udpVars, StreamStates
    <2>2. Due' \subseteq Due
        BY <1>t, <1>5 DEF Accept, udpVars, Due
    <2> QED
        BY <1>free, <2>1, <2>2
<1>6. ASSUME NEW s \in Streams, NEW q \in Queries, StreamOverRate(s, q) \/ StreamLocal(s, q)
      PROVE  PaidInv'
    <2>0. /\ udp[q] = "unsent" /\ udp' = [udp EXCEPT ![q] = "tcp"] /\ UNCHANGED asked
          /\ stream' = [stream EXCEPT ![s] = "closed"] \/ stream' = [stream EXCEPT ![s] = "read"]
          /\ current' = [current EXCEPT ![s] = "none"]
          /\ taken' \in {taken, taken + 1}
        BY <1>6 DEF StreamOverRate, StreamLocal, Answer, Close, Take, TakeFails
    <2>1. Others
        BY <1>t, <2>0 DEF UdpStates, StreamStates
    <2>2. Due' \subseteq Due
        BY <1>t, <2>0 DEF Due
    <2> QED
        BY <1>free, <2>0, <2>1, <2>2
<1>7. ASSUME NEW s \in Streams, NEW q \in Queries, StreamQuery(s, q) PROVE PaidInv'
    <2>1. Others /\ taken' = taken + 1
        BY <1>t, <1>7 DEF StreamQuery, Take, UdpStates, StreamStates
    <2>2. Due' \subseteq Due \cup {q}
        BY <1>t, <1>7 DEF StreamQuery, Due
    <2> QED
        BY <1>paid, <2>1, <2>2
<1>8. ASSUME NEW s \in Streams, StreamAsk(s) PROVE PaidInv'
    <2>1. Others /\ taken' = taken
        BY <1>t, <1>8 DEF StreamAsk, bucketVars, udpVars, StreamStates
    <2>2. Due' \subseteq Due
        BY <1>t, <1>8 DEF StreamAsk, udpVars, Due
    <2> QED
        BY <1>free, <2>1, <2>2
<1>9. ASSUME NEW s \in Streams, StreamReply(s) \/ GuestGone(s) \/ ResolverGone(s) PROVE PaidInv'
    <2>0. /\ UNCHANGED <<bucketVars, udpVars, asked>>
          /\ stream' = [stream EXCEPT ![s] = "closed"] \/ stream' = [stream EXCEPT ![s] = "read"]
          /\ current' = [current EXCEPT ![s] = "none"]
        BY <1>9 DEF StreamReply, GuestGone, ResolverGone, Answer, Close
    <2>1. Others /\ taken' = taken
        BY <1>t, <2>0 DEF bucketVars, udpVars, StreamStates
    <2>2. Due' \subseteq Due
        BY <1>t, <2>0 DEF udpVars, Due
    <2> QED
        BY <1>free, <2>1, <2>2
<1>10. CASE UNCHANGED <<taken, udp, stream, current, asked>>
    <2>1. Others /\ Due' = Due
        BY <1>t, <1>10 DEF Due
    <2> QED
        BY <1>free, <1>10, <2>1
<1>11. ASSUME NEW s \in Streams, NEW set \in Says, ResolverAnswers(s, set) PROVE PaidInv'
    BY <1>10, <1>11 DEF ResolverAnswers, bucketVars, udpVars
<1>12. CASE Tick \/ Measure \/ UNCHANGED vars
    BY <1>10, <1>12 DEF Tick, Measure, vars, bucketVars, udpVars, streamVars
<1> QED
    BY <1>1, <1>2, <1>3, <1>4, <1>5, <1>6, <1>7, <1>8, <1>9, <1>11, <1>12
    DEF Next, QueryStep, StreamStep

\* The resolver is asked no more queries than tokens were spent, whichever of
\* them are dropped, refused or given up, and none that the unit answers
\* itself (forwardDNS, relayQuery, relayStream).
THEOREM ResolverIsPaid == Spec => []AskedIsPaid
<1>1. PaidInv => AskedIsPaid
    <2> SUFFICES ASSUME PaidInv PROVE AskedIsPaid
        OBVIOUS
    <2>1. asked \subseteq Due /\ IsFiniteSet(Due) /\ Cardinality(Due) =< taken /\ taken \in Nat
        BY DEF PaidInv, Due
    <2>2. Cardinality(asked) =< Cardinality(Due) /\ Cardinality(asked) \in Nat /\ Cardinality(Due) \in Nat
        BY <2>1, FS_Subset, FS_CardinalityType
    <2>3. \A q \in asked : ClassOf[q] \in {"name", "malformed"}
        BY QueryAssumption DEF PaidInv, Local, Classes
    <2> QED
        BY <2>1, <2>2, <2>3 DEF AskedIsPaid
<1> QED
    BY <1>1, PaidInit, PaidNext, PTL DEF Spec

-----------------------------------------------------------------------------
(* Types *)

\* The rest of the types, beside those of the invariants above.
WordInv ==
    /\ \A q \in Queries : answer[q] \in Answers
    /\ \A s \in Streams : current[s] \in Queries \cup {"none"}

LEMMA RepliesAreAnswers ==
    ASSUME NEW q \in Queries, NEW set \in Says
    PROVE  /\ Reply(q, set) \in Answers /\ Screened(q, Reply(q, set)) \in Answers
           /\ Refusal(q) \in Answers /\ LocalAnswer(q) \in Answers
<1>1. /\ Reply(q, set) \in Answers /\ NoAnswer \in Answers /\ Refused \in Answers
      /\ Empty \in Answers
    BY SaysAssumption DEF Answers
<1>2. Refusal(q) \in Answers /\ LocalAnswer(q) \in Answers
    BY <1>1 DEF Refusal, LocalAnswer
<1> QED
    BY <1>1, <1>2 DEF Screened

LEMMA OwnAnswersAreAnswers ==
    ASSUME NEW q \in Queries
    PROVE  Refusal(q) \in Answers /\ LocalAnswer(q) \in Answers
BY DEF Answers, Refusal, LocalAnswer

LEMMA WordNext == WordInv /\ FitInv /\ [Next]_vars => WordInv'
<1> SUFFICES ASSUME WordInv, FitInv, [Next]_vars PROVE WordInv'
    OBVIOUS
<1>t. DOMAIN current = Streams /\ DOMAIN answer = Queries
    BY DEF FitInv, AnswerType
<1>same. UNCHANGED <<answer, current>> => WordInv'
    BY DEF WordInv
<1>told. ASSUME NEW q \in Queries, NEW what \in Answers, Tell(q, what), UNCHANGED current
         PROVE  WordInv'
    BY <1>t, <1>told DEF WordInv, Tell
\* A stream that answers, closes or reads on has no query.
<1>over. ASSUME NEW s \in Streams, current' = [current EXCEPT ![s] = "none"],
                UNCHANGED answer \/ \E q \in Queries, what \in Answers : Tell(q, what)
         PROVE  WordInv'
    BY <1>t, <1>over DEF WordInv, Tell
<1>1. ASSUME NEW q \in Queries, UdpQuery(q) \/ UdpOverRate(q) \/ UdpAsk(q) \/ UdpGivesUp(q)
      PROVE  WordInv'
    BY <1>1, <1>same DEF UdpQuery, UdpOverRate, UdpAsk, UdpGivesUp, streamVars
<1>2. ASSUME NEW q \in Queries, UdpLocal(q) PROVE WordInv'
    BY <1>2, <1>told, OwnAnswersAreAnswers DEF UdpLocal, streamVars
<1>3. ASSUME NEW q \in Queries, NEW set \in Says, UdpReply(q, Reply(q, set)) PROVE WordInv'
    BY <1>3, <1>told, RepliesAreAnswers DEF UdpReply, streamVars
<1>4. ASSUME NEW s \in Streams, Accept(s) PROVE WordInv'
    BY <1>4, <1>same DEF Accept
<1>5. ASSUME NEW s \in Streams, NEW q \in Queries, StreamOverRate(s, q) \/ StreamLocal(s, q)
      PROVE  WordInv'
    <2>1. /\ current' = [current EXCEPT ![s] = "none"]
          /\ Tell(q, Refusal(q)) \/ Tell(q, LocalAnswer(q))
        BY <1>5 DEF StreamOverRate, StreamLocal, Answer, Close
    <2> QED
        BY <1>over, <2>1, OwnAnswersAreAnswers
<1>6. ASSUME NEW s \in Streams, NEW q \in Queries, StreamQuery(s, q) PROVE WordInv'
    BY <1>t, <1>6 DEF StreamQuery, WordInv
<1>7. ASSUME NEW s \in Streams, StreamAsk(s) PROVE WordInv'
    BY <1>7, <1>same DEF StreamAsk
<1>8. ASSUME NEW s \in Streams, StreamReply(s) PROVE WordInv'
    <2>1. current[s] \in Queries
        BY <1>8 DEF FitInv, OneUnderWay, StreamReply
    <2>2. PICK set \in Says : inbox[s] = <<Reply(current[s], set)>>
        BY <1>8 DEF FitInv, OneUnderWay, StreamReply
    <2>3. Head(inbox[s]) = Reply(current[s], set)
        BY <2>2
    <2>4. /\ current' = [current EXCEPT ![s] = "none"]
          /\ Tell(current[s], Screened(current[s], Reply(current[s], set)))
        BY <1>8, <2>3 DEF StreamReply, Answer, Close
    <2> QED
        BY <1>over, <2>1, <2>4, RepliesAreAnswers
<1>9. ASSUME NEW s \in Streams, GuestGone(s) \/ ResolverGone(s) PROVE WordInv'
    BY <1>9, <1>over DEF GuestGone, ResolverGone, Close
<1>10. ASSUME NEW s \in Streams, NEW set \in Says, ResolverAnswers(s, set) PROVE WordInv'
    BY <1>10, <1>same DEF ResolverAnswers
<1>11. CASE Tick \/ Measure \/ UNCHANGED vars
    BY <1>11, <1>same DEF Tick, Measure, vars, streamVars
<1> QED
    BY <1>1, <1>2, <1>3, <1>4, <1>5, <1>6, <1>7, <1>8, <1>9, <1>10, <1>11
    DEF Next, QueryStep, StreamStep

\* Every variable keeps its type; the bucket never holds more than the burst
\* and no slot is given back that was not taken.
THEOREM TypeCorrect == Spec => []TypeOK
<1>1. Init => WordInv
    BY DEF Init, WordInv, Answers
<1>2. RateInv /\ SlotInv /\ PaidInv /\ FitInv /\ WordInv => TypeOK
    <2> SUFFICES ASSUME RateInv, SlotInv, PaidInv, FitInv, WordInv PROVE TypeOK
        OBVIOUS
    <2>1. /\ now \in Nat /\ tokens \in 0 .. Burst /\ last \in 0 .. now /\ taken \in Nat
          /\ since \in 0 .. now /\ before \in Nat
        BY BucketAssumption DEF RateInv, RateType
    <2>2. slots \in Nat /\ streamSlots \in Nat
        BY FS_CardinalityType DEF SlotInv, Counts
    <2>3. ASSUME NEW s \in Streams
          PROVE  asking[s] \in Seq(Queries) /\ \A i \in DOMAIN inbox[s] : inbox[s][i] \in Answers
        <3>1. asking[s] \in Seq(Queries)
            <4>1. asking[s] = <<>> \/ \E q \in Queries : asking[s] = <<q>>
                BY DEF FitInv, OneUnderWay
            <4>2. <<>> \in Seq(Queries) /\ \A q \in Queries : <<q>> \in Seq(Queries)
                OBVIOUS
            <4> QED
                BY <4>1, <4>2
        <3>2. inbox[s] = <<>> \/ \E q \in Queries, set \in Says : inbox[s] = <<Reply(q, set)>>
            BY DEF FitInv, OneUnderWay
        <3> QED
            BY <3>1, <3>2, RepliesAreAnswers
    <2> QED
        BY <2>1, <2>2, <2>3 DEF SlotInv, PaidInv, FitInv, WordInv, TypeOK
<1> QED
    BY <1>1, <1>2, RateInit, RateNext, SlotInit, SlotNext, PaidInit, PaidNext,
       FitInit, FitNext, WordNext, PTL DEF Spec
=============================================================================
