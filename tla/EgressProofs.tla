---------------------------- MODULE EgressProofs ----------------------------
(* Proofs about Egress, for every configuration, every set of hellos and    *)
(* every bound.                                                             *)
EXTENDS Egress, SequenceTheorems, WellFoundedInduction, TLAPS

-----------------------------------------------------------------------------
(* Types *)

\* TypeOK, with the streams as sequences.
Types ==
    /\ TypeOK
    /\ sent \in [Sides -> Seq(Records)] /\ got \in [Sides -> Seq(Nat)]
    /\ taken \in [Sides -> Nat] /\ todo \in Seq(Addresses)

\* What a side's peer has had of its stream, as the goroutine counts it: the
\* records read off the socket but for those still to replay.
Delivered(side) == taken[side] - (IF side = "guest" THEN replay ELSE 0)

\* The replay is the end of what was read off the guest's socket; while the
\* hello is read it is all of it.
Replaying ==
    /\ raw =< taken["guest"]
    /\ replay > 0 => raw = taken["guest"]
    /\ pc = "reading" => raw = taken["guest"] /\ replay = raw

\* Each record is delivered once and in order, to the one reader there is.
Streams ==
    \A s \in Sides : Len(got[Other(s)]) = Delivered(s)

\* An address to dial is one the unit may dial; what is dialled is granted.
Dialling ==
    /\ \A i \in DOMAIN todo : Public(todo[i])
    /\ pc = "dialling" => todo # <<>>
    /\ pc \in {"resolving", "dialling", "spliced"} => verdict = "allow"
    /\ pc \in {"reading", "handover", "terminated", "resolving", "dialling"} =>
         at = Nowhere /\ \A s \in Sides : ~closed[s]
    /\ pc = "reading" => verdict = "none"
    /\ pc = "spliced" => at # Nowhere

\* A side whose stream is at its end, all of it delivered.
Drained(s) ==
    /\ fin[s] /\ taken[s] = Len(sent[s])
    /\ s = "guest" => replay = 0

\* A splice nobody broke keeps its sockets until both copies are through, and
\* a copy is through when its side is drained.
Splicing ==
    /\ at = Nowhere \/ pc = "over" => copying = {}
    /\ (at # Nowhere /\ \A s \in Sides : ~rst[s]) =>
         /\ pc = "spliced" => \A s \in Sides : ~closed[s]
         /\ \A s \in Sides \ copying : Drained(s)

ConnectionInv ==
    Types /\ Replaying /\ Streams /\ InOrder /\ Dialling /\ NeverInside /\ Splicing

-----------------------------------------------------------------------------
(* Types are kept *)

LEMMA SidesAre == "guest" \in Sides /\ "upstream" \in Sides /\ \A s \in Sides : Other(s) \in Sides
BY DEF Sides, Other

LEMMA PublicSeqs == \A s \in PublicAddresses : s \in Seq(Addresses) /\ \A i \in DOMAIN s : Public(s[i])
BY BoundAssumption DEF PublicAddresses, BoundedSeq, SeqOf

\* A record delivered is one its peer sent.
LEMMA DeliverTypes ==
    ASSUME ConnectionInv, NEW s \in Sides, Available(s), Deliver(s),
           UNCHANGED <<hello, verdict, raw, sent, fin, rst, eof, closed, copying, todo, at>>, pc' \in PCs
    PROVE  Types'
<1>1. NextOf(s) \in 1 .. Len(sent[s]) /\ NextOf(s) \in Nat
    BY DEF ConnectionInv, Types, TypeOK, Replaying, NextOf, Available, Readable, Sides
<1>2. /\ taken' \in [Sides -> Nat] /\ \A x \in Sides : taken'[x] \in 0 .. Len(sent'[x])
      /\ replay' \in 0 .. raw'
    BY DEF ConnectionInv, Types, TypeOK, Deliver, Advance, Available, Readable, Sides
<1>3. got' = [got EXCEPT ![Other(s)] = Append(got[Other(s)], NextOf(s))]
    BY DEF Deliver
<1>4. got' \in [Sides -> Seq(Nat)]
    BY <1>1, <1>3, SidesAre DEF ConnectionInv, Types
<1>5. \A x \in Sides : \A i \in DOMAIN got'[x] : got'[x][i] \in 1 .. Len(sent'[Other(x)])
    <2> SUFFICES ASSUME NEW x \in Sides, NEW i \in DOMAIN got'[x]
                 PROVE  got'[x][i] \in 1 .. Len(sent[Other(x)])
        OBVIOUS
    <2>1. CASE x # Other(s)
        BY <1>3, <2>1 DEF ConnectionInv, Types, TypeOK
    <2>2. CASE x = Other(s)
        <3>1. got[x] \in Seq(Nat) /\ got'[x] = Append(got[x], NextOf(s)) /\ Other(x) = s
            BY <1>3, <2>2, SidesAre DEF ConnectionInv, Types, Sides, Other
        <3>2. i = Len(got[x]) + 1 \/ i \in DOMAIN got[x]
            BY <1>1, <3>1
        <3> QED
            BY <1>1, <3>1, <3>2 DEF ConnectionInv, Types, TypeOK
    <2> QED
        BY <2>1, <2>2
<1> QED
    BY <1>2, <1>4, <1>5 DEF ConnectionInv, Types, TypeOK

LEMMA InvInit == Init => ConnectionInv
<1> SUFFICES ASSUME Init PROVE ConnectionInv
    OBVIOUS
<1>1. Types
    BY DEF Init, Types, TypeOK, PCs, Sides
<1> QED
    BY <1>1 DEF Init, ConnectionInv, Replaying, Streams, InOrder, Dialling, NeverInside, Splicing,
                Delivered, Sides, Other, Nowhere

\* Steps that leave the streams alone.
LEMMA StillTypes ==
    ASSUME ConnectionInv, UNCHANGED <<hello, raw, replay, sent, taken, got>>, pc' \in PCs,
           verdict' \in {"none", "unreadable", "deny", "intercept", "allow"},
           \A f \in {fin', rst', eof', closed'} : f \in [Sides -> BOOLEAN],
           copying' \subseteq Sides, todo' \in Seq(Addresses), at' \in Addresses \cup {Nowhere}
    PROVE  Types'
<1>1. \A i \in DOMAIN todo' : todo'[i] \in Addresses
    OBVIOUS
<1> QED
    BY <1>1 DEF ConnectionInv, Types, TypeOK

LEMMA TypesNext == ConnectionInv /\ [Next]_vars => Types'
<1> SUFFICES ASSUME ConnectionInv, [Next]_vars PROVE Types'
    OBVIOUS
<1> USE SidesAre DEF PCs
<1>f. \A f \in {fin, rst, eof, closed} : f \in [Sides -> BOOLEAN]
    BY DEF ConnectionInv, Types, TypeOK
<1>t. /\ pc \in PCs /\ verdict \in {"none", "unreadable", "deny", "intercept", "allow"}
      /\ copying \subseteq Sides /\ todo \in Seq(Addresses) /\ at \in Addresses \cup {Nowhere}
    BY DEF ConnectionInv, Types, TypeOK
<1>c. Close => closed' \in [Sides -> BOOLEAN]
    BY DEF Close
<1>1. CASE ReadRecord
    <2>1. verdict' \in {"none", "unreadable", "deny", "intercept", "allow"} /\ pc' \in PCs
          /\ closed' \in [Sides -> BOOLEAN]
        BY <1>1, <1>t, <1>f, <1>c DEF ReadRecord, Refuse, Judged
    <2>2. /\ taken' = [taken EXCEPT !["guest"] = raw + 1] /\ raw' = raw + 1 /\ replay' = raw + 1
          /\ UNCHANGED <<hello, peerVars, got, eof, copying, dialVars>>
        BY <1>1 DEF ReadRecord
    <2>3. raw + 1 \in 0 .. Len(sent["guest"])
        BY <1>1 DEF ReadRecord, Readable, ConnectionInv, Types, TypeOK, Replaying
    <2> QED
        BY <2>1, <2>2, <2>3 DEF ConnectionInv, Types, TypeOK, peerVars, dialVars
<1>2. CASE HelloFails
    BY <1>2, <1>t, <1>f, <1>c, StillTypes DEF HelloFails, Refuse, peerVars, dialVars
<1>3. CASE Accept
    BY <1>3, <1>t, <1>f, StillTypes DEF Accept, peerVars, dialVars
<1>4. CASE TerminatorReads
    BY <1>4, <1>t, DeliverTypes DEF TerminatorReads, peerVars, dialVars
<1>5. CASE TerminatorCloses
    BY <1>5, <1>t, <1>f, <1>c, StillTypes DEF TerminatorCloses, peerVars, dialVars
<1>6. CASE Resolve
    BY <1>6, <1>t, <1>f, <1>c, StillTypes, PublicSeqs DEF Resolve, GivesUp, peerVars
<1>7. CASE Connects
    <2>1. todo # <<>>
        BY <1>7 DEF Connects, ConnectionInv, Dialling
    <2>2. at' \in Addresses /\ todo' \in Seq(Addresses)
        BY <1>7, <2>1, <1>t DEF Connects
    <2> QED
        BY <1>7, <2>2, <1>t, <1>f, StillTypes DEF Connects, peerVars
<1>8. CASE DialFails
    <2>1. todo # <<>>
        BY <1>8 DEF DialFails, ConnectionInv, Dialling
    <2>2. todo' \in Seq(Addresses)
        BY <1>8, <2>1, <1>t DEF DialFails
    <2> QED
        BY <1>8, <2>2, <1>t, <1>f, <1>c, StillTypes DEF DialFails, GivesUp, peerVars
<1>9. CASE SpliceReturns
    BY <1>9, <1>t, <1>f, <1>c, StillTypes DEF SpliceReturns, peerVars, dialVars
<1>10. ASSUME NEW s \in Sides, Copy(s) PROVE Types'
    BY <1>10, <1>t, DeliverTypes DEF Copy, peerVars, dialVars
<1>11. ASSUME NEW s \in Sides, CopyEnds(s) PROVE Types'
    BY <1>11, <1>t, <1>f, StillTypes DEF CopyEnds, peerVars, dialVars
<1>12. ASSUME NEW s \in Sides, CopyBreaks(s) PROVE Types'
    BY <1>12, <1>t, <1>f, <1>c, StillTypes DEF CopyBreaks, peerVars, dialVars
<1>13. ASSUME NEW s \in Sides, HalfCloses(s) PROVE Types'
    BY <1>13, <1>t, <1>f, StillTypes DEF HalfCloses, dialVars
<1>14. ASSUME NEW s \in Sides, Breaks(s) PROVE Types'
    BY <1>14, <1>t, <1>f, StillTypes DEF Breaks, dialVars
<1>15. ASSUME NEW s \in Sides, NEW record \in Records, Sends(s, record) PROVE Types'
    <2>1. /\ sent' = [sent EXCEPT ![s] = Append(sent[s], record)]
          /\ UNCHANGED <<hello, pc, verdict, raw, replay, fin, rst, taken, got, eof, closed, copying, todo, at>>
        BY <1>15 DEF Sends, dialVars
    <2>2. /\ sent' \in [Sides -> Seq(Records)]
          /\ \A x \in Sides : Len(sent[x]) =< Len(sent'[x]) /\ Len(sent'[x]) \in Nat
        BY <2>1 DEF ConnectionInv, Types
    <2>3. \A x \in Sides : \A i \in DOMAIN sent'[x] : sent'[x][i] \in Records
        BY <2>2
    <2>4. \A x \in Sides : Len(sent[x]) \in Nat
        BY DEF ConnectionInv, Types
    <2>5. \A x \in Sides : taken'[x] \in 0 .. Len(sent'[x])
        BY <2>1, <2>2, <2>4 DEF ConnectionInv, Types, TypeOK
    <2>6. \A x \in Sides : \A i \in DOMAIN got'[x] : got'[x][i] \in 1 .. Len(sent'[Other(x)])
        BY <2>1, <2>2, <2>4 DEF ConnectionInv, Types, TypeOK
    <2> QED
        BY <2>1, <2>2, <2>3, <2>5, <2>6 DEF ConnectionInv, Types, TypeOK
<1>16. CASE UNCHANGED vars
    BY <1>16, <1>t, <1>f, StillTypes DEF vars, peerVars, dialVars
<1> QED
    BY <1>1, <1>2, <1>3, <1>4, <1>5, <1>6, <1>7, <1>8, <1>9, <1>10, <1>11, <1>12, <1>13, <1>14,
       <1>15, <1>16 DEF Next, Route, CopyStep

-----------------------------------------------------------------------------
(* The streams *)

Ordered == Replaying /\ Streams /\ InOrder

\* A delivery hands the reader the record after the last it was handed.
LEMMA DeliverOrdered ==
    ASSUME ConnectionInv, NEW s \in Sides, Available(s), Deliver(s), raw' = raw, pc' # "reading"
    PROVE  Ordered'
<1> USE SidesAre
<1>1. NextOf(s) = Delivered(s) + 1 /\ Delivered(s) \in Nat
    BY DEF ConnectionInv, Types, TypeOK, Replaying, NextOf, Delivered, Sides
<1>2. Replaying'
    BY DEF ConnectionInv, Types, TypeOK, Replaying, Deliver, Advance, Available, Sides
<1>3. /\ got' = [got EXCEPT ![Other(s)] = Append(got[Other(s)], NextOf(s))]
      /\ Other(s) \in Sides /\ got[Other(s)] \in Seq(Nat) /\ NextOf(s) \in Nat
    BY <1>1 DEF Deliver, ConnectionInv, Types
<1>4. /\ got'[Other(s)] = Append(got[Other(s)], NextOf(s))
      /\ \A x \in Sides : x # Other(s) => got'[x] = got[x]
    BY <1>3 DEF ConnectionInv, Types
<1>5. \A x \in Sides : Delivered(x)' = IF x = s THEN Delivered(x) + 1 ELSE Delivered(x)
    BY DEF Delivered, Deliver, Advance, ConnectionInv, Types, TypeOK, Replaying, Sides
<1>6. Len(got[Other(s)]) = Delivered(s)
    BY DEF ConnectionInv, Streams
<1>7. Streams'
    <2> SUFFICES ASSUME NEW x \in Sides PROVE Len(got'[Other(x)]) = Delivered(x)'
        BY DEF Streams
    <2>1. CASE x = s
        BY <2>1, <1>3, <1>4, <1>5, <1>6
    <2>2. CASE x # s
        <3>1. Other(x) # Other(s)
            BY <2>2 DEF Other, Sides
        <3> QED
            BY <2>2, <3>1, <1>4, <1>5 DEF ConnectionInv, Streams
    <2> QED
        BY <2>1, <2>2
<1>8. InOrder'
    <2> SUFFICES ASSUME NEW x \in Sides, NEW i \in DOMAIN got'[x] PROVE got'[x][i] = i
        BY DEF InOrder
    <2>1. CASE x # Other(s)
        BY <2>1, <1>4 DEF ConnectionInv, InOrder
    <2>2. CASE x = Other(s)
        <3>1. i \in 1 .. Len(got[x]) + 1
            BY <2>2, <1>3, <1>4
        <3> QED
            BY <2>2, <3>1, <1>1, <1>3, <1>4, <1>6 DEF ConnectionInv, InOrder
    <2> QED
        BY <2>1, <2>2
<1> QED
    BY <1>2, <1>7, <1>8 DEF Ordered

LEMMA OrderNext == ConnectionInv /\ [Next]_vars => Ordered'
<1> SUFFICES ASSUME ConnectionInv, [Next]_vars PROVE Ordered'
    OBVIOUS
<1>same. UNCHANGED <<raw, replay, taken, got>> /\ (pc' = "reading" => pc = "reading") => Ordered'
    BY DEF ConnectionInv, Ordered, Replaying, Streams, InOrder, Delivered
<1>1. CASE ReadRecord
    <2>1. /\ taken' = [taken EXCEPT !["guest"] = raw + 1] /\ raw' = raw + 1 /\ replay' = raw + 1
          /\ got' = got /\ pc = "reading"
        BY <1>1 DEF ReadRecord
    <2>2. Replaying'
        BY <2>1, SidesAre DEF ConnectionInv, Types, TypeOK, Replaying
    <2>3. \A s \in Sides : Delivered(s)' = Delivered(s)
        BY <2>1, SidesAre DEF ConnectionInv, Types, TypeOK, Replaying, Delivered
    <2> QED
        BY <2>1, <2>2, <2>3 DEF ConnectionInv, Ordered, Streams, InOrder
<1>2. CASE TerminatorReads
    BY <1>2, SidesAre, DeliverOrdered DEF TerminatorReads
<1>3. ASSUME NEW s \in Sides, Copy(s) PROVE Ordered'
    <2>1. pc # "reading"
        BY <1>3 DEF Copy, ConnectionInv, Splicing, Dialling
    <2> QED
        BY <1>3, <2>1, DeliverOrdered DEF Copy
<1>4. CASE HelloFails \/ Accept \/ TerminatorCloses \/ Resolve \/ Connects \/ DialFails \/ SpliceReturns
    BY <1>4, <1>same
       DEF HelloFails, Refuse, Accept, TerminatorCloses, Resolve, GivesUp, Connects, DialFails, SpliceReturns
<1>5. ASSUME NEW s \in Sides, CopyEnds(s) \/ CopyBreaks(s) \/ HalfCloses(s) \/ Breaks(s) PROVE Ordered'
    BY <1>5, <1>same DEF CopyEnds, CopyBreaks, HalfCloses, Breaks
<1>6. ASSUME NEW s \in Sides, NEW record \in Records, Sends(s, record) PROVE Ordered'
    BY <1>6, <1>same DEF Sends
<1>7. CASE UNCHANGED vars
    BY <1>7, <1>same DEF vars
<1> QED
    BY <1>1, <1>2, <1>3, <1>4, <1>5, <1>6, <1>7 DEF Next, Route, CopyStep

-----------------------------------------------------------------------------
(* What is dialled *)

Dialled == Dialling /\ NeverInside

LEMMA DialNext == ConnectionInv /\ [Next]_vars => Dialled'
<1> SUFFICES ASSUME ConnectionInv, [Next]_vars PROVE Dialled'
    OBVIOUS
<1>same. UNCHANGED <<pc, verdict, todo, at, closed>> => Dialled'
    BY DEF ConnectionInv, Dialled, Dialling, NeverInside
<1>over. pc # "reading" /\ pc' = "over" /\ UNCHANGED <<verdict, at>> /\ (\A i \in DOMAIN todo' : Public(todo'[i]))
            => Dialled'
    BY DEF ConnectionInv, Dialled, Dialling, NeverInside
<1>p. \A i \in DOMAIN todo : Public(todo[i])
    BY DEF ConnectionInv, Dialling
<1>1. CASE ReadRecord
    <2>1. at' = at /\ todo' = todo /\ pc = "reading"
        BY <1>1 DEF ReadRecord, dialVars
    <2>2. /\ pc' \in {"reading", "over", "handover", "resolving"}
          /\ pc' = "reading" => verdict' = verdict
          /\ pc' = "resolving" => verdict' = "allow"
          /\ pc' # "over" => closed' = closed
        BY <1>1 DEF ReadRecord, Refuse, Judged
    <2> QED
        BY <2>1, <2>2, <1>p DEF ConnectionInv, Dialled, Dialling, NeverInside
<1>2. CASE HelloFails
    BY <1>2, <1>p DEF HelloFails, Refuse, dialVars, ConnectionInv, Dialled, Dialling, NeverInside
<1>3. CASE Accept
    BY <1>3, <1>p DEF Accept, dialVars, ConnectionInv, Dialled, Dialling, NeverInside
<1>4. CASE TerminatorReads
    BY <1>4, <1>same DEF TerminatorReads, dialVars
<1>5. CASE TerminatorCloses \/ SpliceReturns
    BY <1>5, <1>over, <1>p DEF TerminatorCloses, SpliceReturns, dialVars
<1>6. CASE Resolve
    <2>1. \A i \in DOMAIN todo' : Public(todo'[i])
        BY <1>6, PublicSeqs DEF Resolve
    <2> QED
        BY <1>6, <2>1, <1>over DEF Resolve, GivesUp, ConnectionInv, Dialled, Dialling, NeverInside
<1>7. CASE Connects
    <2>1. todo \in Seq(Addresses) /\ todo # <<>>
        BY <1>7 DEF Connects, ConnectionInv, Types, Dialling
    <2>2. Public(todo[1]) /\ todo[1] # "lan" /\ todo[1] \in Addresses
        BY <1>7, <2>1, <1>p DEF Connects
    <2>3. todo[1] \in {"public"} \cup (IF HostTLS THEN {"host"} ELSE {}) /\ todo[1] # Nowhere
        BY <2>2 DEF Public, Addresses, Nowhere
    <2> QED
        BY <1>7, <2>3 DEF Connects, ConnectionInv, Dialled, Dialling, NeverInside
<1>8. CASE DialFails
    <2>1. todo \in Seq(Addresses) /\ todo # <<>>
        BY <1>8 DEF DialFails, ConnectionInv, Types, Dialling
    <2>2. \A i \in DOMAIN todo' : Public(todo'[i])
        BY <1>8, <2>1, <1>p DEF DialFails
    <2> QED
        BY <1>8, <2>2, <1>over DEF DialFails, GivesUp, ConnectionInv, Dialled, Dialling, NeverInside
<1>9. ASSUME NEW s \in Sides, Copy(s) \/ CopyEnds(s) \/ HalfCloses(s) \/ Breaks(s) PROVE Dialled'
    BY <1>9, <1>same DEF Copy, CopyEnds, HalfCloses, Breaks, dialVars
<1>10. ASSUME NEW s \in Sides, CopyBreaks(s) PROVE Dialled'
    <2>1. at # Nowhere
        BY <1>10 DEF CopyBreaks, ConnectionInv, Splicing
    <2> QED
        BY <1>10, <2>1, <1>p DEF CopyBreaks, dialVars, ConnectionInv, Dialled, Dialling, NeverInside
<1>11. ASSUME NEW s \in Sides, NEW record \in Records, Sends(s, record) PROVE Dialled'
    BY <1>11, <1>same DEF Sends, dialVars
<1>12. CASE UNCHANGED vars
    BY <1>12, <1>same DEF vars, dialVars
<1> QED
    BY <1>1, <1>2, <1>3, <1>4, <1>5, <1>6, <1>7, <1>8, <1>9, <1>10, <1>11, <1>12 DEF Next, Route, CopyStep

-----------------------------------------------------------------------------
(* The splice *)

LEMMA SpliceNext == ConnectionInv /\ [Next]_vars => Splicing'
<1> SUFFICES ASSUME ConnectionInv, [Next]_vars PROVE Splicing'
    OBVIOUS
<1> USE SidesAre
<1>same. UNCHANGED <<pc, at, copying, rst, closed, fin, taken, sent, replay>> => Splicing'
    BY DEF ConnectionInv, Splicing, Drained
<1>away. at = Nowhere /\ at' = at /\ copying' = copying => Splicing'
    BY DEF ConnectionInv, Splicing
<1>at. pc \in {"reading", "handover", "terminated", "resolving", "dialling"} => at = Nowhere
    BY DEF ConnectionInv, Dialling
<1>1. CASE ReadRecord \/ HelloFails \/ Accept \/ TerminatorReads \/ TerminatorCloses \/ Resolve \/ DialFails
    BY <1>1, <1>away, <1>at
       DEF ReadRecord, HelloFails, Accept, TerminatorReads, TerminatorCloses, Resolve, DialFails, dialVars
<1>2. CASE Connects
    <2>1. todo \in Seq(Addresses) /\ todo # <<>>
        BY <1>2 DEF Connects, ConnectionInv, Types, Dialling
    <2>2. todo[1] # Nowhere
        BY <2>1 DEF Addresses, Nowhere
    <2> QED
        BY <1>2, <2>2 DEF Connects, ConnectionInv, Dialling, Splicing
<1>3. CASE SpliceReturns
    BY <1>3 DEF SpliceReturns, dialVars, peerVars, ConnectionInv, Splicing, Drained
<1>4. ASSUME NEW s \in Sides, Copy(s) PROVE Splicing'
    <2>1. /\ pc' = pc /\ closed' = closed /\ copying' = copying /\ s \in copying /\ rst' = rst /\ at' = at
          /\ fin' = fin /\ sent' = sent
        BY <1>4 DEF Copy, dialVars, peerVars
    <2>2. \A x \in Sides : Drained(x) /\ x # s => Drained(x)'
        BY <1>4, <2>1 DEF Copy, Deliver, Advance, Drained, ConnectionInv, Types, Sides
    <2> QED
        BY <2>1, <2>2 DEF ConnectionInv, Splicing
<1>5. ASSUME NEW s \in Sides, CopyEnds(s) PROVE Splicing'
    <2>1. /\ UNCHANGED <<pc, closed, rst, at, fin, sent, taken, replay>>
          /\ copying' = copying \ {s} /\ Drained(s) /\ s \in copying
        BY <1>5 DEF CopyEnds, AtEnd, Drained, dialVars, peerVars
    <2> QED
        BY <2>1 DEF ConnectionInv, Splicing, Drained
\* Only a broken connection ends a copy that is not drained.
<1>6. ASSUME NEW s \in Sides, CopyBreaks(s) PROVE Splicing'
    <2>1. UNCHANGED <<pc, rst, at>> /\ copying' = copying \ {s} /\ s \in copying
        BY <1>6 DEF CopyBreaks, dialVars, peerVars
    <2>2. at # Nowhere /\ pc = "spliced"
        BY <2>1 DEF ConnectionInv, Splicing, Types, TypeOK, PCs, Dialling
    <2>3. ~\A x \in Sides : ~rst[x]
        BY <1>6, <2>2 DEF CopyBreaks, Writable, ConnectionInv, Splicing
    <2> QED
        BY <2>1, <2>2, <2>3 DEF ConnectionInv, Splicing
<1>7. ASSUME NEW s \in Sides, HalfCloses(s) PROVE Splicing'
    <2>1. UNCHANGED <<pc, at, copying, rst, closed, taken, sent, replay>> /\ fin' = [fin EXCEPT ![s] = TRUE]
        BY <1>7 DEF HalfCloses, dialVars
    <2>2. \A x \in Sides : Drained(x) => Drained(x)'
        BY <2>1 DEF Drained, ConnectionInv, Types, TypeOK
    <2> QED
        BY <2>1, <2>2 DEF ConnectionInv, Splicing
<1>8. ASSUME NEW s \in Sides, Breaks(s) PROVE Splicing'
    <2>1. UNCHANGED <<at, copying, pc>> /\ rst'[s]
        BY <1>8 DEF Breaks, dialVars, ConnectionInv, Types, TypeOK
    <2> QED
        BY <2>1 DEF ConnectionInv, Splicing
<1>9. ASSUME NEW s \in Sides, NEW record \in Records, Sends(s, record) PROVE Splicing'
    <2>1. /\ UNCHANGED <<pc, at, copying, rst, closed, taken, fin, replay>> /\ ~fin[s]
          /\ sent' = [sent EXCEPT ![s] = Append(sent[s], record)]
        BY <1>9 DEF Sends, dialVars
    <2>2. \A x \in Sides : Drained(x) => Drained(x)'
        BY <2>1 DEF Drained, ConnectionInv, Types
    <2> QED
        BY <2>1, <2>2 DEF ConnectionInv, Splicing
<1>10. CASE UNCHANGED vars
    BY <1>10, <1>same DEF vars, dialVars, peerVars
<1> QED
    BY <1>1, <1>2, <1>3, <1>4, <1>5, <1>6, <1>7, <1>8, <1>9, <1>10 DEF Next, Route, CopyStep

LEMMA InvNext == ConnectionInv /\ [Next]_vars => ConnectionInv'
BY TypesNext, OrderNext, DialNext, SpliceNext DEF ConnectionInv, Ordered, Dialled

LEMMA Inductive == Spec => []ConnectionInv
BY InvInit, InvNext, PTL DEF Spec

-----------------------------------------------------------------------------
(* Theorems *)

\* Whoever serves a connection is handed its stream from the first byte, each
\* record once and in order: prefixed.Read gives back what the hello was read
\* from before it reads the socket again, for every way a hello is cut.
THEOREM StreamsInOrder == Spec => []InOrder
<1>1. ConnectionInv => InOrder
    BY DEF ConnectionInv
<1> QED
    BY <1>1, Inductive, PTL

\* copyStream's half closes lose nothing: a splice no peer broke is over only
\* when each side has all the other sent, however the two copies, the sends
\* and the ends of the directions are interleaved.
THEOREM EndsComplete == Spec => []EndIsComplete
<1>1. ConnectionInv => EndIsComplete
    <2> SUFFICES ASSUME ConnectionInv, pc = "over", at # Nowhere, ~rst["guest"], ~rst["upstream"],
                        NEW s \in Sides
                 PROVE  Len(got[Other(s)]) = Len(sent[s])
        BY DEF EndIsComplete
    <2>1. copying = {} /\ \A x \in Sides : ~rst[x]
        BY DEF ConnectionInv, Splicing, Sides
    <2>2. Drained(s)
        BY <2>1 DEF ConnectionInv, Splicing
    <2>3. Len(got[Other(s)]) = Delivered(s) /\ taken[s] \in Nat
        BY DEF ConnectionInv, Streams, Types
    <2> QED
        BY <2>2, <2>3 DEF Drained, Delivered
<1> QED
    BY <1>1, Inductive, PTL

\* publicAddresses keeps every splice off the subnet, loopback and 0.0.0.0/8,
\* and off the host without host:443, whatever the resolver answers, in which
\* order, and whichever dials fail; only an allowed name is spliced at all.
THEOREM StaysOutside == Spec => []NeverInside
<1>1. ConnectionInv => NeverInside
    BY DEF ConnectionInv
<1> QED
    BY <1>1, Inductive, PTL

-----------------------------------------------------------------------------
(* The verdict *)

NameRecords == [labels : Seq(STRING), capitals : BOOLEAN]
PatternRecords == [wild : BOOLEAN, name : NameRecords]

\* A set of numbers that is not empty has a least one.
LEMMA LeastNumber ==
    ASSUME NEW S \in SUBSET Nat, S # {}
    PROVE  Min(S) \in S
<1> DEFINE R == OpToRel(<, Nat)
<1>1. IsWellFoundedOn(R, Nat)
    BY NatLessThanWellFounded
<1>2. \A a, b \in Nat : a < b => <<a, b>> \in R
    BY DEF OpToRel
<1> HIDE DEF R
<1>3. PICK x \in S : \A y \in S : ~(<<y, x>> \in R)
    BY <1>1, WFMin
<1>4. \A y \in S : ~(y < x)
    BY <1>2, <1>3
<1>5. \A y \in S : x =< y
    BY <1>4
<1> QED
    BY <1>5 DEF Min

\* The name the hello is judged by is one of those in it.
LEMMA ServerNameIsName == \A h \in Hellos : ServerName(h) \in NameRecords
<1> SUFFICES ASSUME NEW h \in Hellos PROVE ServerName(h) \in NameRecords
    OBVIOUS
<1> DEFINE I == {i \in 1 .. Len(h.extensions) : h.extensions[i].type \in {"server_name", "short"}}
           first == IF I # {} THEN Min(I) ELSE 0
<1>1. ServerName(h) = IF h.client /\ first # 0 /\ h.extensions[first].type = "server_name"
                      THEN h.extensions[first].name ELSE NoName
    BY DEF ServerName, SelectInSeq
<1>2. h.extensions \in Seq([type : STRING, name : NameRecords])
    BY HelloAssumption DEF NameRecords
<1>3. first # 0 => first \in I
    <2>1. I \in SUBSET Nat
        BY <1>2
    <2> QED
        BY <2>1, LeastNumber
<1>4. NoName \in NameRecords
    BY DEF NoName, Name, NameRecords
<1> HIDE DEF first
<1>5. CASE h.client /\ first # 0 /\ h.extensions[first].type = "server_name"
    <2>1. first \in 1 .. Len(h.extensions)
        BY <1>3, <1>5
    <2>2. h.extensions[first] \in [type : STRING, name : NameRecords]
        BY <2>1, <1>2, ElementOfSeq
    <2> QED
        BY <2>2, <1>1, <1>5
<1> QED
    BY <1>1, <1>4, <1>5

\* IsStrictSuffix takes the labels from the end; a name is below a base when
\* the base is left after its first labels.
LEMMA SuffixIsBelow ==
    ASSUME NEW name \in NameRecords, NEW base \in NameRecords, base.labels # <<>>
    PROVE  IsStrictSuffix(base.labels, name.labels) <=> Below(name, base)
<1> DEFINE s == base.labels
           t == name.labels
<1>1. s \in Seq(STRING) /\ t \in Seq(STRING) /\ Len(s) \in Nat \ {0} /\ Len(t) \in Nat
    BY DEF NameRecords
<1> HIDE DEF s, t
<1>2. ASSUME NEW k \in 1 .. Len(t) - 1
      PROVE  /\ SubSeq(t, k + 1, Len(t)) \in Seq(STRING)
             /\ Len(SubSeq(t, k + 1, Len(t))) = Len(t) - k
             /\ \A i \in 1 .. Len(t) - k : SubSeq(t, k + 1, Len(t))[i] = t[k + i]
    BY <1>1
<1>3. ASSUME NEW q \in Seq(STRING)
      PROVE  /\ Len(Reverse(q)) = Len(q) /\ DOMAIN Reverse(q) = 1 .. Len(q)
             /\ Reverse(q) \in Seq(STRING)
             /\ \A i \in 1 .. Len(q) : Reverse(q)[i] = q[Len(q) - i + 1]
    BY DEF Reverse
<1>4. IsPrefix(Reverse(s), Reverse(t)) <=>
        /\ Len(s) =< Len(t)
        /\ \A i \in 1 .. Len(s) : Reverse(s)[i] = Reverse(t)[i]
    <2>1. SubSeq(Reverse(s), 1, Len(s)) \in Seq(STRING) /\ Len(SubSeq(Reverse(s), 1, Len(s))) = Len(s)
          /\ \A i \in 1 .. Len(s) : SubSeq(Reverse(s), 1, Len(s))[i] = Reverse(s)[i]
        BY <1>1, <1>3
    <2>2. CASE Len(s) =< Len(t)
        <3>1. SubSeq(Reverse(t), 1, Len(s)) \in Seq(STRING) /\ Len(SubSeq(Reverse(t), 1, Len(s))) = Len(s)
              /\ \A i \in 1 .. Len(s) : SubSeq(Reverse(t), 1, Len(s))[i] = Reverse(t)[i]
            BY <2>2, <1>1, <1>3
        <3> DEFINE a == SubSeq(Reverse(s), 1, Len(s))
                   b == SubSeq(Reverse(t), 1, Len(s))
        <3> HIDE DEF a, b
        <3>2. a = b <=> \A i \in 1 .. Len(s) : a[i] = b[i]
            BY <2>1, <3>1, <1>1, SeqEqual DEF a, b
        <3> QED
            BY <2>1, <2>2, <3>1, <3>2, <1>1, <1>3 DEF IsPrefix, a, b
    <2> QED
        BY <1>1, <1>3, <2>2 DEF IsPrefix
<1>5. (\A i \in 1 .. Len(s) : Reverse(s)[i] = Reverse(t)[i]) /\ Len(s) =< Len(t) <=>
      (\A i \in 1 .. Len(s) : s[i] = t[Len(t) - Len(s) + i]) /\ Len(s) =< Len(t)
    <2>1. \A i \in 1 .. Len(s) : Len(s) - i + 1 \in 1 .. Len(s) /\ Len(s) - (Len(s) - i + 1) + 1 = i
        BY <1>1
    <2>2. \A i \in 1 .. Len(s) : Reverse(s)[i] = s[Len(s) - i + 1]
        BY <1>1, <1>3
    <2>3. Len(s) =< Len(t) => \A i \in 1 .. Len(s) : Reverse(t)[i] = t[Len(t) - i + 1]
        BY <1>1, <1>3
    <2>4. \A i \in 1 .. Len(s) : Len(t) - Len(s) + (Len(s) - i + 1) = Len(t) - i + 1
        BY <1>1
    <2>5. ASSUME Len(s) =< Len(t), \A i \in 1 .. Len(s) : Reverse(s)[i] = Reverse(t)[i],
                 NEW i \in 1 .. Len(s)
          PROVE  s[i] = t[Len(t) - Len(s) + i]
        <3>1. PICK j \in 1 .. Len(s) : j = Len(s) - i + 1
            BY <2>1
        <3>2. Len(s) - j + 1 = i /\ Len(t) - j + 1 = Len(t) - Len(s) + i
            BY <3>1, <1>1
        <3> QED
            BY <3>2, <2>2, <2>3, <2>5
    <2>6. ASSUME Len(s) =< Len(t), \A i \in 1 .. Len(s) : s[i] = t[Len(t) - Len(s) + i],
                 NEW i \in 1 .. Len(s)
          PROVE  Reverse(s)[i] = Reverse(t)[i]
        <3>1. PICK j \in 1 .. Len(s) : j = Len(s) - i + 1
            BY <2>1
        <3>2. Len(t) - Len(s) + j = Len(t) - i + 1
            BY <3>1, <1>1
        <3> QED
            BY <3>1, <3>2, <2>2, <2>3, <2>6
    <2> QED
        BY <2>5, <2>6
<1>6. Below(name, base) <=> \E k \in 1 .. Len(t) - 1 : SubSeq(t, k + 1, Len(t)) = s
    BY DEF Below, s, t
<1>7. ASSUME NEW k \in 1 .. Len(t) - 1, SubSeq(t, k + 1, Len(t)) = s
      PROVE  Len(s) =< Len(t) /\ s # t /\ \A i \in 1 .. Len(s) : s[i] = t[Len(t) - Len(s) + i]
    <2>1. Len(s) = Len(t) - k /\ \A i \in 1 .. Len(t) - k : s[i] = t[k + i]
        BY <1>2, <1>7
    <2> QED
        BY <2>1, <1>1
<1>8. ASSUME Len(s) =< Len(t), s # t, \A i \in 1 .. Len(s) : s[i] = t[Len(t) - Len(s) + i]
      PROVE  \E k \in 1 .. Len(t) - 1 : SubSeq(t, k + 1, Len(t)) = s
    <2>1. Len(s) # Len(t)
        <3> SUFFICES ASSUME Len(s) = Len(t) PROVE FALSE
            OBVIOUS
        <3>1. \A i \in 1 .. Len(s) : s[i] = t[i]
            BY <1>8, <1>1
        <3> QED
            BY <3>1, <1>1, <1>8, SeqEqual
    <2>n. Len(t) - Len(s) \in 1 .. Len(t) - 1
        <3>1. Len(s) \in Nat /\ Len(t) \in Nat /\ Len(s) # 0 /\ Len(s) =< Len(t)
            BY <1>1, <1>8
        <3> QED
            BY <2>1, <3>1
    <2>2. PICK k \in 1 .. Len(t) - 1 : k = Len(t) - Len(s)
        BY <2>n
    <2>3. SubSeq(t, k + 1, Len(t)) = s
        <3> DEFINE u == SubSeq(t, k + 1, Len(t))
        <3>0. u \in Seq(STRING) /\ Len(u) = Len(t) - k /\ \A i \in 1 .. Len(t) - k : u[i] = t[k + i]
            BY <1>2
        <3>1. u \in Seq(STRING) /\ Len(u) = Len(s) /\ \A i \in 1 .. Len(s) : u[i] = s[i]
            <4> HIDE DEF u
            <4> QED
                BY <3>0, <2>2, <1>1, <1>8
        <3> HIDE DEF u
        <3>2. u = s
            BY <3>1, <1>1, SeqEqual
        <3> QED
            BY <3>2 DEF u
    <2> QED
        BY <2>3
<1>9. IsStrictSuffix(s, t) <=> Len(s) =< Len(t) /\ s # t /\ \A i \in 1 .. Len(s) : s[i] = t[Len(t) - Len(s) + i]
    BY <1>4, <1>5 DEF IsStrictSuffix, IsSuffix
<1> QED
    BY <1>6, <1>7, <1>8, <1>9 DEF s, t

LEMMA CoversFits ==
    ASSUME NEW pattern \in Domains \cup Denied, NEW name \in NameRecords
    PROVE  Covers(pattern, name) <=> Fits(pattern, name)
<1>1. /\ pattern \in [wild : BOOLEAN, name : [labels : Seq(STRING) \ {<<>>}, capitals : BOOLEAN]]
      /\ pattern.name \in NameRecords /\ pattern.name.labels # <<>>
    BY PatternAssumption DEF NameRecords
<1>2. \A n \in NameRecords : /\ ToLower(n) = [labels |-> n.labels, capitals |-> FALSE]
                             /\ ToLower(n).labels = n.labels
    BY DEF ToLower, Name
<1>3. ToLower(name) = ToLower(pattern.name) <=> name.labels = pattern.name.labels
    BY <1>1, <1>2
<1>4. IsStrictSuffix(pattern.name.labels, name.labels) <=> Below(name, pattern.name)
    BY <1>1, SuffixIsBelow
<1> QED
    BY <1>1, <1>2, <1>3, <1>4 DEF Covers, Fits

\* The verdict of route, as the configuration reads.
LEMMA JudgedAsRead ==
    ASSUME NEW name \in NameRecords
    PROVE  LET credential == \E domain \in Intercepted : domain.labels = name.labels
               granted == /\ \E pattern \in Domains : Fits(pattern, name)
                          /\ ~\E pattern \in Denied : Fits(pattern, name)
               judged == Judged(Intercepted, Domains, Denied, name)
           IN  /\ judged = "intercept" <=> credential
               /\ judged = "allow" <=> (granted /\ ~credential)
<1>1. ToLower(name) \in Intercepted <=> \E domain \in Intercepted : domain.labels = name.labels
    <2>1. ToLower(name) = Name(name.labels) /\ \A labels : Name(labels).labels = labels
        BY DEF ToLower, Name
    <2> QED
        BY <2>1, PatternAssumption
<1>2. AllowedName(Domains, Denied, name) <=>
        /\ \E pattern \in Domains : Fits(pattern, name)
        /\ ~\E pattern \in Denied : Fits(pattern, name)
    BY CoversFits DEF AllowedName, MatchesAny
<1> QED
    BY <1>1, <1>2 DEF Judged

\* A verdict was reached on the whole hello and stays.
Routed ==
    verdict \in {"intercept", "allow", "deny"} =>
        /\ ServerName(hello) # NoName /\ Gathered(raw) >= hello.size
        /\ verdict = Judged(Intercepted, Domains, Denied, ServerName(hello))

LEMMA GatheredStays ==
    ASSUME NEW s \in Seq(Records), NEW record \in Records, NEW n \in 0 .. Len(s)
    PROVE  SubSeq(Append(s, record), 1, n) = SubSeq(s, 1, n)
<1>1. Append(s, record) \in Seq(Records) /\ Len(Append(s, record)) = Len(s) + 1
      /\ \A i \in 1 .. Len(s) : Append(s, record)[i] = s[i]
    BY AppendProperties
<1>2. SubSeq(s, 1, n) \in Seq(Records) /\ Len(SubSeq(s, 1, n)) = n
      /\ \A i \in 1 .. n : SubSeq(s, 1, n)[i] = s[i]
    OBVIOUS
<1>3. SubSeq(Append(s, record), 1, n) \in Seq(Records) /\ Len(SubSeq(Append(s, record), 1, n)) = n
      /\ \A i \in 1 .. n : SubSeq(Append(s, record), 1, n)[i] = s[i]
    BY <1>1
<1> QED
    BY <1>2, <1>3, SeqEqual

LEMMA RoutedNext == ConnectionInv /\ Routed /\ [Next]_vars => Routed'
<1> SUFFICES ASSUME ConnectionInv, Routed, [Next]_vars PROVE Routed'
    OBVIOUS
<1>same. UNCHANGED <<hello, verdict, raw>> /\ sent'["guest"] = sent["guest"] => Routed'
    BY DEF Routed, Gathered
<1>1. CASE ReadRecord
    <2> DEFINE name == ServerName(hello)
               judged == Judged(Intercepted, Domains, Denied, name)
    <2> HIDE DEF judged, name
    <2>1. /\ raw' = raw + 1 /\ hello' = hello /\ sent' = sent /\ pc = "reading"
          /\ \/ verdict' = "unreadable" \/ verdict' = verdict
             \/ HelloDone(raw + 1) /\ name # NoName /\ verdict' = judged
        BY <1>1 DEF ReadRecord, Refuse, peerVars, name, judged
    <2>2. verdict = "none"
        BY <2>1 DEF ConnectionInv, Dialling
    <2>3. HelloDone(raw + 1) => Gathered(raw)' >= hello.size
        BY <2>1 DEF HelloDone, Gathered
    <2> QED
        BY <2>1, <2>2, <2>3 DEF Routed, name, judged
<1>2. CASE HelloFails
    BY <1>2 DEF HelloFails, Refuse, Routed
<1>3. CASE Accept \/ TerminatorReads \/ TerminatorCloses \/ Resolve \/ Connects \/ DialFails \/ SpliceReturns
    BY <1>3, <1>same
       DEF Accept, TerminatorReads, TerminatorCloses, Resolve, Connects, DialFails, SpliceReturns, peerVars
<1>4. ASSUME NEW s \in Sides, Copy(s) \/ CopyEnds(s) \/ CopyBreaks(s) \/ HalfCloses(s) \/ Breaks(s)
      PROVE  Routed'
    BY <1>4, <1>same DEF Copy, CopyEnds, CopyBreaks, HalfCloses, Breaks, peerVars
<1>5. ASSUME NEW s \in Sides, NEW record \in Records, Sends(s, record) PROVE Routed'
    <2>1. sent["guest"] \in Seq(Records) /\ raw \in 0 .. Len(sent["guest"])
        BY SidesAre DEF ConnectionInv, Types, TypeOK, Replaying
    <2>2. sent'["guest"] \in {sent["guest"], Append(sent["guest"], record)}
        BY <1>5, SidesAre DEF Sends, ConnectionInv, Types
    <2>3. SubSeq(sent'["guest"], 1, raw) = SubSeq(sent["guest"], 1, raw)
        BY <2>1, <2>2, GatheredStays
    <2>4. hello' = hello /\ verdict' = verdict /\ raw' = raw
        BY <1>5 DEF Sends
    <2> QED
        BY <2>3, <2>4 DEF Routed, Gathered
<1>6. CASE UNCHANGED vars
    BY <1>6, <1>same DEF vars, peerVars
<1> QED
    BY <1>1, <1>2, <1>3, <1>4, <1>5, <1>6 DEF Next, Route, CopyStep

\* A connection goes where the server name of the whole hello says, however
\* its records cut it and however the name is spelt: to the proxy exactly for
\* a credential's domain, to the internet exactly for a granted name nothing
\* denies, for every set of patterns.
THEOREM RouteFollowsName == Spec => []RoutedByName
<1>1. Init => Routed
    BY DEF Init, Routed
<1>2. ConnectionInv /\ Routed => RoutedByName
    <2> SUFFICES ASSUME ConnectionInv, Routed PROVE RoutedByName
        OBVIOUS
    <2>1. ServerName(hello) \in NameRecords
        BY ServerNameIsName DEF ConnectionInv, Types, TypeOK
    <2> QED
        BY <2>1, JudgedAsRead DEF Routed, RoutedByName
<1> QED
    BY <1>1, <1>2, RoutedNext, Inductive, PTL DEF Spec
=============================================================================
