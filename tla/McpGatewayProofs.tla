-------------------------- MODULE McpGatewayProofs --------------------------
(* Proofs about McpSessions and McpGateway, for every set of sandboxes,    *)
(* clients and requests and every window and limit.                        *)
EXTENDS McpGateway, FiniteSetTheorems, SequenceTheorems, TLAPS

-----------------------------------------------------------------------------
(* The pool *)

Live == {"opening", "ready", "dead"}
Over == {"abandoned", "closing", "gone"}

\* The lock of a key is held by the request of that key that expires or opens
\* its session, and then the key has no session.
Locked ==
    /\ \A r \in Requests : pc[r] \in {"expire", "opening"} => lock[Key(r)] = r
    /\ \A k \in Principals : lock[k] # NoRequest =>
         Key(lock[k]) = k /\ pc[lock[k]] \in {"expire", "opening"} /\ entries[k] = NoSession

\* What a request waits for or calls on is a session of its own sandbox, and
\* so is the session of a key, which was not released.
Keyed ==
    /\ \A r \in Requests :
         /\ pc[r] \in {"expire", "opening", "calling"} => using[r] # NoSession
         /\ using[r] # NoSession => sessions[using[r]].key = Key(r)
    /\ \A k \in Principals : entries[k] # NoSession =>
         sessions[entries[k]].key = k /\ sessions[entries[k]].state \in {"ready", "dead"}

\* No one calls on a session that another is still opening.
NotYetCalled ==
    \A q, r \in Requests : pc[q] = "opening" /\ pc[r] = "calling" => using[q] # using[r]

\* The session the last attempt failed on was released.
FailedOver ==
    \A r \in Requests : attempt[r] > 0 =>
        failed[r] # NoSession /\ sessions[failed[r]].state \in Over

\* A request that waits for a release waits for a session that was released;
\* one that has not begun, or was answered, holds none.
Waiting ==
    \A q \in Requests :
        /\ pc[q] \in {"acquire", "done", "error"} => using[q] = NoSession
        /\ (pc[q] \in {"expire", "discard"} /\ using[q] # NoSession) => sessions[using[q]].state \in Over

\* The session a cancelled request left behind is no key's and no other's.
Lost(i) == \E q \in Requests : pc[q] = "cancelled" /\ using[q] = i
Left ==
    \A q \in Requests : (pc[q] = "cancelled" /\ using[q] # NoSession) =>
        /\ sessions[using[q]].state \in {"ready", "dead"}
        /\ \A k \in Principals : entries[k] # using[q]
        /\ \A r \in Requests \ {q} : using[r] # using[q]

\* A session that was not released is the session of its key, or the holder
\* of the key's lock opens it, or it was left behind.
HeldAt(i, k) ==
    \/ entries[k] = i
    \/ entries[k] = NoSession /\ lock[k] # NoRequest /\ pc[lock[k]] = "opening" /\ using[lock[k]] = i
Owned == \A i \in Ids : sessions[i].state \in Live => HeldAt(i, sessions[i].key) \/ Lost(i)

\* The attempts behind a request, and how often it was put to the backend.
Counted(r) ==
    /\ pc[r] \in {"acquire", "expire", "opening"} => sent[r] =< attempt[r]
    /\ pc[r] \in {"acquire", "expire", "opening", "calling"} => attempt[r] < Attempts(r)
    /\ pc[r] = "calling" => sent[r] =< attempt[r] + 1
    /\ sent[r] =< Attempts(r)
    /\ pc[r] = "discard" => sent[r] =< attempt[r]

PoolInv ==
    /\ TypeOK /\ deaths =< faults
    /\ Locked /\ Keyed /\ NotYetCalled /\ FailedOver /\ Waiting /\ Left /\ Owned
    /\ \A r \in Requests : Counted(r)
    /\ RetriedElsewhere

-----------------------------------------------------------------------------
(* The door *)

\* The slots of opening count the clients inside handle_request, and the
\* transports stay within the limit.
DoorInv ==
    /\ client \in [Clients -> ClientStates] /\ opening \in [Principals -> Nat]
    /\ \A p \in Principals :
         /\ IsFiniteSet(At(p, Registered \cup {"entered"}))
         /\ opening[p] = Cardinality(At(p, Opening))
    /\ WithinSessions
-----------------------------------------------------------------------------
(* Sessions *)

Session == [key : Principals, used : Nat, state : States]

\* One session changes, and keeps its key.
LEMMA OneChanges ==
    ASSUME sessions \in Seq(Session), NEW e \in Ids, NEW s \in Session,
           s.key = sessions[e].key, sessions' = [sessions EXCEPT ![e] = s]
    PROVE  /\ sessions' \in Seq(Session) /\ Ids' = Ids
           /\ sessions'[e] = s /\ \A i \in Ids \ {e} : sessions'[i] = sessions[i]
           /\ \A i \in Ids : sessions'[i].key = sessions[i].key
<1>1. e \in 1 .. Len(sessions)
    BY DEF Ids
<1>2. sessions' \in Seq(Session) /\ Len(sessions') = Len(sessions)
    BY <1>1, ExceptSeq
<1>3. Ids' = Ids
    BY <1>2 DEF Ids
<1> QED
    BY <1>2, <1>3 DEF Ids

\* A session is opened.
LEMMA OneMore ==
    ASSUME sessions \in Seq(Session), NEW s \in Session, sessions' = Append(sessions, s)
    PROVE  /\ sessions' \in Seq(Session)
           /\ Len(sessions) + 1 \notin Ids /\ Ids' = Ids \cup {Len(sessions) + 1}
           /\ sessions'[Len(sessions) + 1] = s /\ \A i \in Ids : sessions'[i] = sessions[i]
BY DEF Ids

LEMMA IdsAreNumbers ==
    ASSUME sessions \in Seq(Session)
    PROVE  NoSession \notin Ids /\ \A i \in Ids : sessions[i] \in Session
BY DEF Ids, NoSession

LEMMA ReleasedIsSession ==
    ASSUME NEW s \in Session
    PROVE  /\ Released(s) \in Session /\ Released(s).key = s.key
           /\ Released(s).state = IF s.state \in {"ready", "dead"} THEN "closing" ELSE s.state
BY DEF Released, Session, States

LEMMA StateChanged ==
    ASSUME NEW s \in Session, NEW state \in States
    PROVE  /\ [s EXCEPT !.state = state] \in Session
           /\ [s EXCEPT !.state = state].key = s.key /\ [s EXCEPT !.state = state].state = state
BY DEF Session

-----------------------------------------------------------------------------
(* The pool keeps its invariant *)

\* What was left behind stays so: a request that is cancelled takes no step.
LEMMA LostStays ==
    ASSUME NEW r \in Requests, pc[r] # "cancelled",
           \A q \in Requests \ {r} : pc'[q] = pc[q] /\ using'[q] = using[q]
    PROVE  \A i : Lost(i) => Lost(i)'
BY DEF Lost

LEMMA PoolStarts == Init => PoolInv
BY RequestAssumption, NumberAssumption
   DEF Init, PoolInv, TypeOK, Ids, Locked, Keyed, NotYetCalled, FailedOver, Waiting, Left, Owned, Counted, Attempts,
       RetriedElsewhere, PCs, Session, NoSession, NoRequest

LEMMA PoolStep == PoolInv /\ [Next]_vars => PoolInv'
<1> SUFFICES ASSUME PoolInv, [Next]_vars PROVE PoolInv'
    OBVIOUS
<1>t. /\ now \in 0 .. MaxTime /\ faults \in 0 .. MaxFaults /\ deaths \in 0 .. MaxFaults /\ deaths =< faults
      /\ sessions \in Seq(Session)
      /\ entries \in [Principals -> {NoSession} \cup Ids]
      /\ lock \in [Principals -> {NoRequest} \cup Requests]
      /\ pc \in [Requests -> PCs] /\ attempt \in [Requests -> 0 .. 2]
      /\ using \in [Requests -> {NoSession} \cup Ids]
      /\ failed \in [Requests -> {NoSession} \cup Ids]
      /\ sent \in [Requests -> Nat]
    BY DEF PoolInv, TypeOK, Session
<1>i. Locked /\ Keyed /\ NotYetCalled /\ FailedOver /\ Waiting /\ Left /\ Owned /\ RetriedElsewhere
    BY DEF PoolInv
<1>c. \A q \in Requests : Counted(q)
    BY DEF PoolInv
<1>r. NoRequest \notin Requests /\ \A q \in Requests : Key(q) \in Principals
    BY RequestAssumption, NoRequestAssumption DEF Key
<1>1. ASSUME NEW r \in Requests, Reuse(r) PROVE PoolInv'
    <2> DEFINE e == entries[Key(r)]
               s == [sessions[e] EXCEPT !.used = now]
    <2>e. e \in Ids
        BY <1>t, <1>r, <1>1 DEF Reuse, Fresh
    <2>c. s \in Session /\ s.key = sessions[e].key /\ s.state = sessions[e].state
        <3>1. sessions[e] \in Session /\ now \in Nat
            BY <1>t, <2>e, IdsAreNumbers, NumberAssumption
        <3> HIDE DEF e
        <3> QED
            BY <3>1 DEF Session
    <2>d. sessions' = [sessions EXCEPT ![e] = s]
        BY <1>t, <1>1, <2>e DEF Reuse, Ids
    <2>s. /\ sessions' \in Seq(Session) /\ Ids' = Ids
          /\ \A i \in Ids : sessions'[i].key = sessions[i].key
          /\ \A i \in Ids : sessions'[i].state = sessions[i].state
        <3> HIDE DEF e, s
        <3>1. /\ sessions' \in Seq(Session) /\ Ids' = Ids
              /\ sessions'[e] = s /\ \A i \in Ids \ {e} : sessions'[i] = sessions[i]
            BY <1>t, <2>e, <2>c, <2>d, OneChanges
        <3> QED
            BY <2>c, <3>1
    <2>k. sessions[e].key = Key(r) /\ sessions[e].state \in {"ready", "dead"}
        BY <1>t, <1>r, <1>i, <1>1 DEF Reuse, Fresh, Keyed
    <2> HIDE DEF s
    <2>T. TypeOK' /\ deaths' =< faults'
        BY <1>t, <1>r, <1>1, <2>s, NumberAssumption
        DEF Reuse, Fresh, Goto, Unlock, NoSession, TypeOK, Session, PCs, Attempts
    <2>L. Locked'
        BY <1>t, <1>r, <1>1, <2>s, <1>i
        DEF Reuse, Fresh, Goto, Unlock, NoSession, Locked, Key
    <2>K. Keyed'
        BY <1>t, <1>r, <1>1, <2>s, <1>i
        DEF Reuse, Fresh, Goto, Unlock, NoSession, Locked, Keyed, Key
    <2>N. NotYetCalled'
        BY <1>t, <1>r, <1>1, <2>s, <2>k, <1>i DEF Reuse, Goto, Locked, Keyed, NotYetCalled
    <2>F. FailedOver'
        BY <1>t, <1>r, <1>1, <2>s, <1>i
        DEF Reuse, Fresh, Goto, Unlock, NoSession, FailedOver, Over
    <2>l. \A i : Lost(i) => Lost(i)'
        <3>1. pc[r] # "cancelled" /\ \A q \in Requests \ {r} : pc'[q] = pc[q] /\ using'[q] = using[q]
            BY <1>t, <1>1 DEF Reuse, Open, Goto
        <3> QED
            BY <3>1, LostStays
    <2>W. Waiting'
        BY <1>t, <1>r, <1>i, <1>1, <2>s DEF Reuse, Open, Goto, Waiting, Over, Keyed
    <2>B. Left'
        BY <1>t, <1>r, <1>i, <1>1, <2>s DEF Reuse, Open, Goto, Left, Keyed, Locked, NoSession
    <2>A. Owned'
        <3>1. ASSUME NEW i \in Ids', sessions'[i].state \in Live, ~Lost(i)'
              PROVE  HeldAt(i, sessions[i].key)'
            <4>1. i \in Ids /\ sessions[i].state \in Live /\ ~Lost(i)
                BY <2>s, <2>l, <3>1
            <4>2. HeldAt(i, sessions[i].key) /\ sessions[i].key \in Principals
                BY <1>t, <1>i, <4>1, IdsAreNumbers DEF Owned, Session
            <4> QED
                BY <1>t, <1>r, <1>1, <2>s, <4>1, <4>2 DEF Reuse, Goto, HeldAt
        <3> QED
            BY <2>s, <3>1 DEF Owned
    <2>C. \A q \in Requests : Counted(q)'
        <3>0. /\ pc[r] \in {"acquire", "opening"} /\ pc'[r] = "calling"
              /\ sent'[r] = sent[r] + 1 /\ attempt'[r] = attempt[r]
              /\ sent[r] \in Nat /\ attempt[r] \in 0 .. 2 /\ Counted(r)
            BY <1>t, <1>c, <1>1 DEF Reuse, Fresh, Goto, Unlock, NoSession
        <3>1. Counted(r)'
            BY <3>0 DEF Counted, Attempts
        <3>2. \A q \in Requests \ {r} : Counted(q)'
            BY <1>t, <1>r, <1>1, <2>s, <1>c
            DEF Reuse, Fresh, Goto, Unlock, NoSession, Counted, Attempts
        <3> QED
            BY <3>1, <3>2
    <2>R. RetriedElsewhere'
        BY <1>t, <1>r, <1>1, <2>s, <2>k, <1>i DEF Reuse, Goto, FailedOver, RetriedElsewhere, Over
    <2> QED
        BY <2>T, <2>L, <2>K, <2>N, <2>F, <2>W, <2>B, <2>A, <2>C, <2>R DEF PoolInv
<1>2. ASSUME NEW r \in Requests, Expire(r) PROVE PoolInv'
    <2> DEFINE e == entries[Key(r)]
               s == Released(sessions[e])
    <2>e. e \in Ids
        BY <1>t, <1>r, <1>2 DEF Expire, Fresh
    <2>k. sessions[e].key = Key(r) /\ sessions[e].state \in {"ready", "dead"}
        BY <1>t, <1>r, <1>i, <1>2 DEF Expire, Keyed
    <2>b. sessions[e] \in Session
        BY <1>t, <2>e, IdsAreNumbers
    <2>c. s \in Session /\ s.key = sessions[e].key /\ s.state = "closing"
        <3> HIDE DEF e
        <3> QED
            BY <2>b, <2>k, StateChanged, ReleasedIsSession DEF States
    <2>d. sessions' = [sessions EXCEPT ![e] = s]
        BY <1>t, <1>2, <2>e DEF Expire, Ids
    <2>f. /\ sessions' \in Seq(Session) /\ Ids' = Ids
          /\ \A i \in Ids : sessions'[i].key = sessions[i].key
          /\ sessions'[e] = s /\ \A i \in Ids \ {e} : sessions'[i] = sessions[i]
        <3> HIDE DEF e, s
        <3> QED
            BY <1>t, <2>e, <2>c, <2>d, OneChanges
    <2>s. /\ sessions' \in Seq(Session) /\ Ids' = Ids
          /\ \A i \in Ids : sessions'[i].key = sessions[i].key
          /\ sessions'[e].state = "closing"
          /\ \A i \in Ids : i # e => sessions'[i].state = sessions[i].state
        <3> HIDE DEF s
        <3> QED
            BY <2>c, <2>f
    <2> HIDE DEF s
    <2>T. TypeOK' /\ deaths' =< faults'
        BY <1>t, <1>r, <1>2, <2>s, NumberAssumption
        DEF Expire, Goto, Unlock, NoSession, TypeOK, Session, PCs, Attempts
    <2>L. Locked'
        BY <1>t, <1>r, <1>2, <2>s, <1>i
        DEF Expire, Goto, Unlock, NoSession, Locked, Key
    <2>K. Keyed'
        BY <1>t, <1>r, <1>2, <2>s, <1>i
        DEF Expire, Goto, Unlock, NoSession, Locked, Keyed, Key
    <2>N. NotYetCalled'
        BY <1>t, <1>r, <1>2, <2>s, <1>i
        DEF Expire, Goto, Unlock, NoSession, Locked, Keyed, NotYetCalled, Key
    <2>F. FailedOver'
        BY <1>t, <1>r, <1>2, <2>s, <1>i
        DEF Expire, Goto, Unlock, NoSession, FailedOver, Over
    <2>l. \A i : Lost(i) => Lost(i)'
        <3>1. pc[r] # "cancelled" /\ \A q \in Requests \ {r} : pc'[q] = pc[q] /\ using'[q] = using[q]
            BY <1>t, <1>2 DEF Expire, Open, Goto
        <3> QED
            BY <3>1, LostStays
    <2>W. Waiting'
        BY <1>t, <1>r, <1>i, <1>2, <2>s DEF Expire, Open, Goto, Waiting, Over, Keyed
    <2>B. Left'
        BY <1>t, <1>r, <1>i, <1>2, <2>s DEF Expire, Open, Goto, Left, Keyed, Locked, NoSession
    <2>A. Owned'
        <3>1. ASSUME NEW i \in Ids', sessions'[i].state \in Live, ~Lost(i)'
              PROVE  HeldAt(i, sessions[i].key)'
            <4>1. i \in Ids /\ i # e /\ sessions[i].state \in Live /\ ~Lost(i)
                BY <2>s, <2>k, <2>l, <3>1 DEF Live
            <4>2. HeldAt(i, sessions[i].key) /\ sessions[i].key \in Principals
                BY <1>t, <1>i, <4>1, IdsAreNumbers DEF Owned, Session
            <4> QED
                BY <1>t, <1>r, <1>i, <1>2, <2>s, <2>k, <4>1, <4>2 DEF Expire, Goto, HeldAt, Locked
        <3> QED
            BY <2>s, <3>1 DEF Owned
    <2>C. \A q \in Requests : Counted(q)'
        BY <1>t, <1>r, <1>2, <2>s, <1>c
        DEF Expire, Goto, Unlock, NoSession, Counted, Attempts
    <2>R. RetriedElsewhere'
        BY <1>t, <1>r, <1>2, <2>s, <1>i
        DEF Expire, Goto, Unlock, NoSession, Keyed, FailedOver, RetriedElsewhere, Over
    <2> QED
        BY <2>T, <2>L, <2>K, <2>N, <2>F, <2>W, <2>B, <2>A, <2>C, <2>R DEF PoolInv
<1>3. ASSUME NEW r \in Requests, OpenFirst(r) PROVE PoolInv'
    <2> DEFINE new == Len(sessions) + 1
               s == [key |-> Key(r), used |-> now, state |-> "opening"]
    <2>c. s \in Session
        BY <1>t, RequestAssumption DEF Session, States, Key
    <2>d. sessions' = Append(sessions, s)
        BY <1>3 DEF OpenFirst, Open
    <2>f. /\ sessions' \in Seq(Session) /\ new \notin Ids /\ Ids' = Ids \cup {new}
          /\ sessions'[new] = s /\ \A i \in Ids : sessions'[i] = sessions[i]
        <3> HIDE DEF s
        <3> QED
            BY <1>t, <2>c, <2>d, OneMore
    <2>s. /\ sessions' \in Seq(Session) /\ new \notin Ids /\ Ids' = Ids \cup {new}
          /\ sessions'[new].key = Key(r) /\ sessions'[new].state = "opening"
          /\ \A i \in Ids : sessions'[i].key = sessions[i].key /\ sessions'[i].state = sessions[i].state
          /\ using' = [using EXCEPT ![r] = new] /\ pc' = [pc EXCEPT ![r] = "opening"] /\ new # NoSession
        <3>1. s.key = Key(r) /\ s.state = "opening"
            OBVIOUS
        <3>2. new # NoSession
            BY <1>t DEF NoSession
        <3>3. using' = [using EXCEPT ![r] = new] /\ pc' = [pc EXCEPT ![r] = "opening"]
            BY <1>3 DEF OpenFirst, Open, Goto
        <3> HIDE DEF s, new
        <3> QED
            BY <2>f, <3>1, <3>2, <3>3
    <2> HIDE DEF s, new
    <2>T. TypeOK' /\ deaths' =< faults'
        BY <1>t, <1>r, <1>3, <2>s, NumberAssumption
        DEF OpenFirst, Goto, Unlock, NoSession, TypeOK, Session, PCs, Attempts
    <2>L. Locked'
        BY <1>t, <1>r, <1>3, <2>s, <1>i
        DEF OpenFirst, Goto, Unlock, NoSession, Locked, Key
    <2>K. Keyed'
        <3>1. ASSUME NEW q \in Requests
              PROVE  /\ pc'[q] \in {"expire", "opening", "calling"} => using'[q] # NoSession
                     /\ using'[q] # NoSession => sessions'[using'[q]].key = Key(q)
            <4>1. CASE q = r
                BY <1>t, <2>s, <4>1
            <4>2. CASE q # r
                BY <1>t, <1>i, <2>s, <4>2 DEF Keyed
            <4> QED
                BY <4>1, <4>2
        <3>2. ASSUME NEW k \in Principals, entries'[k] # NoSession
              PROVE  sessions'[entries'[k]].key = k /\ sessions'[entries'[k]].state \in {"ready", "dead"}
            <4>1. entries' = entries /\ entries[k] \in Ids
                BY <1>t, <1>3, <3>2 DEF OpenFirst
            <4> QED
                BY <1>i, <2>s, <3>2, <4>1 DEF Keyed
        <3> QED
            BY <3>1, <3>2 DEF Keyed
    <2>N. NotYetCalled'
        BY <1>t, <1>r, <1>3, <2>s, <1>i
        DEF OpenFirst, Goto, Unlock, NoSession, Locked, Keyed, NotYetCalled, Key
    <2>F. FailedOver'
        BY <1>t, <1>r, <1>3, <2>s, <1>i
        DEF OpenFirst, Goto, Unlock, NoSession, FailedOver, Over
    <2>l. \A i : Lost(i) => Lost(i)'
        <3>1. pc[r] # "cancelled" /\ \A q \in Requests \ {r} : pc'[q] = pc[q] /\ using'[q] = using[q]
            BY <1>t, <1>3 DEF OpenFirst, Open, Goto
        <3> QED
            BY <3>1, LostStays
    <2>W. Waiting'
        <3>1. ASSUME NEW q \in Requests \ {r}, pc[q] \in {"expire", "discard"}, using[q] # NoSession
              PROVE  sessions'[using[q]].state \in Over
            BY <1>t, <1>i, <2>s, <3>1 DEF Waiting
        <3> QED
            BY <1>t, <1>i, <2>s, <3>1 DEF Waiting
    <2>B. Left'
        <3>1. ASSUME NEW q \in Requests, pc'[q] = "cancelled", using'[q] # NoSession
              PROVE  /\ sessions'[using'[q]].state \in {"ready", "dead"}
                     /\ \A k \in Principals : entries'[k] # using'[q]
                     /\ \A p \in Requests \ {q} : using'[p] # using'[q]
            <4>1. q # r /\ pc[q] = "cancelled" /\ using'[q] = using[q] /\ using[q] \in Ids
                BY <1>t, <2>s, <3>1
            <4>2. /\ sessions[using[q]].state \in {"ready", "dead"}
                  /\ \A k \in Principals : entries[k] # using[q]
                  /\ \A p \in Requests \ {q} : using[p] # using[q]
                BY <1>i, <3>1, <4>1 DEF Left
            <4>3. entries' = entries
                BY <1>3 DEF OpenFirst
            <4> QED
                BY <1>t, <2>s, <4>1, <4>2, <4>3
        <3> QED
            BY <3>1 DEF Left
    <2>A. Owned'
        <3>1. ASSUME NEW i \in Ids', sessions'[i].state \in Live, ~Lost(i)'
              PROVE  HeldAt(i, sessions[i].key)'
            <4>1. CASE i = new
                BY <1>t, <1>r, <1>i, <1>3, <2>s, <4>1 DEF OpenFirst, HeldAt, Locked
            <4>2. CASE i # new
                <5>1. i \in Ids /\ sessions[i].state \in Live /\ ~Lost(i)
                    BY <2>s, <2>l, <3>1, <4>2
                <5>2. HeldAt(i, sessions[i].key) /\ sessions[i].key \in Principals
                    BY <1>t, <1>i, <5>1, IdsAreNumbers DEF Owned, Session
                <5> QED
                    BY <1>t, <1>r, <1>i, <1>3, <2>s, <5>1, <5>2 DEF OpenFirst, HeldAt, Locked
            <4> QED
                BY <4>1, <4>2
        <3> QED
            BY <2>s, <3>1 DEF Owned
    <2>C. \A q \in Requests : Counted(q)'
        BY <1>t, <1>r, <1>3, <2>s, <1>c
        DEF OpenFirst, Goto, Unlock, NoSession, Counted, Attempts
    <2>R. RetriedElsewhere'
        BY <1>t, <1>r, <1>3, <2>s, <1>i
        DEF OpenFirst, Goto, Unlock, NoSession, Keyed, FailedOver, RetriedElsewhere, Over
    <2> QED
        BY <2>T, <2>L, <2>K, <2>N, <2>F, <2>W, <2>B, <2>A, <2>C, <2>R DEF PoolInv
<1>4. ASSUME NEW r \in Requests, OpenAgain(r) PROVE PoolInv'
    <2> DEFINE new == Len(sessions) + 1
               s == [key |-> Key(r), used |-> now, state |-> "opening"]
    <2>c. s \in Session
        BY <1>t, RequestAssumption DEF Session, States, Key
    <2>d. sessions' = Append(sessions, s)
        BY <1>4 DEF OpenAgain, Open
    <2>f. /\ sessions' \in Seq(Session) /\ new \notin Ids /\ Ids' = Ids \cup {new}
          /\ sessions'[new] = s /\ \A i \in Ids : sessions'[i] = sessions[i]
        <3> HIDE DEF s
        <3> QED
            BY <1>t, <2>c, <2>d, OneMore
    <2>s. /\ sessions' \in Seq(Session) /\ new \notin Ids /\ Ids' = Ids \cup {new}
          /\ sessions'[new].key = Key(r) /\ sessions'[new].state = "opening"
          /\ \A i \in Ids : sessions'[i].key = sessions[i].key /\ sessions'[i].state = sessions[i].state
          /\ using' = [using EXCEPT ![r] = new] /\ pc' = [pc EXCEPT ![r] = "opening"] /\ new # NoSession
        <3>1. s.key = Key(r) /\ s.state = "opening"
            OBVIOUS
        <3>2. new # NoSession
            BY <1>t DEF NoSession
        <3>3. using' = [using EXCEPT ![r] = new] /\ pc' = [pc EXCEPT ![r] = "opening"]
            BY <1>4 DEF OpenAgain, Open, Goto
        <3> HIDE DEF s, new
        <3> QED
            BY <2>f, <3>1, <3>2, <3>3
    <2> HIDE DEF s, new
    <2>T. TypeOK' /\ deaths' =< faults'
        BY <1>t, <1>r, <1>4, <2>s, NumberAssumption
        DEF OpenAgain, Goto, Unlock, NoSession, TypeOK, Session, PCs, Attempts
    <2>L. Locked'
        BY <1>t, <1>r, <1>4, <2>s, <1>i
        DEF OpenAgain, Goto, Unlock, NoSession, Locked, Key
    <2>K. Keyed'
        <3>1. ASSUME NEW q \in Requests
              PROVE  /\ pc'[q] \in {"expire", "opening", "calling"} => using'[q] # NoSession
                     /\ using'[q] # NoSession => sessions'[using'[q]].key = Key(q)
            <4>1. CASE q = r
                BY <1>t, <2>s, <4>1
            <4>2. CASE q # r
                BY <1>t, <1>i, <2>s, <4>2 DEF Keyed
            <4> QED
                BY <4>1, <4>2
        <3>2. ASSUME NEW k \in Principals, entries'[k] # NoSession
              PROVE  sessions'[entries'[k]].key = k /\ sessions'[entries'[k]].state \in {"ready", "dead"}
            <4>1. entries' = entries /\ entries[k] \in Ids
                BY <1>t, <1>4, <3>2 DEF OpenAgain
            <4> QED
                BY <1>i, <2>s, <3>2, <4>1 DEF Keyed
        <3> QED
            BY <3>1, <3>2 DEF Keyed
    <2>N. NotYetCalled'
        BY <1>t, <1>r, <1>4, <2>s, <1>i
        DEF OpenAgain, Goto, Unlock, NoSession, Locked, Keyed, NotYetCalled, Key
    <2>F. FailedOver'
        BY <1>t, <1>r, <1>4, <2>s, <1>i
        DEF OpenAgain, Goto, Unlock, NoSession, FailedOver, Over
    <2>l. \A i : Lost(i) => Lost(i)'
        <3>1. pc[r] # "cancelled" /\ \A q \in Requests \ {r} : pc'[q] = pc[q] /\ using'[q] = using[q]
            BY <1>t, <1>4 DEF OpenAgain, Open, Goto
        <3> QED
            BY <3>1, LostStays
    <2>W. Waiting'
        <3>1. ASSUME NEW q \in Requests \ {r}, pc[q] \in {"expire", "discard"}, using[q] # NoSession
              PROVE  sessions'[using[q]].state \in Over
            BY <1>t, <1>i, <2>s, <3>1 DEF Waiting
        <3> QED
            BY <1>t, <1>i, <2>s, <3>1 DEF Waiting
    <2>B. Left'
        <3>1. ASSUME NEW q \in Requests, pc'[q] = "cancelled", using'[q] # NoSession
              PROVE  /\ sessions'[using'[q]].state \in {"ready", "dead"}
                     /\ \A k \in Principals : entries'[k] # using'[q]
                     /\ \A p \in Requests \ {q} : using'[p] # using'[q]
            <4>1. q # r /\ pc[q] = "cancelled" /\ using'[q] = using[q] /\ using[q] \in Ids
                BY <1>t, <2>s, <3>1
            <4>2. /\ sessions[using[q]].state \in {"ready", "dead"}
                  /\ \A k \in Principals : entries[k] # using[q]
                  /\ \A p \in Requests \ {q} : using[p] # using[q]
                BY <1>i, <3>1, <4>1 DEF Left
            <4>3. entries' = entries
                BY <1>4 DEF OpenAgain
            <4> QED
                BY <1>t, <2>s, <4>1, <4>2, <4>3
        <3> QED
            BY <3>1 DEF Left
    <2>A. Owned'
        <3>1. ASSUME NEW i \in Ids', sessions'[i].state \in Live, ~Lost(i)'
              PROVE  HeldAt(i, sessions[i].key)'
            <4>1. CASE i = new
                BY <1>t, <1>r, <1>i, <1>4, <2>s, <4>1 DEF OpenAgain, HeldAt, Locked
            <4>2. CASE i # new
                <5>1. i \in Ids /\ sessions[i].state \in Live /\ ~Lost(i)
                    BY <2>s, <2>l, <3>1, <4>2
                <5>2. HeldAt(i, sessions[i].key) /\ sessions[i].key \in Principals
                    BY <1>t, <1>i, <5>1, IdsAreNumbers DEF Owned, Session
                <5> QED
                    BY <1>t, <1>r, <1>i, <1>4, <2>s, <5>1, <5>2 DEF OpenAgain, HeldAt, Locked
            <4> QED
                BY <4>1, <4>2
        <3> QED
            BY <2>s, <3>1 DEF Owned
    <2>C. \A q \in Requests : Counted(q)'
        BY <1>t, <1>r, <1>4, <2>s, <1>c
        DEF OpenAgain, Goto, Unlock, NoSession, Counted, Attempts
    <2>R. RetriedElsewhere'
        BY <1>t, <1>r, <1>4, <2>s, <1>i
        DEF OpenAgain, Goto, Unlock, NoSession, Keyed, FailedOver, RetriedElsewhere, Over
    <2> QED
        BY <2>T, <2>L, <2>K, <2>N, <2>F, <2>W, <2>B, <2>A, <2>C, <2>R DEF PoolInv
<1>5. ASSUME NEW r \in Requests, Opened(r) PROVE PoolInv'
    <2>s. /\ sessions' \in Seq(Session) /\ Ids' = Ids
          /\ \A i \in Ids : sessions'[i].key = sessions[i].key
          /\ \A i \in Ids : sessions'[i].state = sessions[i].state
        BY <1>t, <1>5 DEF Opened, Ids
    <2>T. TypeOK' /\ deaths' =< faults'
        BY <1>t, <1>r, <1>5, <2>s, NumberAssumption
        DEF Opened, Goto, Unlock, NoSession, TypeOK, Session, PCs, Attempts
    <2>L. Locked'
        BY <1>t, <1>r, <1>5, <2>s, <1>i
        DEF Opened, Goto, Unlock, NoSession, Locked, Key
    <2>K. Keyed'
        BY <1>t, <1>r, <1>5, <2>s, <1>i
        DEF Opened, Goto, Unlock, NoSession, Locked, Keyed, Key
    <2>N. NotYetCalled'
        <3>1. ASSUME NEW q \in Requests, pc[q] = "opening", q # r PROVE using[q] # using[r]
            BY <1>i, <1>5, <3>1 DEF Opened, Locked, Keyed
        <3> QED
            BY <1>t, <1>i, <1>5, <3>1 DEF Opened, Goto, NotYetCalled
    <2>F. FailedOver'
        BY <1>t, <1>r, <1>5, <2>s, <1>i
        DEF Opened, Goto, Unlock, NoSession, FailedOver, Over
    <2>l. \A i : Lost(i) => Lost(i)'
        <3>1. pc[r] # "cancelled" /\ \A q \in Requests \ {r} : pc'[q] = pc[q] /\ using'[q] = using[q]
            BY <1>t, <1>5 DEF Opened, Open, Goto
        <3> QED
            BY <3>1, LostStays
    <2>W. Waiting'
        BY <1>t, <1>r, <1>i, <1>5, <2>s DEF Opened, Open, Goto, Waiting, Over, Keyed
    <2>B. Left'
        BY <1>t, <1>r, <1>i, <1>5, <2>s DEF Opened, Open, Goto, Left, Keyed, Locked, NoSession
    <2>A. Owned'
        <3>1. ASSUME NEW i \in Ids', sessions'[i].state \in Live, ~Lost(i)'
              PROVE  HeldAt(i, sessions[i].key)'
            <4>1. i \in Ids /\ sessions[i].state \in Live /\ ~Lost(i)
                BY <2>s, <2>l, <3>1
            <4>2. HeldAt(i, sessions[i].key) /\ sessions[i].key \in Principals
                BY <1>t, <1>i, <4>1, IdsAreNumbers DEF Owned, Session
            <4>3. CASE sessions[i].key = Key(r)
                <5>1. lock[Key(r)] = r /\ entries[Key(r)] = NoSession /\ i # NoSession
                    BY <1>t, <1>r, <1>i, <1>5, <4>1, IdsAreNumbers DEF Opened, Locked
                <5>2. using[r] = i
                    BY <4>2, <4>3, <5>1 DEF HeldAt
                <5> QED
                    BY <1>t, <1>r, <1>5, <2>s, <4>1, <4>3, <5>2 DEF Opened, HeldAt
            <4>4. CASE sessions[i].key # Key(r)
                BY <1>t, <1>r, <1>i, <1>5, <2>s, <4>1, <4>2, <4>4 DEF Opened, Goto, Unlock, HeldAt, Locked
            <4> QED
                BY <4>3, <4>4
        <3> QED
            BY <2>s, <3>1 DEF Owned
    <2>C. \A q \in Requests : Counted(q)'
        <3>0. /\ pc[r] \in {"acquire", "opening"} /\ pc'[r] = "calling"
              /\ sent'[r] = sent[r] + 1 /\ attempt'[r] = attempt[r]
              /\ sent[r] \in Nat /\ attempt[r] \in 0 .. 2 /\ Counted(r)
            BY <1>t, <1>c, <1>5 DEF Opened, Goto, Unlock, NoSession
        <3>1. Counted(r)'
            BY <3>0 DEF Counted, Attempts
        <3>2. \A q \in Requests \ {r} : Counted(q)'
            BY <1>t, <1>r, <1>5, <2>s, <1>c
            DEF Opened, Goto, Unlock, NoSession, Counted, Attempts
        <3> QED
            BY <3>1, <3>2
    <2>R. RetriedElsewhere'
        BY <1>t, <1>r, <1>5, <2>s, <1>i
        DEF Opened, Goto, Unlock, NoSession, Keyed, FailedOver, RetriedElsewhere, Over
    <2> QED
        BY <2>T, <2>L, <2>K, <2>N, <2>F, <2>W, <2>B, <2>A, <2>C, <2>R DEF PoolInv
<1>6. ASSUME NEW r \in Requests, OpenRaised(r) PROVE PoolInv'
    <2>s. /\ sessions' \in Seq(Session) /\ Ids' = Ids
          /\ \A i \in Ids : sessions'[i].key = sessions[i].key
          /\ \A i \in Ids : sessions'[i].state = sessions[i].state
        BY <1>t, <1>6 DEF OpenRaised, Ids
    <2>T. TypeOK' /\ deaths' =< faults'
        BY <1>t, <1>r, <1>6, <2>s, NumberAssumption
        DEF OpenRaised, Goto, Unlock, NoSession, TypeOK, Session, PCs, Attempts
    <2>L. Locked'
        BY <1>t, <1>r, <1>6, <2>s, <1>i
        DEF OpenRaised, Goto, Unlock, NoSession, Locked, Key
    <2>K. Keyed'
        BY <1>t, <1>r, <1>6, <2>s, <1>i
        DEF OpenRaised, Goto, Unlock, NoSession, Locked, Keyed, Key
    <2>N. NotYetCalled'
        BY <1>t, <1>r, <1>6, <2>s, <1>i
        DEF OpenRaised, Goto, Unlock, NoSession, Locked, Keyed, NotYetCalled, Key
    <2>F. FailedOver'
        BY <1>t, <1>r, <1>6, <2>s, <1>i
        DEF OpenRaised, Goto, Unlock, NoSession, FailedOver, Over
    <2>l. \A i : Lost(i) => Lost(i)'
        <3>1. pc[r] # "cancelled" /\ \A q \in Requests \ {r} : pc'[q] = pc[q] /\ using'[q] = using[q]
            BY <1>t, <1>6 DEF OpenRaised, Open, Goto
        <3> QED
            BY <3>1, LostStays
    <2>W. Waiting'
        BY <1>t, <1>r, <1>i, <1>6, <2>s DEF OpenRaised, Open, Goto, Waiting, Over, Keyed
    <2>B. Left'
        BY <1>t, <1>r, <1>i, <1>6, <2>s DEF OpenRaised, Open, Goto, Left, Keyed, Locked, NoSession
    <2>A. Owned'
        <3>1. ASSUME NEW i \in Ids', sessions'[i].state \in Live, ~Lost(i)'
              PROVE  HeldAt(i, sessions[i].key)'
            <4>1. i \in Ids /\ sessions[i].state \in Live /\ ~Lost(i)
                BY <2>s, <2>l, <3>1
            <4>2. HeldAt(i, sessions[i].key) /\ sessions[i].key \in Principals
                BY <1>t, <1>i, <4>1, IdsAreNumbers DEF Owned, Session
            <4> QED
                BY <1>t, <1>r, <1>6, <2>s, <1>i, <4>1, <4>2
                DEF OpenRaised, Goto, Unlock, Locked, Keyed, HeldAt, Live
        <3> QED
            BY <2>s, <3>1 DEF Owned
    <2>C. \A q \in Requests : Counted(q)'
        BY <1>t, <1>r, <1>6, <2>s, <1>c
        DEF OpenRaised, Goto, Unlock, NoSession, Counted, Attempts
    <2>R. RetriedElsewhere'
        BY <1>t, <1>r, <1>6, <2>s, <1>i
        DEF OpenRaised, Goto, Unlock, NoSession, Keyed, FailedOver, RetriedElsewhere, Over
    <2> QED
        BY <2>T, <2>L, <2>K, <2>N, <2>F, <2>W, <2>B, <2>A, <2>C, <2>R DEF PoolInv
<1>7. ASSUME NEW r \in Requests, Answered(r) PROVE PoolInv'
    <2>s. /\ sessions' \in Seq(Session) /\ Ids' = Ids
          /\ \A i \in Ids : sessions'[i].key = sessions[i].key
          /\ \A i \in Ids : sessions'[i].state = sessions[i].state
        BY <1>t, <1>7 DEF Answered, Ids
    <2>T. TypeOK' /\ deaths' =< faults'
        BY <1>t, <1>r, <1>7, <2>s, NumberAssumption
        DEF Answered, Goto, Unlock, NoSession, TypeOK, Session, PCs, Attempts
    <2>L. Locked'
        BY <1>t, <1>r, <1>7, <2>s, <1>i
        DEF Answered, Goto, Unlock, NoSession, Locked, Key
    <2>K. Keyed'
        BY <1>t, <1>r, <1>7, <2>s, <1>i
        DEF Answered, Goto, Unlock, NoSession, Locked, Keyed, Key
    <2>N. NotYetCalled'
        BY <1>t, <1>r, <1>7, <2>s, <1>i
        DEF Answered, Goto, Unlock, NoSession, Locked, Keyed, NotYetCalled, Key
    <2>F. FailedOver'
        BY <1>t, <1>r, <1>7, <2>s, <1>i
        DEF Answered, Goto, Unlock, NoSession, FailedOver, Over
    <2>l. \A i : Lost(i) => Lost(i)'
        <3>1. pc[r] # "cancelled" /\ \A q \in Requests \ {r} : pc'[q] = pc[q] /\ using'[q] = using[q]
            BY <1>t, <1>7 DEF Answered, Open, Goto
        <3> QED
            BY <3>1, LostStays
    <2>W. Waiting'
        BY <1>t, <1>r, <1>i, <1>7, <2>s DEF Answered, Open, Goto, Waiting, Over, Keyed
    <2>B. Left'
        BY <1>t, <1>r, <1>i, <1>7, <2>s DEF Answered, Open, Goto, Left, Keyed, Locked, NoSession
    <2>A. Owned'
        <3>1. ASSUME NEW i \in Ids', sessions'[i].state \in Live, ~Lost(i)'
              PROVE  HeldAt(i, sessions[i].key)'
            <4>1. i \in Ids /\ sessions[i].state \in Live /\ ~Lost(i)
                BY <2>s, <2>l, <3>1
            <4>2. HeldAt(i, sessions[i].key) /\ sessions[i].key \in Principals
                BY <1>t, <1>i, <4>1, IdsAreNumbers DEF Owned, Session
            <4> QED
                BY <1>t, <1>r, <1>7, <2>s, <1>i, <4>1, <4>2
                DEF Answered, Goto, Unlock, Locked, Keyed, HeldAt, Live
        <3> QED
            BY <2>s, <3>1 DEF Owned
    <2>C. \A q \in Requests : Counted(q)'
        BY <1>t, <1>r, <1>7, <2>s, <1>c
        DEF Answered, Goto, Unlock, NoSession, Counted, Attempts
    <2>R. RetriedElsewhere'
        BY <1>t, <1>r, <1>7, <2>s, <1>i
        DEF Answered, Goto, Unlock, NoSession, Keyed, FailedOver, RetriedElsewhere, Over
    <2> QED
        BY <2>T, <2>L, <2>K, <2>N, <2>F, <2>W, <2>B, <2>A, <2>C, <2>R DEF PoolInv
<1>8. ASSUME NEW r \in Requests, CallFails(r) \/ ErrorAnswer(r) PROVE PoolInv'
    <2> DEFINE e == entries[Key(r)]
    <2>a. /\ pc[r] = "calling" /\ Discard(r) /\ deaths' = deaths
          /\ faults' \in 0 .. MaxFaults /\ faults =< faults'
        BY <1>t, <1>8, NumberAssumption DEF CallFails, ErrorAnswer
    <2>k. e # NoSession => e \in Ids /\ sessions[e].key = Key(r) /\ sessions[e].state \in {"ready", "dead"}
        BY <1>t, <1>r, <1>i DEF Keyed
    <2>s. /\ sessions' \in Seq(Session) /\ Ids' = Ids
          /\ \A i \in Ids : sessions'[i].key = sessions[i].key
          /\ \A i \in Ids : sessions'[i].state = IF i = e THEN "closing" ELSE sessions[i].state
        <3>1. CASE e = NoSession
            <4>1. sessions' = sessions
                BY <2>a, <3>1 DEF Discard
            <4>2. NoSession \notin Ids
                BY <1>t, IdsAreNumbers
            <4> QED
                BY <1>t, <3>1, <4>1, <4>2 DEF Ids
        <3>2. CASE e # NoSession
            <4> DEFINE s == Released(sessions[e])
            <4>1. s \in Session /\ s.key = sessions[e].key /\ s.state = "closing"
                <5>1. sessions[e] \in Session
                    BY <1>t, <2>k, <3>2, IdsAreNumbers
                <5> HIDE DEF e
                <5> QED
                    BY <2>k, <3>2, <5>1, ReleasedIsSession
            <4>2. sessions' = [sessions EXCEPT ![e] = s]
                BY <2>a, <3>2 DEF Discard
            <4> HIDE DEF e, s
            <4>3. /\ sessions' \in Seq(Session) /\ Ids' = Ids
                  /\ sessions'[e] = s /\ \A i \in Ids \ {e} : sessions'[i] = sessions[i]
                  /\ \A i \in Ids : sessions'[i].key = sessions[i].key
                BY <1>t, <2>k, <3>2, <4>1, <4>2, OneChanges
            <4> QED
                BY <4>1, <4>3
        <3> QED
            BY <3>1, <3>2
    <2>b. /\ pc' = [pc EXCEPT ![r] = "discard"] /\ failed' = [failed EXCEPT ![r] = using[r]]
          /\ attempt' = [attempt EXCEPT ![r] = @ + 1]
          /\ entries' = [entries EXCEPT ![Key(r)] = NoSession]
          /\ using' = [using EXCEPT ![r] = e]
          /\ now' = now /\ lock' = lock /\ sent' = sent
        BY <2>a DEF Discard, Goto
    <2>T. TypeOK' /\ deaths' =< faults'
        <3>1. attempt[r] < Attempts(r) /\ Attempts(r) \in {1, 2} /\ attempt[r] \in 0 .. 2
            BY <1>t, <1>c, <2>a DEF Counted, Attempts
        <3>2. attempt' \in [Requests -> 0 .. 2]
            BY <1>t, <2>b, <3>1
        <3>3. using' \in [Requests -> {NoSession} \cup Ids'] /\ failed' \in [Requests -> {NoSession} \cup Ids']
            <4> HIDE DEF e
            <4> QED
                BY <1>t, <2>b, <2>k, <2>s
        <3>4. entries' \in [Principals -> {NoSession} \cup Ids'] /\ pc' \in [Requests -> PCs]
            BY <1>t, <1>r, <2>b, <2>s DEF PCs
        <3> QED
            BY <1>t, <2>a, <2>b, <2>s, <3>2, <3>3, <3>4 DEF TypeOK, Session
    <2>L. Locked'
        BY <1>t, <1>r, <1>i, <2>a, <2>b DEF Locked
    <2>K. Keyed'
        <3> HIDE DEF e
        <3>1. ASSUME NEW q \in Requests
              PROVE  /\ pc'[q] \in {"expire", "opening", "calling"} => using'[q] # NoSession
                     /\ using'[q] # NoSession => sessions'[using'[q]].key = Key(q)
            <4>1. CASE q = r
                BY <1>t, <2>b, <2>k, <2>s, <4>1
            <4>2. CASE q # r
                BY <1>t, <1>i, <2>b, <2>s, <4>2 DEF Keyed
            <4> QED
                BY <4>1, <4>2
        <3>2. ASSUME NEW k \in Principals, entries'[k] # NoSession
              PROVE  sessions'[entries'[k]].key = k /\ sessions'[entries'[k]].state \in {"ready", "dead"}
            <4>1. k # Key(r) /\ entries'[k] = entries[k] /\ entries[k] \in Ids
                BY <1>t, <1>r, <2>b, <3>2
            <4>2. sessions[entries[k]].key = k /\ sessions[entries[k]].state \in {"ready", "dead"}
                BY <1>i, <3>2, <4>1 DEF Keyed
            <4>3. entries[k] # e
                BY <2>k, <3>2, <4>1, <4>2
            <4> QED
                BY <2>s, <4>1, <4>2, <4>3
        <3> QED
            BY <3>1, <3>2 DEF Keyed
    <2>N. NotYetCalled'
        BY <1>t, <1>i, <2>a, <2>b DEF NotYetCalled
    <2>u. using[r] \in Ids /\ using[r] # NoSession /\ sessions'[using[r]].state \in Over
        <3>1. using[r] \in Ids /\ using[r] # NoSession /\ sessions[using[r]].key = Key(r)
            BY <1>t, <1>i, <2>a DEF Keyed
        <3>2. CASE using[r] = e
            BY <2>s, <3>1, <3>2 DEF Over
        <3>3. CASE using[r] # e
            <4>1. ~HeldAt(using[r], Key(r))
                BY <1>t, <1>r, <1>i, <2>a, <3>3 DEF HeldAt, Locked, NotYetCalled
            <4>2. sessions[using[r]].state \notin Live
                <5>1. ~Lost(using[r])
                    BY <1>i, <2>a, <3>1 DEF Lost, Left
                <5> QED
                    BY <1>i, <3>1, <4>1, <5>1 DEF Owned
            <4>3. sessions[using[r]].state \in States
                BY <1>t, <3>1, IdsAreNumbers DEF Session
            <4> QED
                BY <2>s, <3>1, <3>3, <4>2, <4>3 DEF Live, Over, States
        <3> QED
            BY <3>2, <3>3
    <2>F. FailedOver'
        <3>1. ASSUME NEW q \in Requests, q # r, attempt[q] > 0
              PROVE  failed[q] # NoSession /\ sessions'[failed[q]].state \in Over
            BY <1>t, <1>i, <2>s, <3>1 DEF FailedOver, Over
        <3> QED
            BY <1>t, <2>b, <2>u, <3>1 DEF FailedOver
    <2>l. \A i : Lost(i) => Lost(i)'
        <3>1. pc[r] # "cancelled" /\ \A q \in Requests \ {r} : pc'[q] = pc[q] /\ using'[q] = using[q]
            BY <1>t, <2>a, <2>b
        <3> QED
            BY <3>1, LostStays
    <2>W. Waiting'
        <3> HIDE DEF e
        <3>1. ASSUME NEW q \in Requests \ {r}, pc[q] \in {"expire", "discard"}, using[q] # NoSession
              PROVE  sessions'[using[q]].state \in Over
            BY <1>t, <1>i, <2>s, <3>1 DEF Waiting, Over
        <3>2. e # NoSession => sessions'[e].state \in Over
            BY <2>k, <2>s DEF Over
        <3> QED
            BY <1>t, <1>i, <2>b, <3>1, <3>2 DEF Waiting
    <2>B. Left'
        <3>1. ASSUME NEW q \in Requests, pc'[q] = "cancelled", using'[q] # NoSession
              PROVE  /\ sessions'[using'[q]].state \in {"ready", "dead"}
                     /\ \A k \in Principals : entries'[k] # using'[q]
                     /\ \A p \in Requests \ {q} : using'[p] # using'[q]
            <4>1. q # r /\ pc[q] = "cancelled" /\ using'[q] = using[q] /\ using[q] \in Ids
                BY <1>t, <2>b, <3>1
            <4>2. /\ sessions[using[q]].state \in {"ready", "dead"}
                  /\ \A k \in Principals : entries[k] # using[q]
                  /\ \A p \in Requests \ {q} : using[p] # using[q]
                BY <1>i, <3>1, <4>1 DEF Left
            <4>3. e # using[q] /\ \A k \in Principals : entries'[k] \in {entries[k], NoSession}
                BY <1>t, <1>r, <2>b, <4>2
            <4>4. sessions'[using[q]].state \in {"ready", "dead"}
                <5> HIDE DEF e
                <5> QED
                    BY <2>s, <4>1, <4>2, <4>3
            <4>5. \A p \in Requests \ {q} : using'[p] # using[q]
                <5> HIDE DEF e
                <5> QED
                    BY <1>t, <2>b, <4>2, <4>3
            <4> QED
                BY <3>1, <4>1, <4>2, <4>3, <4>4, <4>5
        <3> QED
            BY <3>1 DEF Left
    <2>A. Owned'
        <3>1. ASSUME NEW i \in Ids', sessions'[i].state \in Live, ~Lost(i)'
              PROVE  HeldAt(i, sessions[i].key)'
            <4>1. i \in Ids /\ i # e /\ sessions[i].state \in Live /\ ~Lost(i)
                BY <2>s, <2>l, <3>1 DEF Live
            <4>2. HeldAt(i, sessions[i].key) /\ sessions[i].key \in Principals
                BY <1>t, <1>i, <4>1, IdsAreNumbers DEF Owned, Session
            <4>3. \A k \in Principals : lock[k] # r
                BY <1>i, <1>r, <2>a DEF Locked
            <4> QED
                BY <1>t, <1>r, <2>b, <2>s, <4>1, <4>2, <4>3 DEF HeldAt
        <3> QED
            BY <2>s, <3>1 DEF Owned
    <2>C. \A q \in Requests : Counted(q)'
        <3>1. Counted(r)'
            <4>1. sent[r] =< attempt[r] + 1 /\ attempt[r] < Attempts(r) /\ sent[r] =< Attempts(r)
                BY <1>c, <2>a DEF Counted
            <4>2. pc'[r] = "discard" /\ sent'[r] = sent[r] /\ attempt'[r] = attempt[r] + 1
                BY <1>t, <2>b
            <4> QED
                BY <4>1, <4>2 DEF Counted, Attempts
        <3>2. \A q \in Requests \ {r} : Counted(q)'
            BY <1>t, <1>c, <2>b DEF Counted, Attempts
        <3> QED
            BY <3>1, <3>2
    <2>R. RetriedElsewhere'
        BY <1>t, <1>i, <2>a, <2>b DEF RetriedElsewhere
    <2> QED
        BY <2>T, <2>L, <2>K, <2>N, <2>F, <2>W, <2>B, <2>A, <2>C, <2>R DEF PoolInv
<1>9. ASSUME NEW r \in Requests, Discarded(r) PROVE PoolInv'
    <2>s. /\ sessions' \in Seq(Session) /\ Ids' = Ids
          /\ \A i \in Ids : sessions'[i].key = sessions[i].key
          /\ \A i \in Ids : sessions'[i].state = sessions[i].state
        BY <1>t, <1>9 DEF Discarded, Ids
    <2>T. TypeOK' /\ deaths' =< faults'
        BY <1>t, <1>r, <1>9, <2>s, NumberAssumption
        DEF Discarded, Goto, Unlock, NoSession, TypeOK, Session, PCs, Attempts
    <2>L. Locked'
        BY <1>t, <1>r, <1>9, <2>s, <1>i
        DEF Discarded, Goto, Unlock, NoSession, Locked, Key
    <2>K. Keyed'
        BY <1>t, <1>r, <1>9, <2>s, <1>i
        DEF Discarded, Goto, Unlock, NoSession, Locked, Keyed, Key
    <2>N. NotYetCalled'
        BY <1>t, <1>r, <1>9, <2>s, <1>i
        DEF Discarded, Goto, Unlock, NoSession, Locked, Keyed, NotYetCalled, Key
    <2>F. FailedOver'
        BY <1>t, <1>r, <1>9, <2>s, <1>i
        DEF Discarded, Goto, Unlock, NoSession, FailedOver, Over
    <2>l. \A i : Lost(i) => Lost(i)'
        <3>1. pc[r] # "cancelled" /\ \A q \in Requests \ {r} : pc'[q] = pc[q] /\ using'[q] = using[q]
            BY <1>t, <1>9 DEF Discarded, Open, Goto
        <3> QED
            BY <3>1, LostStays
    <2>W. Waiting'
        BY <1>t, <1>r, <1>i, <1>9, <2>s DEF Discarded, Open, Goto, Waiting, Over, Keyed
    <2>B. Left'
        BY <1>t, <1>r, <1>i, <1>9, <2>s DEF Discarded, Open, Goto, Left, Keyed, Locked, NoSession
    <2>A. Owned'
        <3>1. ASSUME NEW i \in Ids', sessions'[i].state \in Live, ~Lost(i)'
              PROVE  HeldAt(i, sessions[i].key)'
            <4>1. i \in Ids /\ sessions[i].state \in Live /\ ~Lost(i)
                BY <2>s, <2>l, <3>1
            <4>2. HeldAt(i, sessions[i].key) /\ sessions[i].key \in Principals
                BY <1>t, <1>i, <4>1, IdsAreNumbers DEF Owned, Session
            <4> QED
                BY <1>t, <1>r, <1>9, <2>s, <1>i, <4>1, <4>2
                DEF Discarded, Goto, Unlock, Locked, Keyed, HeldAt, Live
        <3> QED
            BY <2>s, <3>1 DEF Owned
    <2>C. \A q \in Requests : Counted(q)'
        BY <1>t, <1>r, <1>9, <2>s, <1>c
        DEF Discarded, Goto, Unlock, NoSession, Counted, Attempts
    <2>R. RetriedElsewhere'
        BY <1>t, <1>r, <1>9, <2>s, <1>i
        DEF Discarded, Goto, Unlock, NoSession, Keyed, FailedOver, RetriedElsewhere, Over
    <2> QED
        BY <2>T, <2>L, <2>K, <2>N, <2>F, <2>W, <2>B, <2>A, <2>C, <2>R DEF PoolInv
<1>10. ASSUME NEW r \in Requests, Cancel(r) PROVE PoolInv'
    <2> DEFINE u == using[r]
               Pending == pc[r] = "opening" /\ sessions[u].state = "opening"
    <2>a. /\ pc[r] \notin Ended /\ pc' = [pc EXCEPT ![r] = "cancelled"]
          /\ lock' = [lock EXCEPT ![Key(r)] = IF @ = r THEN NoRequest ELSE @]
          /\ using' = IF Unclaimed(r) THEN using ELSE [using EXCEPT ![r] = NoSession]
          /\ UNCHANGED <<now, faults, deaths, entries, attempt, failed, sent>>
        BY <1>10 DEF Cancel, Goto
    <2>k. pc[r] = "opening" => u \in Ids /\ u # NoSession /\ sessions[u].key = Key(r) /\ entries[Key(r)] = NoSession
        BY <1>t, <1>r, <1>i DEF Keyed, Locked
    <2>n. Unclaimed(r) <=> pc[r] = "opening" /\ sessions[u].state \in {"ready", "dead"}
        BY DEF Unclaimed
    <2>q. /\ \A q \in Requests \ {r} : pc'[q] = pc[q] /\ using'[q] = using[q]
          /\ pc'[r] = "cancelled" /\ using'[r] = IF Unclaimed(r) THEN u ELSE NoSession
          /\ using' \in [Requests -> {NoSession} \cup Ids]
        BY <1>t, <2>a
    <2>s. /\ sessions' \in Seq(Session) /\ Ids' = Ids
          /\ \A i \in Ids : sessions'[i].key = sessions[i].key
          /\ \A i \in Ids : sessions'[i].state = sessions[i].state \/ (Pending /\ i = u)
          /\ Pending => sessions'[u].state = "abandoned"
        <3>1. CASE ~Pending
            <4>1. sessions' = sessions
                BY <1>10, <3>1 DEF Cancel
            <4>2. Ids' = Ids
                BY <4>1 DEF Ids
            <4> QED
                BY <1>t, <3>1, <4>1, <4>2
        <3>2. CASE Pending
            <4> DEFINE s == [sessions[u] EXCEPT !.state = "abandoned"]
            <4>1. s \in Session /\ s.key = sessions[u].key /\ s.state = "abandoned"
                <5>1. sessions[u] \in Session
                    BY <1>t, <2>k, <3>2, IdsAreNumbers
                <5> HIDE DEF u
                <5> QED
                    BY <5>1, StateChanged DEF States
            <4>2. sessions' = [sessions EXCEPT ![u] = s]
                BY <1>t, <1>10, <2>k, <3>2 DEF Cancel, Ids
            <4> HIDE DEF s
            <4>3. u \in Ids
                BY <2>k, <3>2
            <4> HIDE DEF u
            <4>4. /\ sessions' \in Seq(Session) /\ Ids' = Ids
                  /\ sessions'[u] = s /\ \A i \in Ids \ {u} : sessions'[i] = sessions[i]
                  /\ \A i \in Ids : sessions'[i].key = sessions[i].key
                BY <1>t, <4>1, <4>2, <4>3, OneChanges
            <4> QED
                BY <3>2, <4>1, <4>4
        <3> QED
            BY <3>1, <3>2
    <2>T. TypeOK' /\ deaths' =< faults'
        BY <1>t, <1>r, <2>a, <2>q, <2>s DEF TypeOK, Session, PCs
    <2>L. Locked'
        BY <1>t, <1>r, <1>i, <2>a DEF Locked
    <2>K. Keyed'
        <3> HIDE DEF u
        <3>1. ASSUME NEW q \in Requests
              PROVE  /\ pc'[q] \in {"expire", "opening", "calling"} => using'[q] # NoSession
                     /\ using'[q] # NoSession => sessions'[using'[q]].key = Key(q)
            <4>1. CASE q = r
                BY <2>k, <2>n, <2>q, <2>s, <4>1
            <4>2. CASE q # r
                <5>1. pc'[q] = pc[q] /\ using'[q] = using[q] /\ using[q] \in {NoSession} \cup Ids
                    BY <1>t, <2>q, <4>2
                <5>2. /\ pc[q] \in {"expire", "opening", "calling"} => using[q] # NoSession
                      /\ using[q] # NoSession => sessions[using[q]].key = Key(q)
                    BY <1>i DEF Keyed
                <5> QED
                    BY <2>s, <5>1, <5>2
            <4> QED
                BY <4>1, <4>2
        <3>2. ASSUME NEW k \in Principals, entries'[k] # NoSession
              PROVE  sessions'[entries'[k]].key = k /\ sessions'[entries'[k]].state \in {"ready", "dead"}
            <4>1. entries'[k] = entries[k] /\ entries[k] \in Ids
                BY <1>t, <2>a, <3>2
            <4>2. sessions[entries[k]].key = k /\ sessions[entries[k]].state \in {"ready", "dead"}
                BY <1>i, <3>2, <4>1 DEF Keyed
            <4>3. ~(Pending /\ entries[k] = u)
                BY <4>2
            <4> QED
                BY <2>s, <4>1, <4>2, <4>3
        <3> QED
            BY <3>1, <3>2 DEF Keyed
    <2>N. NotYetCalled'
        BY <1>t, <1>i, <2>q DEF NotYetCalled
    <2>F. FailedOver'
        <3>1. ASSUME NEW q \in Requests, attempt[q] > 0
              PROVE  failed[q] # NoSession /\ sessions'[failed[q]].state \in Over
            <4>1. failed[q] \in Ids /\ failed[q] # NoSession /\ sessions[failed[q]].state \in Over
                BY <1>t, <1>i, <3>1 DEF FailedOver
            <4> HIDE DEF u
            <4> QED
                BY <2>s, <4>1 DEF Over
        <3> QED
            BY <2>a, <3>1 DEF FailedOver
    <2>W. Waiting'
        <3>1. ASSUME NEW q \in Requests \ {r}, pc[q] \in {"expire", "discard"}, using[q] # NoSession
              PROVE  sessions'[using[q]].state \in Over
            <4>1. using[q] \in Ids /\ sessions[using[q]].state \in Over
                BY <1>t, <1>i, <3>1 DEF Waiting
            <4> HIDE DEF u
            <4> QED
                BY <2>s, <4>1 DEF Over
        <3> QED
            BY <1>i, <2>q, <3>1 DEF Waiting
    <2>o. ASSUME Unclaimed(r)
          PROVE  /\ \A k \in Principals : entries[k] # u
                 /\ \A q \in Requests \ {r} : using[q] # u
        <3>1. /\ u \in Ids /\ u # NoSession /\ sessions[u].key = Key(r) /\ entries[Key(r)] = NoSession
              /\ pc[r] = "opening" /\ sessions[u].state \in {"ready", "dead"}
            BY <2>k, <2>n, <2>o
        <3>2. ASSUME NEW k \in Principals PROVE entries[k] # u
            BY <1>i, <3>1 DEF Keyed
        <3>3. ASSUME NEW q \in Requests \ {r}, using[q] = u PROVE FALSE
            <4>1. Key(q) = Key(r) /\ pc[q] \in PCs
                BY <1>t, <1>i, <3>1, <3>3 DEF Keyed
            <4>2. pc[q] # "opening"
                BY <1>i, <3>1, <4>1 DEF Locked
            <4>3. pc[q] # "calling"
                BY <1>i, <3>1, <3>3 DEF NotYetCalled
            <4>4. pc[q] # "cancelled"
                BY <1>i, <3>1, <3>3 DEF Left
            <4>5. pc[q] \notin {"acquire", "done", "error", "expire", "discard"}
                BY <1>i, <3>1, <3>3 DEF Waiting, Over
            <4> QED
                BY <4>1, <4>2, <4>3, <4>4, <4>5 DEF PCs
        <3> QED
            BY <3>2, <3>3
    <2>B. Left'
        <3>1. ASSUME NEW q \in Requests, pc'[q] = "cancelled", using'[q] # NoSession
              PROVE  /\ sessions'[using'[q]].state \in {"ready", "dead"}
                     /\ \A k \in Principals : entries'[k] # using'[q]
                     /\ \A p \in Requests \ {q} : using'[p] # using'[q]
            <4>1. CASE q = r
                <5>1. Unclaimed(r) /\ using'[q] = u
                    BY <2>q, <3>1, <4>1
                <5>2. u \in Ids /\ sessions[u].state \in {"ready", "dead"} /\ ~Pending
                    BY <2>k, <2>n, <5>1
                <5>3. sessions'[u].state \in {"ready", "dead"}
                    <6> HIDE DEF u
                    <6> QED
                        BY <2>s, <5>2
                <5> QED
                    BY <2>a, <2>o, <2>q, <4>1, <5>1, <5>3
            <4>2. CASE q # r
                <5>1. /\ pc[q] = "cancelled" /\ using'[q] = using[q] /\ using[q] \in Ids
                      /\ sessions[using[q]].state \in {"ready", "dead"}
                      /\ \A k \in Principals : entries[k] # using[q]
                      /\ \A p \in Requests \ {q} : using[p] # using[q]
                    BY <1>t, <1>i, <2>q, <3>1, <4>2 DEF Left
                <5>2. sessions'[using[q]].state \in {"ready", "dead"}
                    BY <2>s, <5>1
                <5>3. using'[r] \in {using[r], NoSession}
                    BY <2>q
                <5> QED
                    BY <2>a, <2>q, <3>1, <4>2, <5>1, <5>2, <5>3
            <4> QED
                BY <4>1, <4>2
        <3> QED
            BY <3>1 DEF Left
    <2>l. \A i : Lost(i) => Lost(i)'
        <3>1. pc[r] # "cancelled"
            BY <2>a DEF Ended
        <3> QED
            BY <2>q, <3>1, LostStays
    <2>A. Owned'
        <3>1. ASSUME NEW i \in Ids', sessions'[i].state \in Live, ~Lost(i)'
              PROVE  HeldAt(i, sessions[i].key)'
            <4>1. i \in Ids /\ sessions[i].state \in Live /\ ~(Pending /\ i = u)
                BY <2>s, <3>1 DEF Live
            <4>2. ~Lost(i)
                BY <2>l, <3>1
            <4>3. HeldAt(i, sessions[i].key) /\ sessions[i].key \in Principals
                BY <1>t, <1>i, <4>1, <4>2, IdsAreNumbers DEF Owned, Session
            <4>4. ~(pc[r] = "opening" /\ i = u)
                <5>1. ASSUME pc[r] = "opening", i = u PROVE Lost(i)'
                    <6>1. sessions[u].state \in Live /\ sessions[u].state # "opening"
                        BY <4>1, <5>1
                    <6>2. Unclaimed(r)
                        BY <2>n, <5>1, <6>1 DEF Live
                    <6>3. pc'[r] = "cancelled" /\ using'[r] = i
                        BY <2>q, <5>1, <6>2
                    <6> QED
                        BY <6>3 DEF Lost
                <5> QED
                    BY <3>1, <5>1
            <4>6. /\ \A k \in Principals : lock[k] # r => lock'[k] = lock[k]
                  /\ entries' = entries /\ sessions'[i].key = sessions[i].key
                BY <1>t, <1>r, <2>a, <2>s, <4>1
            <4>7. CASE entries[sessions[i].key] = i
                BY <4>6, <4>7 DEF HeldAt
            <4>8. CASE entries[sessions[i].key] # i
                <5> DEFINE k == sessions[i].key
                <5>1. /\ entries[k] = NoSession /\ lock[k] # NoRequest /\ lock[k] \in Requests
                      /\ pc[lock[k]] = "opening" /\ using[lock[k]] = i
                    BY <1>t, <4>3, <4>8 DEF HeldAt
                <5>2. lock[k] # r
                    BY <4>4, <5>1
                <5>3. lock'[k] = lock[k] /\ pc'[lock[k]] = "opening" /\ using'[lock[k]] = i
                    BY <2>q, <4>3, <4>6, <5>1, <5>2
                <5> QED
                    BY <4>6, <5>1, <5>3 DEF HeldAt
            <4> QED
                BY <4>7, <4>8
        <3> QED
            BY <2>s, <3>1 DEF Owned
    <2>C. \A q \in Requests : Counted(q)'
        BY <1>t, <1>c, <2>a DEF Counted, Attempts
    <2>R. RetriedElsewhere'
        BY <1>t, <1>i, <2>a, <2>q DEF RetriedElsewhere
    <2> QED
        BY <2>T, <2>L, <2>K, <2>N, <2>F, <2>W, <2>B, <2>A, <2>C, <2>R DEF PoolInv
<1>11. ASSUME NEW j \in Ids, SessionStep(j) \/ HandshakeFails(j) \/ Dies(j) PROVE PoolInv'
    <2>a. PICK state \in States :
            /\ sessions' = [sessions EXCEPT ![j].state = state]
            /\ \/ sessions[j].state = "opening" /\ state \in {"ready", "gone"}
               \/ sessions[j].state = "ready" /\ state = "dead"
               \/ sessions[j].state \in Over /\ state = "gone"
            /\ faults' \in 0 .. MaxFaults /\ deaths' \in 0 .. MaxFaults /\ deaths' =< faults'
            /\ UNCHANGED <<now, entries, lock, pc, attempt, using, failed, sent>>
        <3>1. CASE HandshakeDone(j)
            BY <1>t, <3>1 DEF HandshakeDone, States
        <3>2. CASE TaskEnds(j)
            BY <1>t, <3>2 DEF TaskEnds, States, Over
        <3>3. CASE HandshakeFails(j)
            BY <1>t, <3>3, NumberAssumption DEF HandshakeFails, States
        <3>4. CASE Dies(j)
            BY <1>t, <3>4, NumberAssumption DEF Dies, States
        <3> QED
            BY <1>11, <3>1, <3>2, <3>3, <3>4 DEF SessionStep
    <2>s. /\ sessions' \in Seq(Session) /\ Ids' = Ids
          /\ \A i \in Ids : sessions'[i].key = sessions[i].key
          /\ \A i \in Ids : i # j => sessions'[i].state = sessions[i].state
          /\ sessions'[j].state = state
        <3> DEFINE s == [sessions[j] EXCEPT !.state = state]
        <3>0. sessions[j] \in Session
            BY <1>t, IdsAreNumbers
        <3>1. s \in Session /\ s.key = sessions[j].key /\ s.state = state
            BY <3>0, StateChanged
        <3>2. sessions' = [sessions EXCEPT ![j] = s]
            BY <1>t, <2>a DEF Ids
        <3> HIDE DEF s
        <3>3. /\ sessions' \in Seq(Session) /\ Ids' = Ids
              /\ sessions'[j] = s /\ \A i \in Ids \ {j} : sessions'[i] = sessions[i]
              /\ \A i \in Ids : sessions'[i].key = sessions[i].key
            BY <1>t, <3>1, <3>2, OneChanges
        <3> QED
            BY <3>1, <3>3
    <2>u. UNCHANGED <<now, entries, lock, pc, attempt, using, failed, sent>>
        BY <2>a
    <2>T. TypeOK' /\ deaths' =< faults'
        BY <1>t, <2>a, <2>s DEF TypeOK, Session
    <2>L. Locked'
        BY <1>i, <2>u DEF Locked
    <2>K. Keyed'
        <3>1. ASSUME NEW q \in Requests, using[q] # NoSession
              PROVE  sessions'[using[q]].key = Key(q)
            BY <1>t, <1>i, <2>s, <3>1 DEF Keyed
        <3>2. ASSUME NEW k \in Principals, entries[k] # NoSession
              PROVE  sessions'[entries[k]].key = k /\ sessions'[entries[k]].state \in {"ready", "dead"}
            <4>1. /\ entries[k] \in Ids /\ sessions[entries[k]].key = k
                  /\ sessions[entries[k]].state \in {"ready", "dead"}
                BY <1>t, <1>i, <3>2 DEF Keyed
            <4> QED
                BY <2>a, <2>s, <4>1 DEF Over
        <3> QED
            BY <1>i, <2>u, <3>1, <3>2 DEF Keyed
    <2>N. NotYetCalled'
        BY <1>i, <2>u DEF NotYetCalled
    <2>F. FailedOver'
        <3>1. ASSUME NEW q \in Requests, attempt[q] > 0
              PROVE  failed[q] # NoSession /\ sessions'[failed[q]].state \in Over
            <4>1. failed[q] \in Ids /\ failed[q] # NoSession /\ sessions[failed[q]].state \in Over
                BY <1>t, <1>i, <3>1 DEF FailedOver
            <4> QED
                BY <2>a, <2>s, <4>1 DEF Over
        <3> QED
            BY <2>u, <3>1 DEF FailedOver
    <2>l. \A i : Lost(i)' = Lost(i)
        BY <2>u DEF Lost
    <2>W. Waiting'
        BY <1>t, <1>i, <2>a, <2>s, <2>u DEF Waiting, Over
    <2>B. Left'
        BY <1>t, <1>i, <2>a, <2>s, <2>u DEF Left, Over
    <2>A. Owned'
        <3>1. ASSUME NEW i \in Ids', sessions'[i].state \in Live, ~Lost(i)'
              PROVE  HeldAt(i, sessions[i].key)'
            <4>1. i \in Ids /\ sessions[i].state \in Live /\ ~Lost(i)
                BY <2>a, <2>s, <2>l, <3>1 DEF Live
            <4> QED
                BY <1>i, <2>u, <2>s, <4>1 DEF Owned, HeldAt
        <3> QED
            BY <2>s, <3>1 DEF Owned
    <2>C. \A q \in Requests : Counted(q)'
        BY <1>c, <2>u DEF Counted, Attempts
    <2>R. RetriedElsewhere'
        BY <1>i, <2>u DEF RetriedElsewhere
    <2> QED
        BY <2>T, <2>L, <2>K, <2>N, <2>F, <2>W, <2>B, <2>A, <2>C, <2>R DEF PoolInv
<1>12. CASE Tick \/ UNCHANGED vars
    <2>1. /\ now' \in 0 .. MaxTime
          /\ UNCHANGED <<faults, deaths, sessions, entries, lock, pc, attempt, using, failed, sent>>
        BY <1>12, <1>t, NumberAssumption DEF Tick, vars
    <2>2. Ids' = Ids
        BY <2>1 DEF Ids
    <2>3. TypeOK' /\ deaths' =< faults'
        BY <1>t, <2>1, <2>2 DEF TypeOK, Session
    <2>4. Locked' /\ Keyed' /\ NotYetCalled' /\ FailedOver' /\ Waiting' /\ Left'
        BY <1>i, <2>1 DEF Locked, Keyed, NotYetCalled, FailedOver, Waiting, Left
    <2>5. Owned' /\ RetriedElsewhere'
        BY <1>i, <2>1, <2>2 DEF Owned, HeldAt, Lost, RetriedElsewhere
    <2>6. \A q \in Requests : Counted(q)'
        BY <1>c, <2>1 DEF Counted, Attempts
    <2> QED
        BY <2>3, <2>4, <2>5, <2>6 DEF PoolInv
<1> QED
    BY <1>1, <1>2, <1>3, <1>4, <1>5, <1>6, <1>7, <1>8, <1>9, <1>10, <1>11, <1>12
    DEF Next, RequestStep

\* What the invariant says of the runs' properties.
LEMMA PoolPromises == PoolInv => SentOnce /\ RetriedElsewhere /\ NoLeak
<1> SUFFICES ASSUME PoolInv PROVE SentOnce /\ NoLeak
    BY DEF PoolInv
<1>1. SentOnce
    BY DEF PoolInv, Counted, SentOnce
<1>2. ASSUME NEW i \in Ids, sessions[i].state \in Live
      PROVE  LET k == sessions[i].key IN
             \/ entries[k] = i
             \/ entries[k] = NoSession /\ \E r \in Requests :
                   lock[k] = r /\ pc[r] = "opening" /\ using[r] = i
             \/ \E r \in Requests :
                   /\ LeftBehind(r, i) /\ Key(r) = k /\ sessions[i].state # "opening"
                   /\ \A p \in Principals : entries[p] # i
                   /\ \A q \in Requests \ {r} : using[q] # i
    <2> DEFINE k == sessions[i].key
    <2>1. k \in Principals /\ i # NoSession
        BY IdsAreNumbers DEF PoolInv, TypeOK, Session
    <2>2. HeldAt(i, k) \/ Lost(i)
        BY <1>2 DEF PoolInv, Owned
    <2>3. CASE HeldAt(i, k)
        <3>1. lock[k] \in {NoRequest} \cup Requests
            BY <2>1 DEF PoolInv, TypeOK
        <3> QED
            BY <2>3, <3>1 DEF HeldAt
    <2>4. CASE Lost(i)
        <3>1. PICK r \in Requests : pc[r] = "cancelled" /\ using[r] = i
            BY <2>4 DEF Lost
        <3>2. /\ Key(r) = k /\ sessions[i].state # "opening"
              /\ \A p \in Principals : entries[p] # i
              /\ \A q \in Requests \ {r} : using[q] # i
            BY <2>1, <3>1 DEF PoolInv, Keyed, Left
        <3> QED
            BY <3>1, <3>2 DEF LeftBehind
    <2> QED
        BY <2>2, <2>3, <2>4
<1> QED
    BY <1>1, <1>2 DEF NoLeak, Live

\* The pool runs alone or behind the door.
LEMMA PoolAlone == Spec => []PoolInv
BY PoolStarts, PoolStep, PTL DEF Spec

LEMMA GatewayMoves == [GatewayNext]_gateway => [Next]_vars
<1> SUFFICES ASSUME [GatewayNext]_gateway PROVE [Next]_vars
    OBVIOUS
<1>1. CASE UNCHANGED gateway
    BY <1>1 DEF gateway
<1>2. CASE \E c \in Clients : Post(c) \/ DoorStep(c) \/ Breaks(c) \/ Delete(c) \/ Idle(c)
    BY <1>2 DEF Post, DoorStep, Registers, Answers, Breaks, Leaves, Delete, Idle, Becomes
<1>3. CASE \E r \in Requests : Serve(r) \/ Abandon(r)
    BY <1>3 DEF Serve, Abandon, Next
<1>4. CASE Backend
    BY <1>4 DEF Backend, Next
<1> QED
    BY <1>1, <1>2, <1>3, <1>4 DEF GatewayNext

LEMMA PoolBehindDoor == GatewaySpec => []PoolInv
<1>1. GatewayInit => Init
    BY DEF GatewayInit
<1> QED
    BY <1>1, PoolStarts, PoolStep, GatewayMoves, PTL DEF GatewaySpec

-----------------------------------------------------------------------------
(* The door keeps its invariant *)

Transports == Registered \cup {"entered"}

\* A sandbox that gets no new transport stays within the limit.
LEMMA NoneMore ==
    ASSUME DoorInv, NEW p \in Principals, At(p, Transports)' \subseteq At(p, Transports)
    PROVE  IsFiniteSet(At(p, Transports)') /\ Cardinality(At(p, Transports)') =< MaxSessions
<1>1. IsFiniteSet(At(p, Transports)) /\ Cardinality(At(p, Transports)) =< MaxSessions
    BY DEF DoorInv, WithinSessions, Transports
<1>2. /\ IsFiniteSet(At(p, Transports)') /\ Cardinality(At(p, Transports)') =< Cardinality(At(p, Transports))
    BY <1>1, FS_Subset
<1>3. Cardinality(At(p, Transports)) \in Nat /\ Cardinality(At(p, Transports)') \in Nat
    BY <1>1, <1>2, FS_CardinalityType
<1> QED
    BY <1>1, <1>2, <1>3, MaxSessionsAssumption

LEMMA DoorStarts == GatewayInit => DoorInv
<1> SUFFICES ASSUME GatewayInit PROVE DoorInv
    OBVIOUS
<1>1. ASSUME NEW p \in Principals
      PROVE  At(p, Transports) = {} /\ At(p, Opening) = {}
    BY DEF GatewayInit, At, Transports, Registered, Opening
<1>2. client \in [Clients -> ClientStates] /\ opening \in [Principals -> Nat]
    BY DEF GatewayInit, ClientStates
<1> QED
    BY <1>1, <1>2, FS_EmptySet, MaxSessionsAssumption
    DEF GatewayInit, DoorInv, WithinSessions, Transports

\* The parts of the invariant, for a step that follows.
LEMMA DoorOfParts ==
    ASSUME client' \in [Clients -> ClientStates], opening' \in [Principals -> Nat],
           \A p \in Principals :
             /\ IsFiniteSet(At(p, Transports)') /\ Cardinality(At(p, Transports)') =< MaxSessions
             /\ opening'[p] = Cardinality(At(p, Opening)')
    PROVE  DoorInv'
BY DEF DoorInv, WithinSessions, Transports

\* A POST that is refused, or takes a slot.
LEMMA PostKeeps ==
    ASSUME DoorInv, NEW c \in Clients, Post(c)
    PROVE  DoorInv'
<1> DEFINE p == HomeOf[c]
           A == At(p, Registered \ {"terminated"})
           B == At(p, Opening)
<1>t. /\ client \in [Clients -> ClientStates] /\ opening \in [Principals -> Nat]
      /\ p \in Principals /\ client[c] = "out"
    BY ClientAssumption DEF DoorInv, Post
<1>1. /\ IsFiniteSet(A) /\ IsFiniteSet(B)
      /\ LiveSessions(p) = Cardinality(A) /\ opening[p] = Cardinality(B)
      /\ Cardinality(A) \in Nat /\ Cardinality(B) \in Nat
    <2>1. IsFiniteSet(At(p, Transports)) /\ A \subseteq At(p, Transports) /\ B \subseteq At(p, Transports)
        BY <1>t DEF DoorInv, Transports, At, Registered, Opening
    <2> QED
        BY <1>t, <2>1, FS_Subset, FS_CardinalityType DEF DoorInv, LiveSessions
<1>2. ASSUME NEW q \in Principals, q # p
      PROVE  /\ At(q, Transports)' = At(q, Transports) /\ At(q, Opening)' = At(q, Opening)
             /\ opening'[q] = opening[q]
    BY <1>t, <1>2 DEF Post, Purged, At
<1>3. CASE LiveSessions(p) + opening[p] >= MaxSessions
    <2>1. client' = [Purged(p) EXCEPT ![c] = "refused"] /\ opening' = opening
        BY <1>3 DEF Post
    <2>2. \A d \in Clients : client'[d] = IF d = c THEN "refused"
                               ELSE IF d \in At(p, {"terminated"}) THEN "gone" ELSE client[d]
        BY <2>1 DEF Purged
    <2>3. client' \in [Clients -> ClientStates]
        BY <1>t, <2>1 DEF Purged, ClientStates
    <2>4. At(p, Transports)' \subseteq At(p, Transports)
        BY <2>2 DEF At, Transports, Registered
    <2>5. At(p, Opening)' = At(p, Opening)
        BY <1>t, <2>2 DEF At, Opening
    <2>6. ASSUME NEW q \in Principals
          PROVE  /\ IsFiniteSet(At(q, Transports)') /\ Cardinality(At(q, Transports)') =< MaxSessions
                 /\ opening'[q] = Cardinality(At(q, Opening)')
        <3>1. At(q, Transports)' \subseteq At(q, Transports) /\ At(q, Opening)' = At(q, Opening)
            BY <1>2, <2>4, <2>5
        <3> QED
            BY <2>1, <3>1, NoneMore DEF DoorInv
    <2> QED
        BY <1>t, <2>1, <2>3, <2>6, DoorOfParts
<1>4. CASE ~(LiveSessions(p) + opening[p] >= MaxSessions)
    <2>1. client' = [Purged(p) EXCEPT ![c] = "entered"] /\ opening' = [opening EXCEPT ![p] = @ + 1]
        BY <1>4 DEF Post
    <2>2. \A d \in Clients : client'[d] = IF d = c THEN "entered"
                               ELSE IF d \in At(p, {"terminated"}) THEN "gone" ELSE client[d]
        BY <2>1 DEF Purged
    <2>3. client' \in [Clients -> ClientStates] /\ opening' \in [Principals -> Nat]
        BY <1>t, <2>1 DEF Purged, ClientStates, Opening
    <2>4. At(p, Transports)' \subseteq (A \cup B) \cup {c}
        BY <2>2 DEF At, Transports, Registered, Opening
    <2>5. At(p, Opening)' = B \cup {c} /\ c \notin B /\ c \notin A
        BY <1>t, <2>2 DEF At, Opening, Registered
    <2> HIDE DEF A, B
    <2>6. /\ IsFiniteSet(A \cup B)
          /\ Cardinality(A \cup B) =< Cardinality(A) + Cardinality(B) /\ Cardinality(A \cup B) \in Nat
        <3>1. IsFiniteSet(A \cup B) /\ IsFiniteSet(A \cap B)
            BY <1>1, FS_Union, FS_Subset
        <3>2. Cardinality(A \cup B) = Cardinality(A) + Cardinality(B) - Cardinality(A \cap B)
            BY <1>1, FS_Union
        <3> QED
            BY <1>1, <3>1, <3>2, FS_CardinalityType
    <2>7. /\ IsFiniteSet((A \cup B) \cup {c})
          /\ Cardinality((A \cup B) \cup {c}) = Cardinality(A \cup B) + 1
        BY <2>5, <2>6, FS_AddElement
    <2>8. /\ IsFiniteSet(At(p, Transports)')
          /\ Cardinality(At(p, Transports)') =< Cardinality((A \cup B) \cup {c})
          /\ Cardinality(At(p, Transports)') \in Nat
        BY <2>4, <2>7, FS_Subset, FS_CardinalityType
    <2>9. Cardinality(At(p, Transports)') =< MaxSessions
        BY <1>1, <1>4, <2>6, <2>7, <2>8, MaxSessionsAssumption
    <2>10. opening'[p] = Cardinality(At(p, Opening)')
        <3>1. Cardinality(B \cup {c}) = Cardinality(B) + 1
            BY <1>1, <2>5, FS_AddElement
        <3> QED
            BY <1>1, <1>t, <2>1, <2>5, <3>1
    <2>11. ASSUME NEW q \in Principals
           PROVE  /\ IsFiniteSet(At(q, Transports)') /\ Cardinality(At(q, Transports)') =< MaxSessions
                  /\ opening'[q] = Cardinality(At(q, Opening)')
        <3>1. CASE q = p
            BY <2>8, <2>9, <2>10, <3>1
        <3>2. CASE q # p
            BY <1>2, <3>2, NoneMore DEF DoorInv
        <3> QED
            BY <3>1, <3>2
    <2> QED
        BY <2>3, <2>11, DoorOfParts
<1> QED
    BY <1>3, <1>4

\* A client that leaves handle_request gives its slot back.
LEMMA LeavesKeeps ==
    ASSUME DoorInv, NEW c \in Clients, client[c] \in Opening,
           NEW state \in {"live", "orphan", "gone"}, Leaves(c, state),
           state # "gone" => client[c] = "registered"
    PROVE  DoorInv'
<1> DEFINE p == HomeOf[c]
<1>t. /\ client \in [Clients -> ClientStates] /\ opening \in [Principals -> Nat] /\ p \in Principals
      /\ client' = [client EXCEPT ![c] = state] /\ opening' = [opening EXCEPT ![p] = @ - 1]
    BY ClientAssumption DEF DoorInv, Leaves
<1>1. \A q \in Principals : At(q, Transports)' \subseteq At(q, Transports)
    BY <1>t DEF At, Transports, Registered, Opening
<1>2. c \in At(p, Opening) /\ At(p, Opening)' = At(p, Opening) \ {c}
    BY <1>t DEF At, Opening
<1>3. \A q \in Principals \ {p} : At(q, Opening)' = At(q, Opening) /\ opening'[q] = opening[q]
    BY <1>t DEF At
<1>4. IsFiniteSet(At(p, Opening)) /\ opening[p] = Cardinality(At(p, Opening))
    <2>1. At(p, Opening) \subseteq At(p, Transports) /\ IsFiniteSet(At(p, Transports))
        BY <1>t DEF At, Opening, Transports, Registered, DoorInv
    <2> QED
        BY <1>t, <2>1, FS_Subset DEF DoorInv
<1>5. /\ Cardinality(At(p, Opening)') = Cardinality(At(p, Opening)) - 1
      /\ Cardinality(At(p, Opening)') \in Nat
    BY <1>2, <1>4, FS_RemoveElement, FS_CardinalityType
<1>6. opening'[p] = Cardinality(At(p, Opening)') /\ opening' \in [Principals -> Nat]
    BY <1>t, <1>4, <1>5
<1>7. client' \in [Clients -> ClientStates]
    BY <1>t DEF ClientStates, Registered
<1>8. \A q \in Principals : opening'[q] = Cardinality(At(q, Opening)')
    BY <1>3, <1>6 DEF DoorInv
<1> QED
    BY <1>1, <1>6, <1>7, <1>8, NoneMore, DoorOfParts

\* What the sdk's manager does with a transport leaves the slots alone.
LEMMA BecomesKeeps ==
    ASSUME DoorInv, NEW c \in Clients, Registers(c) \/ Delete(c) \/ Idle(c)
    PROVE  DoorInv'
<1>t. /\ client \in [Clients -> ClientStates] /\ opening' = opening
    BY DEF DoorInv, Registers, Delete, Idle, Becomes
<1>1. PICK state \in {"registered", "terminated", "gone"} :
        /\ client' = [client EXCEPT ![c] = state]
        /\ client[c] \in Transports /\ (client[c] \in Opening <=> state \in Opening)
    BY DEF Registers, Delete, Idle, Becomes, Transports, Registered, Opening
<1>2. \A q \in Principals :
        At(q, Transports)' \subseteq At(q, Transports) /\ At(q, Opening)' = At(q, Opening)
    BY <1>t, <1>1 DEF At
<1>3. client' \in [Clients -> ClientStates]
    BY <1>t, <1>1 DEF ClientStates, Registered
<1>4. opening' \in [Principals -> Nat] /\ \A q \in Principals : opening'[q] = Cardinality(At(q, Opening)')
    BY <1>t, <1>2 DEF DoorInv
<1> QED
    BY <1>2, <1>3, <1>4, NoneMore, DoorOfParts

LEMMA DoorKeeps ==
    ASSUME DoorInv, [GatewayNext]_gateway
    PROVE  DoorInv'
<1>1. CASE UNCHANGED door
    BY <1>1 DEF door, DoorInv, WithinSessions, At
<1>2. CASE \E c \in Clients : Post(c) \/ DoorStep(c) \/ Breaks(c) \/ Delete(c) \/ Idle(c)
    <2> PICK c \in Clients : Post(c) \/ DoorStep(c) \/ Breaks(c) \/ Delete(c) \/ Idle(c)
        BY <1>2
    <2>1. CASE Post(c)
        BY <2>1, PostKeeps
    <2>2. CASE Answers(c)
        <3>1. client[c] \in Opening /\ client[c] = "registered" /\ Leaves(c, "live")
            BY <2>2 DEF Answers, Opening
        <3> QED
            BY <3>1, LeavesKeeps
    <2>3. CASE Breaks(c)
        <3>1. client[c] \in Opening
            BY <2>3 DEF Breaks
        <3>2. CASE client[c] = "registered"
            <4>1. Leaves(c, "orphan")
                BY <2>3, <3>2 DEF Breaks
            <4> QED
                BY <3>1, <3>2, <4>1, LeavesKeeps
        <3>3. CASE client[c] # "registered"
            <4>1. Leaves(c, "gone")
                BY <2>3, <3>3 DEF Breaks
            <4> QED
                BY <3>1, <4>1, LeavesKeeps
        <3> QED
            BY <3>2, <3>3
    <2>4. CASE Registers(c) \/ Delete(c) \/ Idle(c)
        BY <2>4, BecomesKeeps
    <2> QED
        BY <2>1, <2>2, <2>3, <2>4 DEF DoorStep
<1>3. CASE (\E r \in Requests : Serve(r) \/ Abandon(r)) \/ Backend
    BY <1>1, <1>3 DEF Serve, Abandon, Backend
<1> QED
    BY <1>1, <1>2, <1>3 DEF GatewayNext, gateway

LEMMA DoorInvariant == GatewaySpec => []DoorInv
BY DoorStarts, DoorKeeps, PTL DEF GatewaySpec

\* A POST is refused only while its sandbox holds or opens a session.
LEMMA RefusedForAReason ==
    ASSUME DoorInv, [GatewayNext]_gateway,
           NEW c \in Clients, client[c] = "out", client'[c] = "refused"
    PROVE  At(HomeOf[c], Opening \cup {"live", "orphan"}) # {}
<1> DEFINE p == HomeOf[c]
           A == At(p, Registered \ {"terminated"})
           B == At(p, Opening)
<1>t. /\ client \in [Clients -> ClientStates] /\ opening \in [Principals -> Nat] /\ p \in Principals
    BY ClientAssumption DEF DoorInv
<1>1. Post(c)
    <2>1. CASE UNCHANGED door
        BY <2>1 DEF door
    <2>2. CASE \E d \in Clients : Post(d) \/ DoorStep(d) \/ Breaks(d) \/ Delete(d) \/ Idle(d)
        <3> PICK d \in Clients : Post(d) \/ DoorStep(d) \/ Breaks(d) \/ Delete(d) \/ Idle(d)
            BY <2>2
        <3>1. CASE Post(d)
            <4>1. d = c
                BY <1>t, <3>1 DEF Post, Purged, At
            <4> QED
                BY <3>1, <4>1
        <3>2. CASE DoorStep(d) \/ Breaks(d) \/ Delete(d) \/ Idle(d)
            BY <1>t, <3>2
            DEF DoorStep, Registers, Answers, Breaks, Leaves, Delete, Idle, Becomes
        <3> QED
            BY <3>1, <3>2
    <2>3. CASE (\E r \in Requests : Serve(r) \/ Abandon(r)) \/ Backend
        BY <2>1, <2>3 DEF Serve, Abandon, Backend
    <2> QED
        BY <2>1, <2>2, <2>3 DEF GatewayNext, gateway
<1>2. Cardinality(A) + Cardinality(B) >= MaxSessions
    <2>1. LiveSessions(p) + opening[p] >= MaxSessions
        BY <1>t, <1>1 DEF Post, Purged
    <2> QED
        BY <1>t, <2>1 DEF LiveSessions, DoorInv
<1>3. A # {} \/ B # {}
    <2> HIDE DEF A, B
    <2> QED
        BY <1>2, FS_EmptySet, MaxSessionsAssumption
<1> QED
    BY <1>3 DEF At, Registered, Opening

-----------------------------------------------------------------------------
(* The theorems *)

\* A tool call is put to a backend at most once and a listing at most twice,
\* with the pool alone and behind the door (gateway.py, Sessions.call).
THEOREM ToolCalledOnce == (Spec => []SentOnce) /\ (GatewaySpec => []SentOnce)
BY PoolAlone, PoolBehindDoor, PoolPromises, PTL

\* A second attempt runs on another session than the one the first failed on
\* (gateway.py, Sessions.discard).
THEOREM RetriedOnAnother ==
    (Spec => []RetriedElsewhere) /\ (GatewaySpec => []RetriedElsewhere)
BY PoolAlone, PoolBehindDoor, PoolPromises, PTL

\* A session leaks only when the request that opened it is cancelled between
\* its handshake and the request's next step, and is then no one else's; any
\* other that was not released is the session of its key or is being opened by
\* the holder of the key's lock (gateway.py, Sessions.acquire).
THEOREM SessionsNotLeaked == (Spec => []NoLeak) /\ (GatewaySpec => []NoLeak)
BY PoolAlone, PoolBehindDoor, PoolPromises, PTL

\* No sandbox has more than MAX_SESSIONS transports (gateway.py, handle).
THEOREM DoorHolds == GatewaySpec => []WithinSessions
<1>1. DoorInv => WithinSessions
    BY DEF DoorInv
<1> QED
    BY <1>1, DoorInvariant, PTL

\* A sandbox is refused only while it has a session or is opening one
\* (gateway.py, live_sessions and the finally of handle).
THEOREM NotLockedOut == GatewaySpec => NoLockout
<1>1. DoorInv /\ [GatewayNext]_gateway =>
        [\A c \in Clients :
           (client[c] = "out" /\ client'[c] = "refused") =>
               At(HomeOf[c], Opening \cup {"live", "orphan"}) # {}]_gateway
    BY RefusedForAReason
<1> QED
    BY <1>1, DoorInvariant, PTL DEF GatewaySpec, NoLockout
=============================================================================
