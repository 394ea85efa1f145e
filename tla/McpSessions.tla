---------------------------- MODULE McpSessions ----------------------------
(***************************************************************************)
(* The MCP gateway's pool of backend sessions (gateway.py: Open, Sessions) *)
(* and the requests that use it: list_tools and call_tool of any sandbox.  *)
(*                                                                         *)
(* asyncio runs one task at a time, so an action is what a task does from  *)
(* one await to the next.  One backend is modelled; a key of the pool is   *)
(* then the principal, the sandbox a request came from.                    *)
(***************************************************************************)
EXTENDS Integers, Sequences, FiniteSets

CONSTANTS
    Requests,      \* requests, each made once
    Principals,    \* sandboxes
    PrincipalOf,   \* the sandbox a request came from
    Listings,      \* the requests that are list_tools; the others call_tool
    Window,        \* IDLE_WINDOW
    MaxTime,       \* bound: how far the clock runs
    MaxFaults      \* bound: session deaths, failed handshakes and error answers

ASSUME RequestAssumption ==
    /\ PrincipalOf \in [Requests -> Principals] /\ Listings \subseteq Requests
ASSUME NumberAssumption == Window \in Nat \ {0} /\ MaxTime \in Nat /\ MaxFaults \in Nat

NoSession == 0
NoRequest == "none"
ASSUME NoRequestAssumption == NoRequest \notin Requests

\* Sessions.call is keyed by principal and server.
Key(r) == PrincipalOf[r]
Attempts(r) == IF r \in Listings THEN 2 ELSE 1

VARIABLES
    now,       \* time.monotonic()
    faults,    \* bounded counter of what went wrong by itself
    deaths,    \* history: of those, the sessions that died
    sessions,  \* every Open ever made, in order: [key, used, state]
    entries,   \* Sessions.entries: the session of a key
    lock,      \* Sessions.locks: the request holding the lock of a key
    pc,        \* where a request is
    attempt,   \* attempts left behind
    using,     \* the session acquire returned, the one being waited for, or
               \* the one a cancelled request left behind
    failed,    \* history: the session the last attempt failed on
    sent       \* history: how often the request was put to the backend

vars == <<now, faults, deaths, sessions, entries, lock, pc, attempt, using, failed, sent>>

(* An Open is "opening" until its handshake is over, then "ready"; "dead"   *)
(* when the backend went away behind it; "abandoned" when the request that  *)
(* awaited its handshake was cancelled, which cancels the future hold will  *)
(* try to set; "closing" once released; "gone" when its task has ended.     *)
Ids == DOMAIN sessions
States == {"opening", "ready", "dead", "abandoned", "closing", "gone"}
PCs == {"acquire", "expire", "opening", "calling", "discard", "done", "error", "cancelled"}
Ended == {"done", "error", "cancelled"}

TypeOK ==
    /\ now \in 0 .. MaxTime /\ faults \in 0 .. MaxFaults /\ deaths \in 0 .. MaxFaults
    /\ sessions \in Seq([key : Principals, used : Nat, state : States])
    /\ entries \in [Principals -> {NoSession} \cup Ids]
    /\ lock \in [Principals -> {NoRequest} \cup Requests]
    /\ pc \in [Requests -> PCs]
    /\ attempt \in [Requests -> 0 .. 2]
    /\ using \in [Requests -> {NoSession} \cup Ids]
    /\ failed \in [Requests -> {NoSession} \cup Ids]
    /\ sent \in [Requests -> Nat]

Init ==
    /\ now = 0 /\ faults = 0 /\ deaths = 0
    /\ sessions = <<>>
    /\ entries = [k \in Principals |-> NoSession]
    /\ lock = [k \in Principals |-> NoRequest]
    /\ pc = [r \in Requests |-> "acquire"]
    /\ attempt = [r \in Requests |-> 0]
    /\ using = [r \in Requests |-> NoSession]
    /\ failed = [r \in Requests |-> NoSession]
    /\ sent = [r \in Requests |-> 0]

Goto(r, label) == pc' = [pc EXCEPT ![r] = label]
\* Mutant: the lock is not released.
UnlockForgotten(r) == UNCHANGED lock

Unlock(r) == lock' = [lock EXCEPT ![Key(r)] = NoRequest]

\* aclose sets the release event; a task that ended stays ended.
Released(s) == IF s.state \in {"ready", "dead"} THEN [s EXCEPT !.state = "closing"] ELSE s

-----------------------------------------------------------------------------
(* Sessions.acquire, under the lock of the key *)

\* Open(server): the entry is made, its task starts the handshake.
Open(r) ==
    /\ sessions' = Append(sessions, [key |-> Key(r), used |-> now, state |-> "opening"])
    /\ using' = [using EXCEPT ![r] = Len(sessions) + 1]
    /\ Goto(r, "opening")

Fresh(e) == e # NoSession /\ now - sessions[e].used < Window

\* The session of the key is inside the window: use it.
Reuse(r) ==
    LET e == entries[Key(r)] IN
    /\ pc[r] = "acquire" /\ lock[Key(r)] = NoRequest
    /\ Fresh(e)
    /\ sessions' = [sessions EXCEPT ![e].used = now]
    /\ using' = [using EXCEPT ![r] = e]
    /\ sent' = [sent EXCEPT ![r] = @ + 1]
    /\ Goto(r, "calling")
    /\ UNCHANGED <<now, faults, deaths, entries, lock, attempt, failed>>

\* It is past the window: take it out and wait for its task to end.
Expire(r) ==
    LET e == entries[Key(r)] IN
    /\ pc[r] = "acquire" /\ lock[Key(r)] = NoRequest
    /\ e # NoSession /\ ~Fresh(e)
    /\ lock' = [lock EXCEPT ![Key(r)] = r]
    /\ entries' = [entries EXCEPT ![Key(r)] = NoSession]
    /\ sessions' = [sessions EXCEPT ![e] = Released(@)]
    /\ using' = [using EXCEPT ![r] = e]
    /\ Goto(r, "expire")
    /\ UNCHANGED <<now, faults, deaths, attempt, failed, sent>>

\* There is none, or the expired one is gone: open another.
OpenFirst(r) ==
    /\ pc[r] = "acquire" /\ lock[Key(r)] = NoRequest
    /\ entries[Key(r)] = NoSession
    /\ lock' = [lock EXCEPT ![Key(r)] = r]
    /\ Open(r)
    /\ UNCHANGED <<now, faults, deaths, entries, attempt, failed, sent>>

OpenAgain(r) ==
    /\ pc[r] = "expire" /\ sessions[using[r]].state = "gone"
    /\ Open(r)
    /\ UNCHANGED <<now, faults, deaths, entries, lock, attempt, failed, sent>>

\* ready has its result: the entry becomes the session of the key.
Opened(r) ==
    /\ pc[r] = "opening" /\ sessions[using[r]].state \in {"ready", "dead"}
    /\ entries' = [entries EXCEPT ![Key(r)] = using[r]]
    /\ Unlock(r)
    /\ sent' = [sent EXCEPT ![r] = @ + 1]
    /\ Goto(r, "calling")
    /\ UNCHANGED <<now, faults, deaths, sessions, attempt, using, failed>>

\* ready has an exception, which leaves acquire and call: no second attempt.
OpenRaised(r) ==
    /\ pc[r] = "opening" /\ sessions[using[r]].state = "gone"
    /\ Unlock(r)
    /\ using' = [using EXCEPT ![r] = NoSession]
    /\ Goto(r, "error")
    /\ UNCHANGED <<now, faults, deaths, sessions, entries, attempt, failed, sent>>

-----------------------------------------------------------------------------
(* Sessions.call *)

Answered(r) ==
    /\ pc[r] = "calling" /\ sessions[using[r]].state = "ready"
    /\ using' = [using EXCEPT ![r] = NoSession]
    /\ Goto(r, "done")
    /\ UNCHANGED <<now, faults, deaths, sessions, entries, lock, attempt, failed, sent>>

\* Mutant: the session is closed and stays the session of its key.
DiscardLeavesEntry(r) ==
    LET e == entries[Key(r)] IN
    /\ pc[r] = "calling"
    /\ failed' = [failed EXCEPT ![r] = using[r]]
    /\ attempt' = [attempt EXCEPT ![r] = @ + 1]
    /\ sessions' = IF e = NoSession THEN sessions ELSE [sessions EXCEPT ![e] = Released(@)]
    /\ using' = [using EXCEPT ![r] = e]
    /\ Goto(r, "discard")
    /\ UNCHANGED <<now, entries, lock, sent>>

\* discard(key) takes whatever session the key has now, without the lock, and
\* waits for its task when there is one.
Discard(r) ==
    LET e == entries[Key(r)] IN
    /\ pc[r] = "calling"
    /\ failed' = [failed EXCEPT ![r] = using[r]]
    /\ attempt' = [attempt EXCEPT ![r] = @ + 1]
    /\ entries' = [entries EXCEPT ![Key(r)] = NoSession]
    /\ sessions' = IF e = NoSession THEN sessions ELSE [sessions EXCEPT ![e] = Released(@)]
    /\ using' = [using EXCEPT ![r] = e]
    /\ Goto(r, "discard")
    /\ UNCHANGED <<now, lock, sent>>

\* The call fails because its session is no longer there ...
CallFails(r) ==
    /\ pc[r] = "calling" /\ sessions[using[r]].state # "ready"
    /\ Discard(r)
    /\ UNCHANGED <<faults, deaths>>

\* ... or because the backend answered with an error.
ErrorAnswer(r) ==
    /\ pc[r] = "calling" /\ sessions[using[r]].state = "ready"
    /\ faults < MaxFaults /\ faults' = faults + 1
    /\ Discard(r)
    /\ UNCHANGED deaths

\* Mutant: every request is tried twice.
DiscardedRetries(r) ==
    /\ pc[r] = "discard"
    /\ using[r] # NoSession => sessions[using[r]].state = "gone"
    /\ using' = [using EXCEPT ![r] = NoSession]
    /\ Goto(r, IF attempt[r] < 2 THEN "acquire" ELSE "error")
    /\ UNCHANGED <<now, faults, deaths, sessions, entries, lock, attempt, failed, sent>>

Discarded(r) ==
    /\ pc[r] = "discard"
    /\ using[r] # NoSession => sessions[using[r]].state = "gone"
    /\ using' = [using EXCEPT ![r] = NoSession]
    /\ Goto(r, IF attempt[r] < Attempts(r) THEN "acquire" ELSE "error")
    /\ UNCHANGED <<now, faults, deaths, sessions, entries, lock, attempt, failed, sent>>

\* ready has its result and the request that awaits it has not run since.
Unclaimed(r) == pc[r] = "opening" /\ sessions[using[r]].state \in {"ready", "dead"}

\* Mutant: the handshake runs on when the one who awaited it is gone.
CancelShielded(r) ==
    /\ pc[r] \notin Ended
    /\ Goto(r, "cancelled")
    /\ lock' = [lock EXCEPT ![Key(r)] = IF @ = r THEN NoRequest ELSE @]
    /\ using' = IF Unclaimed(r) THEN using ELSE [using EXCEPT ![r] = NoSession]
    /\ UNCHANGED <<now, faults, deaths, sessions, entries, attempt, failed, sent>>

\* The client cancels its request or goes away: CancelledError is not an
\* Exception, so nothing is discarded and nothing closed; the lock goes with
\* the task.  A future that is pending is cancelled with it; one that has its
\* result stays, and hold waits for a release that nobody is left to give.
Cancel(r) ==
    /\ pc[r] \notin Ended
    /\ Goto(r, "cancelled")
    /\ lock' = [lock EXCEPT ![Key(r)] = IF @ = r THEN NoRequest ELSE @]
    /\ sessions' =
         IF pc[r] = "opening" /\ sessions[using[r]].state = "opening"
         THEN [sessions EXCEPT ![using[r]].state = "abandoned"] ELSE sessions
    /\ using' = IF Unclaimed(r) THEN using ELSE [using EXCEPT ![r] = NoSession]
    /\ UNCHANGED <<now, faults, deaths, entries, attempt, failed, sent>>

-----------------------------------------------------------------------------
(* Open.hold and the backend *)

HandshakeDone(i) ==
    /\ sessions[i].state = "opening"
    /\ sessions' = [sessions EXCEPT ![i].state = "ready"]
    /\ UNCHANGED <<now, faults, deaths, entries, lock, pc, attempt, using, failed, sent>>

HandshakeFails(i) ==
    /\ sessions[i].state = "opening"
    /\ faults < MaxFaults /\ faults' = faults + 1
    /\ sessions' = [sessions EXCEPT ![i].state = "gone"]
    /\ UNCHANGED <<now, deaths, entries, lock, pc, attempt, using, failed, sent>>

\* The backend restarts or closes the connection; nothing notices.
Dies(i) ==
    /\ sessions[i].state = "ready"
    /\ faults < MaxFaults /\ faults' = faults + 1
    /\ deaths' = deaths + 1
    /\ sessions' = [sessions EXCEPT ![i].state = "dead"]
    /\ UNCHANGED <<now, entries, lock, pc, attempt, using, failed, sent>>

\* The task leaves its context managers: released, or unable to set a
\* cancelled future.
TaskEnds(i) ==
    /\ sessions[i].state \in {"closing", "abandoned"}
    /\ sessions' = [sessions EXCEPT ![i].state = "gone"]
    /\ UNCHANGED <<now, faults, deaths, entries, lock, pc, attempt, using, failed, sent>>

Tick ==
    /\ now < MaxTime
    /\ now' = now + 1
    /\ UNCHANGED <<faults, deaths, sessions, entries, lock, pc, attempt, using, failed, sent>>

-----------------------------------------------------------------------------
RequestStep(r) ==
    \/ Reuse(r) \/ Expire(r) \/ OpenFirst(r) \/ OpenAgain(r) \/ Opened(r) \/ OpenRaised(r)
    \/ Answered(r) \/ CallFails(r) \/ Discarded(r)

SessionStep(i) == HandshakeDone(i) \/ TaskEnds(i)

Next ==
    \/ \E r \in Requests : RequestStep(r) \/ ErrorAnswer(r) \/ Cancel(r)
    \/ \E i \in Ids : SessionStep(i) \/ HandshakeFails(i) \/ Dies(i)
    \/ Tick

Spec == Init /\ [][Next]_vars

-----------------------------------------------------------------------------
(* Properties *)

\* A tool call is put to a backend at most once, since it may have acted; a
\* listing at most twice (gateway.py:187, "a tool call may have acted on the
\* backend before the failure").
SentOnce == \A r \in Requests : sent[r] =< Attempts(r)

\* A second attempt never runs on the session the first one failed on.
RetriedElsewhere ==
    \A r \in Requests : (pc[r] = "calling" /\ attempt[r] > 0) => using[r] # failed[r]

\* The session a request left behind: it was cancelled after ready had its
\* result and before it ran again (gateway.py:175, acquire closes the entry on
\* an Exception only).
LeftBehind(r, i) == pc[r] = "cancelled" /\ using[r] = i

\* A session leaks in one way only: the request that opened it was cancelled
\* in the gap after its handshake.  Every other one that was not released is
\* the session of its key, or is being opened by the request that holds the
\* key's lock, whoever failed, expired or was cancelled in between; and one
\* that leaked is no key's session and no other request's.
NoLeak ==
    \A i \in Ids : sessions[i].state \in {"opening", "ready", "dead"} =>
        LET k == sessions[i].key IN
        \/ entries[k] = i
        \/ entries[k] = NoSession /\ \E r \in Requests :
              lock[k] = r /\ pc[r] = "opening" /\ using[r] = i
        \/ \E r \in Requests :
              /\ LeftBehind(r, i) /\ Key(r) = k /\ sessions[i].state # "opening"
              /\ \A p \in Principals : entries[p] # i
              /\ \A q \in Requests \ {r} : using[q] # i

\* The documentation: a session is reused for 30 seconds of idle time, and an
\* idle session is dropped.  A session with a call on it is not idle.
OnlyIdleDropped ==
    \A r, q \in Requests : (pc[r] = "expire" /\ pc[q] = "calling") => using[r] # using[q]

\* The documentation: a session can die without anything noticing, so the
\* first failure of a listing is retried rather than reported.  One death and
\* no other fault therefore fails no listing.
OneDeathUnnoticed ==
    (deaths = 1 /\ faults = 1) => \A r \in Listings : pc[r] # "error"
=============================================================================
