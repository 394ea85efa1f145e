----------------------------- MODULE McpGateway -----------------------------
(***************************************************************************)
(* The MCP gateway as a sandbox meets it (gateway.py: create_app, handle,  *)
(* live_sessions): a client opens a session at its sandbox's door, which   *)
(* holds MAX_SESSIONS of them, and its requests run on the pool of         *)
(* McpSessions.  What the sdk's session manager does is taken from how     *)
(* handle and live_sessions use it.                                        *)
(***************************************************************************)
EXTENDS McpSessions

CONSTANTS
    Clients,      \* clients, each opens a session once and may be refused
    HomeOf,       \* the sandbox a client is in
    CarrierOf,    \* the client that makes a request
    MaxSessions   \* MAX_SESSIONS

ASSUME ClientAssumption ==
    /\ HomeOf \in [Clients -> Principals] /\ CarrierOf \in [Requests -> Clients]
    /\ \A r \in Requests : PrincipalOf[r] = HomeOf[CarrierOf[r]]
ASSUME MaxSessionsAssumption == MaxSessions \in Nat \ {0}

VARIABLES
    client,   \* where a client and its transport are
    opening   \* opening[manager]

door == <<client, opening>>
gateway == <<vars, door>>

(* "entered" is inside handle_request without a transport yet; "registered" *)
(* has one and awaits the answer to its initialize; "live" knows its id;    *)
(* "orphan" was registered for a client that has left; "terminated" was     *)
(* closed with DELETE, and the sdk keeps the transport; "gone" is in no     *)
(* registry any more.                                                       *)
Opening == {"entered", "registered"}
Registered == {"registered", "live", "orphan", "terminated"}
ClientStates == {"out", "refused", "gone"} \cup Opening \cup Registered

At(p, states) == {c \in Clients : HomeOf[c] = p /\ client[c] \in states}

GatewayTypeOK ==
    /\ TypeOK
    /\ client \in [Clients -> ClientStates]
    /\ opening \in [Principals -> Nat]

GatewayInit ==
    /\ Init
    /\ client = [c \in Clients |-> "out"]
    /\ opening = [p \in Principals |-> 0]

-----------------------------------------------------------------------------
(* handle *)

\* live_sessions drops what was terminated and counts the rest.
Purged(p) == [c \in Clients |-> IF c \in At(p, {"terminated"}) THEN "gone" ELSE client[c]]
LiveSessions(p) == Cardinality(At(p, Registered \ {"terminated"}))

\* Mutants: the sdk's registry is counted as it is; a slot is taken only once
\* the session is there.
PostUnpurged(c) ==
    LET p == HomeOf[c] IN
    /\ client[c] = "out"
    /\ IF Cardinality(At(p, Registered)) + opening[p] >= MaxSessions
       THEN client' = [client EXCEPT ![c] = "refused"] /\ UNCHANGED opening
       ELSE /\ client' = [client EXCEPT ![c] = "entered"]
            /\ opening' = [opening EXCEPT ![p] = @ + 1]
    /\ UNCHANGED vars
PostUnreserved(c) ==
    LET p == HomeOf[c] IN
    /\ client[c] = "out"
    /\ IF LiveSessions(p) >= MaxSessions
       THEN client' = [Purged(p) EXCEPT ![c] = "refused"] /\ UNCHANGED opening
       ELSE /\ client' = [Purged(p) EXCEPT ![c] = "entered"]
            /\ opening' = [opening EXCEPT ![p] = @ + 1]
    /\ UNCHANGED vars

\* A POST without a session id: the check and the slot come before any await.
Post(c) ==
    LET p == HomeOf[c] IN
    /\ client[c] = "out"
    /\ IF LiveSessions(p) + opening[p] >= MaxSessions
       THEN client' = [Purged(p) EXCEPT ![c] = "refused"] /\ UNCHANGED opening
       ELSE /\ client' = [Purged(p) EXCEPT ![c] = "entered"]
            /\ opening' = [opening EXCEPT ![p] = @ + 1]
    /\ UNCHANGED vars

\* The finally of handle, whichever way handle_request ends.
Leaves(c, state) ==
    /\ client' = [client EXCEPT ![c] = state]
    /\ opening' = [opening EXCEPT ![HomeOf[c]] = @ - 1]
    /\ UNCHANGED vars

Answers(c) == client[c] = "registered" /\ Leaves(c, "live")

\* The client goes away or its initialize is refused.
Breaks(c) ==
    /\ client[c] \in Opening
    /\ Leaves(c, IF client[c] = "registered" THEN "orphan" ELSE "gone")

-----------------------------------------------------------------------------
(* StreamableHTTPSessionManager *)

Becomes(c, states, state) ==
    /\ client[c] \in states
    /\ client' = [client EXCEPT ![c] = state]
    /\ UNCHANGED <<opening, vars>>

Registers(c) == Becomes(c, {"entered"}, "registered")
Delete(c) == Becomes(c, {"live"}, "terminated")
Idle(c) == Becomes(c, {"live", "orphan"}, "gone")   \* session_idle_timeout

\* A request is made in a session; the sdk cancels those of a session that
\* ended.
Serve(r) ==
    /\ client[CarrierOf[r]] = "live" \/ pc[r] # "acquire" \/ attempt[r] > 0
    /\ RequestStep(r) \/ ErrorAnswer(r)
    /\ UNCHANGED door
Abandon(r) ==
    /\ client[CarrierOf[r]] \in {"live", "terminated", "gone"}
    /\ Cancel(r)
    /\ UNCHANGED door

Backend ==
    /\ Tick \/ \E i \in Ids : SessionStep(i) \/ HandshakeFails(i) \/ Dies(i)
    /\ UNCHANGED door

DoorStep(c) == Registers(c) \/ Answers(c)

GatewayNext ==
    \/ \E c \in Clients : Post(c) \/ DoorStep(c) \/ Breaks(c) \/ Delete(c) \/ Idle(c)
    \/ \E r \in Requests : Serve(r) \/ Abandon(r)
    \/ Backend

GatewaySpec == GatewayInit /\ [][GatewayNext]_gateway

\* The event loop runs every task that is ready, a task that is released ends,
\* and a backend answers a call or fails it: over http the client's timeouts
\* (30 s, 300 s for a read) see to that, over a socket it is assumed.  The sdk
\* answers an initialize and cancels the requests of a session that ended;
\* that a session ever ends is not assumed.
GatewayFairness ==
    /\ \A r \in Requests :
        /\ WF_gateway(Serve(r) /\ RequestStep(r))
        /\ WF_gateway(client[CarrierOf[r]] # "live" /\ Abandon(r))
    /\ WF_gateway(Backend /\ \E i \in Ids : SessionStep(i))
    /\ \A c \in Clients : WF_gateway(DoorStep(c))

GatewayFairSpec == GatewaySpec /\ GatewayFairness

-----------------------------------------------------------------------------
(* Properties *)

\* A sandbox never has more than MAX_SESSIONS transports, registered or about
\* to be, however many clients ask at once and whatever has ended in between
\* (gateway.py:332).
WithinSessions ==
    \A p \in Principals : Cardinality(At(p, Registered \cup {"entered"})) =< MaxSessions

\* A sandbox is refused only while it has a session or is opening one: closed
\* sessions and failed opens give their place back (gateway.py:288).
NoLockout ==
    [][\A c \in Clients :
          (client[c] = "out" /\ client'[c] = "refused") =>
              At(HomeOf[c], Opening \cup {"live", "orphan"}) # {}]_gateway

\* A request made in a session ends, also when the session ends before it;
\* no one waits for a lock or a task that is never released.
CallsEnd == \A r \in Requests : (client[CarrierOf[r]] = "live") ~> (pc[r] \in Ended)
=============================================================================
