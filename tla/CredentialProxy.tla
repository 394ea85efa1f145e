--------------------------- MODULE CredentialProxy ---------------------------
(***************************************************************************)
(* The egress unit's credential proxy (credentials.go: handler, forward):  *)
(* requests a guest sends with a placeholder, the judgement that picks at  *)
(* most one credential, the value put in its place, and what comes back.   *)
(*                                                                         *)
(* A request is a record of what the judgement looks at; texts are         *)
(* abstracted to whether the credential stands in them, as the value the   *)
(* unit stores ("value"), as the key in it alone ("key"), or as what a     *)
(* uri's escaping makes of it when that changes the key's bytes            *)
(* ("escaped").                                                            *)
(***************************************************************************)
EXTENDS Integers, Sequences, FiniteSets, AllowRules

CONSTANTS
    Requests,      \* requests, each made once
    Target,        \* per request, its host, method and path
    Body,          \* per request: "none", "measured", "unmeasured", "broken"
    Mentions,      \* per request, where its placeholder stands: "query", "path", "body"
    Credentials,
    DomainOf,      \* per credential, its domain in lower case
    Allow,         \* per credential, its allow entries: [methods, pattern]
    Substitutes,   \* the credentials with substitute set
    Scrubbed,      \* the credentials with a placeholder
    EscapedIn,     \* per credential, the parts of a uri that escape its key
    MaxInFlight    \* maxInFlight

(* Where the guest reads: "body" is held and scrubbed twice, "brim" only    *)
(* once, "stream" not at all; "trailer" follows a body.                     *)
Places == {"interim", "header", "body", "brim", "stream", "trailer"}
Tokens == {"value", "key", "escaped"}
Uri == {"query", "path"}

ASSUME RequestAssumption ==
    /\ \A r \in Requests :
         {"host", "method", "path"} \subseteq DOMAIN Target[r] /\ Target[r].path \in Seq(STRING)
    /\ Body \in [Requests -> {"none", "measured", "unmeasured", "broken"}]
    /\ Mentions \in [Requests -> SUBSET (Uri \cup {"body"})]
ASSUME CredentialAssumption ==
    /\ IsFiniteSet(Credentials)
    /\ Substitutes \subseteq Scrubbed /\ Scrubbed \subseteq Credentials
    /\ EscapedIn \in [Credentials -> SUBSET Uri]

\* parseAllow (egress.nix:291): a path that is given starts with a slash.
ASSUME AllowAssumption ==
    \A c \in Credentials : \A entry \in Allow[c] : entry.pattern # NoPath =>
        /\ entry.pattern \in Seq(Seq(STRING \ {Star}))
        /\ entry.pattern[1] # <<>> /\ entry.pattern[1][1] = "/"
ASSUME BoundAssumption == MaxInFlight \in Nat

NoCredential == "none"
ASSUME NoCredentialAssumption == NoCredential \notin Credentials

VARIABLES
    pc,         \* where the handler of a request is
    slots,      \* tokens in the channel inFlight
    chosen,     \* the credential the handler settled on
    status,     \* forward's variable of that name
    told,       \* the status the guest got, 0 for none
    journal,    \* the lines recorded for a request: [status, uri]
    uri,        \* what stands in r.URL where the placeholder stood
    sent,       \* what the upstream got: <<credential, where it stands>>
    seen        \* what the guest got to see: <<place, token>>

vars == <<pc, slots, chosen, status, told, journal, uri, sent, seen>>

PCs == {"new", "judge", "read", "sent", "answering", "over"}
Statuses == {0, 200, 403, 404, 502, 503}

TypeOK ==
    /\ pc \in [Requests -> PCs] /\ slots \in Nat
    /\ chosen \in [Requests -> Credentials \cup {NoCredential}]
    /\ status \in [Requests -> Statuses] /\ told \in [Requests -> Statuses]
    /\ \A r \in Requests : \A i \in DOMAIN journal[r] :
         journal[r][i] \in [status : Statuses, uri : {"placeholder", "value"}]
    /\ uri \in [Requests -> {"placeholder", "value"}]
    /\ sent \in [Requests -> SUBSET (Credentials \X (Uri \cup {"header", "body"}))]
    /\ seen \in [Requests -> SUBSET (Places \X Tokens)]

Init ==
    /\ pc = [r \in Requests |-> "new"] /\ slots = 0
    /\ chosen = [r \in Requests |-> NoCredential]
    /\ status = [r \in Requests |-> 502] /\ told = [r \in Requests |-> 0]
    /\ journal = [r \in Requests |-> <<>>]
    /\ uri = [r \in Requests |-> "placeholder"]
    /\ sent = [r \in Requests |-> {}] /\ seen = [r \in Requests |-> {}]

-----------------------------------------------------------------------------
(* handler *)

Goto(r, label) == pc' = [pc EXCEPT ![r] = label]

\* Mutant: the uri is read when the line is written.
RecordLate(r, code) ==
    journal' = [journal EXCEPT ![r] = Append(@, [status |-> code, uri |-> uri[r]])]

\* handler keeps the uri it read before substitute rewrites the request.
Record(r, code) ==
    journal' = [journal EXCEPT ![r] = Append(@, [status |-> code, uri |-> "placeholder"])]

\* The handler returns; what it deferred gives the slot back.
Return(r) == Goto(r, "over") /\ slots' = slots - 1

Refuse(r, code) ==
    /\ Record(r, code)
    /\ told' = [told EXCEPT ![r] = code]

TooMany(r) ==
    /\ pc[r] = "new" /\ slots >= MaxInFlight
    /\ Refuse(r, 503)
    /\ Goto(r, "over")
    /\ UNCHANGED <<slots, chosen, status, uri, sent, seen>>

Admit(r) ==
    /\ pc[r] = "new" /\ slots < MaxInFlight
    /\ slots' = slots + 1
    /\ Goto(r, "judge")
    /\ UNCHANGED <<chosen, status, told, journal, uri, sent, seen>>

\* byDomain, asked with the host in lower case and without its port.
Candidates == [r \in Requests |-> {c \in Credentials : DomainOf[c] = Target[r].host.name}]
Covers == [r \in Requests |-> {c \in Candidates[r] : Allowed(Allow[c], Target[r])}]
Dotted == {r \in Requests : HasDotSegment(Target[r].path)}

\* Mutant: the first credential that admits the request is taken.
VerdictFirst(r) ==
    IF Candidates[r] = {} THEN 404
    ELSE IF r \in Dotted \/ Covers[r] = {} THEN 403 ELSE 200

\* No credential for the host; a dot segment; none or several that admit it.
Verdict(r) ==
    IF Candidates[r] = {} THEN 404
    ELSE IF r \in Dotted \/ Cardinality(Covers[r]) # 1 THEN 403 ELSE 200

JudgedBad(r) ==
    /\ pc[r] = "judge" /\ Verdict(r) # 200
    /\ Refuse(r, Verdict(r))
    /\ Return(r)
    /\ UNCHANGED <<chosen, status, uri, sent, seen>>

JudgedGood(r) ==
    /\ pc[r] = "judge" /\ Verdict(r) = 200
    /\ \E c \in Covers[r] : chosen' = [chosen EXCEPT ![r] = c]
    /\ Goto(r, "read")
    /\ UNCHANGED <<slots, status, told, journal, uri, sent, seen>>

\* substitute holds a measured body to rewrite it, and only when asked to.
HoldsBody(r) == chosen[r] \in Substitutes /\ Body[r] \in {"measured", "broken"}

\* Mutant: a body that breaks off is waited for.
BodyUnreadableWaits(r) == FALSE

BodyUnreadable(r) ==
    /\ pc[r] = "read" /\ HoldsBody(r) /\ Body[r] = "broken"
    /\ Refuse(r, 502)
    /\ Return(r)
    /\ uri' = [uri EXCEPT ![r] = IF Mentions[r] \cap Uri # {} THEN "value" ELSE @]
    /\ UNCHANGED <<chosen, status, sent, seen>>

\* What substitute rewrites of a request, where the placeholder stands in it.
Rewritten(r) ==
    IF chosen[r] \notin Substitutes THEN {}
    ELSE Mentions[r] \cap (Uri \cup (IF Body[r] = "measured" THEN {"body"} ELSE {}))

\* substitute, then forward's Rewrite sets the header: the credential is in
\* the header, and where the placeholder stood in what was rewritten.
Forward(r) ==
    /\ pc[r] = "read" /\ ~(HoldsBody(r) /\ Body[r] = "broken")
    /\ sent' = [sent EXCEPT ![r] = {<<chosen[r], place>> : place \in {"header"} \cup Rewritten(r)}]
    /\ uri' = [uri EXCEPT ![r] = IF Rewritten(r) \cap Uri # {} THEN "value" ELSE @]
    /\ Goto(r, "sent")
    /\ UNCHANGED <<slots, chosen, status, told, journal, seen>>

-----------------------------------------------------------------------------
(* forward: what the upstream sends back *)

\* What an upstream can repeat as it got it: url.QueryEscape writes the query
\* and net/url the path, a header and a body carry the bytes as they are.
Echoes(r) ==
    UNION {IF pair[2] \in EscapedIn[pair[1]] THEN {"escaped"} ELSE {"value", "key"} : pair \in sent[r]}

\* One pass over the raw bytes.  Without a placeholder there is none to put.
ScrubPass(tokens, r, token) == IF chosen[r] \in Scrubbed THEN tokens \ {token} ELSE tokens
\* Mutant: only the stored value is scrubbed, not the key in it.
ScrubValue(tokens, r) == ScrubPass(tokens, r, "value")

\* Two passes, over the stored value and over the key in it.
Scrub(tokens, r) == ScrubPass(ScrubPass(tokens, r, "value"), r, "key")

\* What comes of the body: rewriteBody holds one of a known length that is
\* small enough, for each pass anew.  One the first pass made too long, since
\* the placeholder is longer than the value, is not held for the second.  Any
\* other passes as it comes.
Lengths == {"measured", "brim", "unmeasured"}
Passed(r, text, length) ==
    CASE length = "measured" -> {"body"} \X Scrub(text, r)
      [] length = "brim" -> {"brim"} \X ScrubPass(text, r, "value")
      [] OTHER -> {"stream"} \X text

See(r, pairs) == seen' = [seen EXCEPT ![r] = @ \cup pairs]

\* A 1xx answer is relayed from a trace hook.
Interim(r, echo) ==
    /\ pc[r] = "sent"
    /\ See(r, {"interim"} \X Scrub(echo, r))
    /\ UNCHANGED <<pc, slots, chosen, status, told, journal, uri, sent>>

\* The answer: ModifyResponse scrubs the header and what can be held of the
\* body; the trailer comes after it and is copied by the reverse proxy.  Each
\* is scrubbed by itself, so an upstream that echoes does so in all three.
Respond(r, echo, length) ==
    /\ pc[r] = "sent"
    /\ length = "brim" => chosen[r] \in Scrubbed /\ "value" \in echo
    /\ status' = [status EXCEPT ![r] = 200]
    /\ told' = [told EXCEPT ![r] = 200]
    /\ See(r, ({"header"} \X Scrub(echo, r)) \cup Passed(r, echo, length) \cup ({"trailer"} \X echo))
    /\ Goto(r, "answering")
    /\ UNCHANGED <<slots, chosen, journal, uri, sent>>

\* ModifyResponse notes the status, then fails to read the body to scrub:
\* the error handler answers 502.
BodyLost(r) ==
    /\ pc[r] = "sent" /\ chosen[r] \in Scrubbed
    /\ status' = [status EXCEPT ![r] = 200]
    /\ told' = [told EXCEPT ![r] = 502]
    /\ Goto(r, "answering")
    /\ UNCHANGED <<slots, chosen, journal, uri, sent, seen>>

\* The upstream cannot be reached, or hangs up before it answers.
Unreachable(r) ==
    /\ pc[r] = "sent"
    /\ told' = [told EXCEPT ![r] = 502]
    /\ Goto(r, "answering")
    /\ UNCHANGED <<slots, chosen, status, journal, uri, sent, seen>>

\* Mutant: the slot is not given back by a defer.
HangUpLeaks(r) ==
    /\ pc[r] \in {"sent", "answering"}
    /\ Record(r, status[r])
    /\ Goto(r, "over")
    /\ UNCHANGED <<slots, chosen, status, told, uri, sent, seen>>

\* The guest hangs up: the round trip is cancelled, or ServeHTTP panics in
\* the middle of the answer; the deferred record runs either way.
HangUp(r) ==
    /\ pc[r] \in {"sent", "answering"}
    /\ Record(r, status[r])
    /\ Return(r)
    /\ UNCHANGED <<chosen, status, told, uri, sent, seen>>

Served(r) ==
    /\ pc[r] = "answering"
    /\ Record(r, status[r])
    /\ Return(r)
    /\ UNCHANGED <<chosen, status, told, uri, sent, seen>>

-----------------------------------------------------------------------------
Step(r) ==
    \/ TooMany(r) \/ Admit(r) \/ JudgedBad(r) \/ JudgedGood(r) \/ BodyUnreadable(r) \/ Forward(r)
    \/ \E echo \in SUBSET Echoes(r), length \in Lengths : Respond(r, echo, length)
    \/ BodyLost(r) \/ Unreachable(r) \/ HangUp(r) \/ Served(r)

Next == \E r \in Requests : Step(r) \/ \E echo \in SUBSET Echoes(r) : Interim(r, echo)

Spec == Init /\ [][Next]_vars

\* An upstream answers or fails, and a guest reads or hangs up.
FairSpec == Spec /\ \A r \in Requests : WF_vars(Step(r))

-----------------------------------------------------------------------------
(* Properties *)

\* The slots count the handlers that run, whichever of the ways a handler
\* returns by, a panic included; there are never more than the limit.
SlotsCounted ==
    /\ slots = Cardinality({r \in Requests : pc[r] \notin {"new", "over"}})
    /\ slots =< MaxInFlight

\* The credentials that admit a request as their entries read.
Admits(c, request) ==
    /\ DomainOf[c] = request.host.name
    /\ Allow[c] # {} => \E entry \in Allow[c] :
        /\ entry.methods = {} \/ \E name \in entry.methods : name = request.method.name
        /\ entry.pattern = NoPath \/ Placed(entry.pattern, request.path)

Admitting == [r \in Requests |-> {c \in Credentials : Admits(c, Target[r])}]
Straight == {r \in Requests : Stays(Target[r].path)}

\* A value leaves the host only in a request exactly one credential of its
\* host admits as its entries read, it is that credential's, no segment of
\* the path climbs, and the guest is not told a refusal.
OneCredential ==
    \A r \in Requests : sent[r] # {} =>
        /\ \A pair \in sent[r] : Admitting[r] = {pair[1]}
        /\ r \in Straight
        /\ told[r] \in {0, 200, 502}

\* An upstream that echoes the request hands the guest neither the value nor
\* the key in it, in an interim answer, a header or a body that was held
\* (credentials.go:244).  What gets past: a body that was not held, and the
\* trailer; the key, in a body the first pass made too long for the second;
\* and the escaped form, of a credential that asks to be substituted, for a
\* guest that put its placeholder where the escaping changes the key.
EchoScrubbed ==
    \A r \in Requests : \A pair \in seen[r] : chosen[r] \in Scrubbed =>
        \/ pair[1] \in {"stream", "trailer"}
        \/ pair = <<"brim", "key">>
        \/ /\ pair[2] = "escaped" /\ chosen[r] \in Substitutes
           /\ Mentions[r] \cap EscapedIn[chosen[r]] # {}

\* A request that ended has exactly one line in the journal, one that runs
\* has none, and no line carries the value substitute put in the uri.
JournalledOnce ==
    \A r \in Requests :
        /\ Len(journal[r]) = IF pc[r] = "over" THEN 1 ELSE 0
        /\ \A i \in DOMAIN journal[r] : journal[r][i].uri = "placeholder"

\* credentials.go:105: "the journal and the guest must never disagree on how
\* a request ended".
JournalAgrees ==
    \A r \in Requests : (pc[r] = "over" /\ told[r] # 0) => journal[r][1].status = told[r]

\* Every request ends and gives its slot back.
RequestsEnd == \A r \in Requests : <>(pc[r] = "over")
=============================================================================
