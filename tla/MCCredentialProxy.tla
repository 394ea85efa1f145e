------------------------- MODULE MCCredentialProxy -------------------------
(* An instance of CredentialProxy for TLC: two credentials of one host, one *)
(* for "GET /a*" and one for "* /*b", and requests that one, both or none   *)
(* of them admit.                                                           *)
EXTENDS CredentialProxy, SequencesExt

CONSTANTS one, both, broken, stray, dots, header, query

MCRequests == {one, both, broken, stray, dots}
At(domain, name, capitals, path) ==
    [host |-> [name |-> domain, capitals |-> capitals],
     method |-> [name |-> name, capitals |-> ~capitals], path |-> path]
MCTarget == [r \in MCRequests |->
    CASE r = one -> At("api", "get", FALSE, <<"/", "c", ".", "b">>)
      [] r = both -> At("api", "get", FALSE, <<"/", "a", "b">>)
      [] r = broken -> At("api", "post", TRUE, <<"/", "a", "/", "b", "b">>)
      [] r = dots -> At("api", "get", FALSE, <<"/", "a", "/", ".", ".">>)
      [] OTHER -> At("web", "get", FALSE, <<"/", "a">>)]
MCDomainOf == [c \in {header, query} |-> "api"]
MCAllow == [c \in {header, query} |->
    IF c = header THEN {[methods |-> {"get"}, pattern |-> <<<<"/", "a">>, <<>>>>]}
                  ELSE {[methods |-> {}, pattern |-> <<<<"/">>, <<"b">>>>]}]
MCBody == [r \in MCRequests |-> IF r = broken THEN "broken" ELSE "measured"]
MCMentions == [r \in MCRequests |-> {"query", "path", "body"}]
MCEscapedIn == [c \in {header, query} |-> IF c = query THEN {"query"} ELSE {}]

MCParts == {<<>>, <<"a">>, <<"/">>}
MCPatterns == {<<first>> \o rest : first \in {<<"/">>, <<"/", "a">>}, rest \in BoundedSeq(MCParts, 2)}
MCPaths == {<<"/">> \o rest : rest \in BoundedSeq({"/", "a", ".", "newline"}, 4)}

MCAgree == Agree(MCPatterns, MCPaths)

\* Whenever a handler judges a request: for every pattern of up to two stars
\* and every path of up to five characters, what pathPattern compiles matches
\* exactly the paths in which the parts stand around their stars
\* (credentials.go:194), and hasDotSegment refuses exactly those with a
\* segment of one or two dots.
RulesAgree == (\E r \in Requests : pc[r] = "judge") => MCAgree
=============================================================================
