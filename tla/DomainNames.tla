---------------------------- MODULE DomainNames ----------------------------
(***************************************************************************)
(* The one wildcard rule (pkgs/domain.go), built into the egress unit and  *)
(* into the command.  A name is its labels, and whether it is spelt with   *)
(* capitals; a pattern is a name, with or without a leading "*.".          *)
(***************************************************************************)
EXTENDS Naturals, Sequences, SequencesExt

Name(labels) == [labels |-> labels, capitals |-> FALSE]
Spelt(labels) == [labels |-> labels, capitals |-> TRUE]
Exact(labels) == [wild |-> FALSE, name |-> Name(labels)]
Wild(labels) == [wild |-> TRUE, name |-> Name(labels)]

ToLower(name) == Name(name.labels)

\* Mutant: the host keeps its capitals.
CoversCased(pattern, host) ==
    /\ IF pattern.wild THEN IsStrictSuffix(pattern.name.labels, host.labels)
                       ELSE host.labels = pattern.name.labels
    /\ host.capitals = pattern.name.capitals

\* `*.example.com` covers the names below example.com, not example.com itself.
Covers(pattern, host) ==
    IF pattern.wild THEN IsStrictSuffix(ToLower(pattern.name).labels, ToLower(host).labels)
                    ELSE ToLower(host) = ToLower(pattern.name)

MatchesAny(patterns, host) == \E pattern \in patterns : Covers(pattern, host)

\* A denied name is refused even inside a granted wildcard.
AllowedName(domains, denied, host) == ~MatchesAny(denied, host) /\ MatchesAny(domains, host)

\* route: a credential's domain is ended here, an allowed name is spliced
\* unread, the rest is refused.
Judged(intercepted, domains, denied, name) ==
    IF ToLower(name) \in intercepted THEN "intercept"
    ELSE IF AllowedName(domains, denied, name) THEN "allow" ELSE "deny"
=============================================================================
