----------------------------- MODULE MCDnsRelay -----------------------------
(* An instance of DnsRelay for TLC: three queries of three classes. *)
EXTENDS DnsRelay

CONSTANTS name, aaaa, odd, s1, s2

MCQueries == {name, aaaa, odd}
MCClassOf == [q \in MCQueries |->
    IF q = aaaa THEN "AAAA" ELSE IF q = odd THEN "malformed" ELSE "name"]

\* An answer to pass on, one only the host grant allows, one to refuse.
MCSays == {{"public"}, {"public", "private"}}
=============================================================================
