------------------------------ MODULE MCStatus ------------------------------
(* An instance of Status for TLC: a wildcard grant with a name to deny in   *)
(* it, a credential's domain, a pin that is a private resolver, and a port  *)
(* of the host that the tls door takes on the bridge.                       *)
EXTENDS Status

MCPins == {<<"private", 53>>}
MCPatterns == {Wild(<<"org">>), Exact(<<"evil", "org">>)}
MCCredentials == {Name(<<"api", "org">>)}
MCHosts == {Name(<<"org">>), Spelt(<<"evil", "org">>), Spelt(<<"api", "org">>)}
=============================================================================
