---------------------------- MODULE MCMcpGateway ----------------------------
(* An instance of McpGateway for TLC: three clients of one sandbox ask for  *)
(* two places, one lists tools and one calls a tool, on one backend.        *)
EXTENDS McpGateway

CONSTANTS list1, tool1, web, c1, c2, c3

MCPrincipals == {web}
MCRequests == {list1, tool1}
MCListings == {list1}
MCPrincipalOf == [r \in MCRequests |-> web]
MCClients == {c1, c2, c3}
MCHomeOf == [c \in MCClients |-> web]
MCCarrierOf == [r \in MCRequests |-> IF r = list1 THEN c1 ELSE c2]
=============================================================================
