--------------------------- MODULE MCMcpSessions ---------------------------
(* Instances of McpSessions for TLC. *)
EXTENDS McpSessions

CONSTANTS list1, list2, tool1, tool2, web, mail

MCPrincipals == {web, mail}
MCListings == {list1, list2}

\* A listing and a tool call of one sandbox, a tool call of another.
MCRequests == {list1, tool1, tool2}
MCPrincipalOf == [r \in MCRequests |-> IF r = tool2 THEN mail ELSE web]
MCListing == {list1}

\* Two listings of one sandbox.
MCTwoListings == [r \in MCListings |-> web]
=============================================================================
