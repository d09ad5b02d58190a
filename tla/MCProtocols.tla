----------------------------- MODULE MCProtocols -----------------------------
(***************************************************************************)
(* The protocols the gateway speaks beside chat completions: MCP and the   *)
(* responses.  They share no state, so that a behaviour is about one of    *)
(* them, chosen at its beginning.                                          *)
(***************************************************************************)
EXTENDS McpServer, Responses

CONSTANTS r1, r2, w1, k1, k2, begin

Asked == (r1 :> {"call"}) @@ (r2 :> Methods)

(* Two keys that begin alike, as bearers; and one of them in X-API-Key.    *)
Alike ==
    {[header |-> "Authorization", key |-> k, cut |-> begin] : k \in {k1, k2}}
    \cup {[header |-> "X-API-Key", key |-> k1, cut |-> begin]}

VARIABLE protocol
MCInit == Init /\ ResponsesInit /\ protocol \in {"mcp", "streamed", "kept"}
MCNext ==
    \/ protocol = "mcp" /\ Next /\ UNCHANGED <<responsesVars, protocol>>
    \/ protocol = "streamed" /\ StreamNext /\ UNCHANGED <<keptVars, vars, protocol>>
    \/ protocol = "kept" /\ KeptNext /\ UNCHANGED <<streamVars, vars, protocol>>
MCSpec == MCInit /\ [][MCNext]_<<vars, responsesVars, protocol>> /\ McpFairness /\ ResponsesFairness
=============================================================================
