------------------------- MODULE MCResponseDispatch -------------------------
(* One or two jobs on the agent's endpoint. *)
EXTENDS ResponseDispatch

CONSTANTS j1, j2, j3, e1

MCPair == {j1, j2}
MCJobs == {j1, j2, j3}
MCEndpoint == [j \in Jobs |-> e1]
MCKey == [j \in Jobs |-> NoKey]
MCSize == [j \in Jobs |-> 1]
MCKind == [j \in Jobs |-> CASE j = j1 -> "script_exec"
                            [] j = j2 -> "terminal_session"
                            [] j = j3 -> "screen_session"]
MCKindInline == [j \in Jobs |-> IF j = j1 THEN "script_exec" ELSE "forensic_collection"]
MCAgentKinds == {"script_exec", "forensic_collection", "terminal_session"}
=============================================================================
