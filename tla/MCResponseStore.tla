-------------------------- MODULE MCResponseStore --------------------------
(* Three jobs of one endpoint: a script, a terminal session and a script   *)
(* that repeats the first one's idempotency key; a second endpoint has no  *)
(* job of its own.  Any two of the first two jobs are over the byte limit  *)
(* together, and the third alone is over it.                               *)
EXTENDS ResponseStore

CONSTANTS j1, j2, j3, e1, e2, k1

MCJobs == {j1, j2, j3}
MCEndpoints == {e1, e2}
MCEndpoint == [j \in MCJobs |-> e1]
MCKind == [j \in MCJobs |-> IF j = j2 THEN "terminal_session" ELSE "script_exec"]
MCKey == [j \in MCJobs |-> IF j = j2 THEN NoKey ELSE k1]
MCSize == [j \in MCJobs |-> CASE j = j1 -> 1 [] j = j2 -> 3 [] j = j3 -> 4]

\* For the run about waiting: no keys, so all three jobs compete for the offers.
MCNoKeys == [j \in MCJobs |-> NoKey]
=============================================================================
